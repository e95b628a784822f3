------------------------------ MODULE AgentLoop ------------------------------
(***************************************************************************)
(* The agentic loop of internal/agent/loop.go with the context compression *)
(* of internal/agent/compression.go: call the model, run the tools it asks *)
(* for, append their results, and repeat until the model stops and the     *)
(* required report has been recorded, or a budget runs out.                *)
(*                                                                         *)
(* A message is its kind and its place in the transcript.  The texts, and  *)
(* with them the token estimate, are not modelled: whether the history has *)
(* reached compressTokenThreshold is left open at every turn.  Running the *)
(* tools of a turn is one step here (ToolOrchestrator shows that it gives  *)
(* one results message, whatever the tools do).                            *)
(***************************************************************************)
EXTENDS Integers, Sequences, FiniteSets

CONSTANTS
  MaxTurns,               \* Config.MaxTurns, 40 unless --max-turns is positive
  maxFinalizerReminders,  \* 3
  deadlineNudgeTurns,     \* 5
  keepRecentMessages,     \* 8, the messages compression leaves alone
  minCompressZone,        \* 4, the messages worth a compression
  keepRecent              \* 6, the messages a request carries in full

ASSUME LoopAssumption ==
  /\ MaxTurns \in Nat \ {0}
  /\ maxFinalizerReminders \in Nat
  /\ deadlineNudgeTurns \in Nat \ {0}
  /\ keepRecentMessages \in Nat \ {0}
  /\ minCompressZone \in Nat \ {0}
  /\ keepRecent \in Nat /\ keepRecent >= 2

(* "prompt" is the first user message; "nudge" and "reminder" are the      *)
(* hidden user messages of the deadline and of the stop hook; an assistant *)
(* message is plain "text" or "calls" tools; "results" answers the calls.  *)
Kind == {"prompt", "nudge", "reminder", "text", "calls", "results"}

Message == [kind : Kind, id : Nat, whole : BOOLEAN]

VARIABLES
  pc,             \* where Run stands
  turn,           \* the loop counter
  remindersLeft,  \* stop-hook reminders left
  state,          \* the message history the next request is built from
  summary,        \* ids of the messages the summary in state[1] stands for
  transcript,     \* every message appended to the transcript
  recorded,       \* the required report is in the sink
  interrupted,    \* the context is cancelled (SIGINT or SIGTERM)
  outcome,        \* what Run returned
  modelCalls      \* history: requests sent to the provider

vars == <<pc, turn, remindersLeft, state, summary, transcript, recorded,
          interrupted, outcome, modelCalls>>

budgets == <<turn, remindersLeft>>

-----------------------------------------------------------------------------
Assistant(m) == m.kind \in {"text", "calls"}

(* The next message of the transcript.                                     *)
NewMessage(kind) == [kind |-> kind, id |-> Len(transcript) + 1, whole |-> TRUE]

(* A message joins the history and the transcript together.                *)
AppendMessage(kind) ==
  /\ state' = Append(state, NewMessage(kind))
  /\ transcript' = Append(transcript, NewMessage(kind))

Finish(result) == pc' = "done" /\ outcome' = result

(* Mutant of Request: every result is shortened, however recent.           *)
RequestAllShort ==
  [i \in DOMAIN state |->
     IF state[i].kind = "results" THEN [state[i] EXCEPT !.whole = FALSE] ELSE state[i]]

(* What compactState sends: the history, with the result texts of all but  *)
(* the keepRecent last messages shortened in a copy.                       *)
Request ==
  [i \in DOMAIN state |->
     IF i <= Len(state) - keepRecent /\ state[i].kind = "results"
     THEN [state[i] EXCEPT !.whole = FALSE]
     ELSE state[i]]

(* Mutant of Cutoff: the cut is not moved back to an assistant message.    *)
CutoffAnywhere(c) == c >= 2 /\ c = Len(state) - keepRecentMessages

(* Mutant of Cutoff: the cut moves forward to an assistant message.        *)
CutoffForward(c) ==
  /\ c \in (Len(state) - keepRecentMessages) .. (Len(state) - 1)
  /\ c >= 2 /\ Assistant(state[c + 1])
  /\ \A d \in (Len(state) - keepRecentMessages) .. (c - 1) : d >= 2 => ~Assistant(state[d + 1])

(* maybeCompress keeps the history from the last assistant message that    *)
(* has at least keepRecentMessages - 1 messages after it: state[1 .. c]    *)
(* goes, but for the prompt.                                               *)
Cutoff(c) ==
  /\ c \in 2 .. (Len(state) - keepRecentMessages)
  /\ Assistant(state[c + 1])
  /\ \A d \in (c + 1) .. (Len(state) - keepRecentMessages) : ~Assistant(state[d + 1])

Compressible == \E c \in DOMAIN state : Cutoff(c) /\ c - 1 >= minCompressZone

-----------------------------------------------------------------------------
Init ==
  /\ pc = "turn"
  /\ turn = 0
  /\ remindersLeft = maxFinalizerReminders
  /\ state = <<[kind |-> "prompt", id |-> 1, whole |-> TRUE]>>
  /\ summary = {}
  /\ transcript = state
  /\ recorded = FALSE
  /\ interrupted = FALSE
  /\ outcome = "running"
  /\ modelCalls = 0

(* The deadline nudge, deadlineNudgeTurns before the end.                  *)
Nudge ==
  IF MaxTurns - turn = deadlineNudgeTurns /\ ~recorded
  THEN AppendMessage("nudge")
  ELSE UNCHANGED <<state, transcript>>

(* Mutant of Cancelled: the loop goes round instead of returning.          *)
CancelledContinues ==
  /\ pc = "turn"
  /\ turn < MaxTurns
  /\ interrupted
  /\ UNCHANGED vars

Cancelled ==
  /\ pc = "turn"
  /\ turn < MaxTurns
  /\ interrupted
  /\ Finish("cancelled")
  /\ UNCHANGED <<budgets, state, summary, transcript, recorded, interrupted, modelCalls>>

(* The top of the loop.  The nudge, if due, comes before the decision to   *)
(* compress, and counts as one of the recent messages.                     *)
StartTurn ==
  /\ pc = "turn"
  /\ turn < MaxTurns
  /\ ~interrupted
  /\ Nudge
  /\ \/ pc' = "stream"
     \/ Compressible' /\ pc' = "compress"
  /\ modelCalls' = modelCalls + 1
  /\ UNCHANGED <<budgets, summary, recorded, interrupted, outcome>>

(* The summary comes back: it takes the place of the compressed messages,  *)
(* and of any summary that stood in the prompt before.                     *)
Compress ==
  /\ pc = "compress"
  /\ \E c \in DOMAIN state :
       /\ Cutoff(c)
       /\ state' = <<state[1]>> \o SubSeq(state, c + 1, Len(state))
       /\ summary' = {state[i].id : i \in 2 .. c}
  /\ pc' = "stream"
  /\ modelCalls' = modelCalls + 1
  /\ UNCHANGED <<budgets, transcript, recorded, interrupted, outcome>>

(* The summary call failed or gave no text: the history stays as it was.   *)
SkipCompress ==
  /\ pc = "compress"
  /\ pc' = "stream"
  /\ modelCalls' = modelCalls + 1
  /\ UNCHANGED <<budgets, state, summary, transcript, recorded, interrupted, outcome>>

StreamFails ==
  /\ pc = "stream"
  /\ Finish("failed")
  /\ UNCHANGED <<budgets, state, summary, transcript, recorded, interrupted, modelCalls>>

(* The assistant asks for tools.                                           *)
StreamCalls ==
  /\ pc = "stream"
  /\ AppendMessage("calls")
  /\ pc' = "tools"
  /\ UNCHANGED <<budgets, summary, recorded, interrupted, outcome, modelCalls>>

(* StreamStops, with the condition under which the model is reminded.      *)
Stops(remind) ==
  /\ pc = "stream"
  /\ LET text == NewMessage("text")
         reminder == [NewMessage("reminder") EXCEPT !.id = text.id + 1]
     IN  IF remind
         THEN /\ state' = state \o <<text, reminder>>
              /\ transcript' = transcript \o <<text, reminder>>
              /\ remindersLeft' = remindersLeft - 1
              /\ turn' = turn + 1
              /\ pc' = "turn"
              /\ UNCHANGED outcome
         ELSE /\ AppendMessage("text")
              /\ Finish(IF recorded THEN "ok" ELSE "missing")
              /\ UNCHANGED budgets
  /\ UNCHANGED <<summary, recorded, interrupted, modelCalls>>

(* Mutant of StreamStops: the last reminder is never spent.                *)
StreamStopsOneShort == Stops(remindersLeft > 1 /\ ~recorded)

(* The assistant stops: the stop hook lets the loop end when the report is *)
(* recorded or no reminder is left, and reminds the model otherwise.       *)
StreamStops == Stops(remindersLeft > 0 /\ ~recorded)

(* RunTools returns its message of paired results; one of the tools may    *)
(* have been the finalizer, and its report accepted.                       *)
ToolsReturn ==
  /\ pc = "tools"
  /\ AppendMessage("results")
  /\ recorded' \in {recorded, TRUE}
  /\ turn' = turn + 1
  /\ pc' = "turn"
  /\ UNCHANGED <<remindersLeft, summary, interrupted, outcome, modelCalls>>

(* The turns are used up: a report recorded meanwhile still counts.        *)
OutOfTurns ==
  /\ pc = "turn"
  /\ turn = MaxTurns
  /\ Finish(IF recorded THEN "ok" ELSE "missing")
  /\ UNCHANGED <<budgets, state, summary, transcript, recorded, interrupted, modelCalls>>

(* A signal cancels the context; Run looks at it once per turn.            *)
Interrupt ==
  /\ pc # "done"
  /\ ~interrupted
  /\ interrupted' = TRUE
  /\ UNCHANGED <<pc, budgets, state, summary, transcript, recorded, outcome, modelCalls>>

Terminated == pc = "done" /\ UNCHANGED vars

Run ==
  \/ Cancelled \/ StartTurn \/ Compress \/ SkipCompress \/ StreamFails
  \/ StreamCalls \/ StreamStops \/ ToolsReturn \/ OutOfTurns

Next == Run \/ Interrupt \/ Terminated

Spec == Init /\ [][Next]_vars

(* Run goes on whenever it can.  The provider's answer is an assumption: a *)
(* request that is refused or not begun in time fails, but no time limit   *)
(* bounds a stream that has begun.                                         *)
FairSpec == Spec /\ WF_vars(Run)

-----------------------------------------------------------------------------
(* Every variable stays in its type (LoopTypeCorrect proves it, the run    *)
(* leaves it out).                                                         *)
TypeOK ==
  /\ pc \in {"turn", "compress", "stream", "tools", "done"}
  /\ turn \in 0 .. MaxTurns
  /\ remindersLeft \in 0 .. maxFinalizerReminders
  /\ state \in Seq(Message)
  /\ summary \subseteq Nat
  /\ transcript \in Seq(Message)
  /\ recorded \in BOOLEAN
  /\ interrupted \in BOOLEAN
  /\ outcome \in {"running", "ok", "missing", "failed", "cancelled"}
  /\ modelCalls \in Nat

Count(kind) == Cardinality({i \in DOMAIN transcript : transcript[i].kind = kind})

(* No provider refuses a request, however often the history was            *)
(* compressed: it begins with the prompt, ends with a user message, and    *)
(* never holds a tool_use without its results right behind it, nor results *)
(* without their tool_use right before them.                               *)
RequestAccepted ==
  pc = "stream" =>
    /\ Request[1].kind = "prompt" /\ ~Assistant(Request[Len(Request)])
    /\ \A i \in DOMAIN Request :
         /\ Request[i].kind = "calls" =>
              i < Len(Request) /\ Request[i + 1].kind = "results"
         /\ Request[i].kind = "results" =>
              i > 1 /\ Request[i - 1].kind = "calls"

(* The results of the turn just finished reach the model in full, even     *)
(* when a nudge follows them: only older ones are shortened.               *)
FreshResultsWhole ==
  pc = "stream" =>
    \A i \in DOMAIN Request : i >= Len(Request) - 1 => Request[i].whole

(* Compression never disturbs what it keeps: the history is the prompt and *)
(* the latest messages of the transcript, in order, without a gap, and no  *)
(* fewer than keepRecentMessages of them, as far as there are that many.   *)
HistoryIsRecent ==
  /\ state[1] = transcript[1]
  /\ \A i \in 2 .. Len(state) :
       state[i] = transcript[Len(transcript) - Len(state) + i]
  /\ Len(state) > keepRecentMessages \/ state = transcript

(* Run succeeds only with a report, and blames a missing one only when     *)
(* there is none; it gives up only after every reminder, or after every    *)
(* turn and then not without the deadline nudge, if the run is that long.  *)
(* It never costs more than two requests a turn, nor is the model nagged   *)
(* beyond its reminders and one nudge.                                     *)
GivesUpFairly ==
  /\ outcome = "ok" => recorded
  /\ outcome = "missing" =>
       /\ ~recorded
       /\ \/ Count("reminder") = maxFinalizerReminders
          \/ /\ turn = MaxTurns
             /\ MaxTurns >= deadlineNudgeTurns => Count("nudge") = 1
  /\ modelCalls <= 2 * (turn + 1)
  /\ Count("reminder") + remindersLeft = maxFinalizerReminders
  /\ Count("nudge") <= 1

(* Nothing the agent has seen is lost: a message that is no longer in the  *)
(* history is covered by the summary that stands in the prompt (the        *)
(* compression prompt asks for the files examined, the conclusions and the *)
(* modifications made to be preserved).                                    *)
NothingForgotten ==
  \A i \in 1 .. Len(transcript) :
    i \in summary \/ \E j \in DOMAIN state : state[j].id = i

(* Whatever the model does, the run ends.                                  *)
RunEnds == <>(pc = "done")
=============================================================================
