------------------------------ MODULE ModelStream ------------------------------
(***************************************************************************)
(* A conversation with a provider: doWithRetry of internal/model/client.go *)
(* and the aggregation of the event stream into one message, in            *)
(* anthropic.go (api "anthropic") and openai_responses.go ("responses").   *)
(* The loop of internal/agent/loop.go is reduced to the messages it adds   *)
(* between two requests.                                                   *)
(*                                                                         *)
(* Durations are in half seconds.  The provider is external: it may fail,  *)
(* ask for a pause, answer with any few blocks, and its stream may break   *)
(* off or end early at any event.                                          *)
(***************************************************************************)
EXTENDS WireRequest

CONSTANTS
  MaxCalls,    \* bound on the requests of a conversation
  MaxBlocks,   \* bound on the blocks of an answer
  RetryAfters, \* what a Retry-After header may ask for
  maxAttempts, maxBackoff

ASSUME StreamAssumption ==
  /\ MaxCalls \in Nat /\ MaxBlocks \in Nat
  /\ RetryAfters \subseteq Nat
  /\ maxAttempts \in Nat \ {0} /\ maxBackoff \in Nat \ {0}

VARIABLES
  api,       \* the client
  history,   \* the messages so far
  calls,     \* requests begun
  cancelled, \* is ctx cancelled?
  pc,        \* of the call: "ready", "sending", "waiting", "streaming", "answered", "ended"
  attempt,   \* of doWithRetry
  backoff,
  waited,    \* the last pause made in this call
  asked,     \* what the last failed attempt said of Retry-After, as a set
  answer,    \* the blocks the provider means to send
  arrived,   \* how many events of its stream have arrived
  heard,     \* all deltas of this call passed to onEvent
  usage      \* the output tokens the last call returned

retry == <<attempt, backoff, waited, asked>>

stream == <<answer, arrived, heard>>

vars == <<api, history, calls, cancelled, pc, retry, stream, usage>>

-----------------------------------------------------------------------------
(* The blocks a provider may send.  A gateway to the Responses API may     *)
(* leave the completed item of a text out, or send it empty.               *)
Whole == <<"a", "b">>

AnswerBlock ==
  [type : {"text"}, text : {Whole, <<"ws">>}, done : IF api = "responses" THEN {"full", "empty", "omitted"} ELSE {"full"}]
    \cup [type : {"thinking", "tool_use"}, text : {Whole}, done : {"full"}]

Event(type, i, piece) == [type |-> type, index |-> i, piece |-> piece]

Deltas(i, b) == [k \in DOMAIN b.text |-> Event("delta", i, <<b.text[k]>>)]

(* The events of block i: those of the Messages API ...                    *)
MessagesEvents(i, b) == <<Event("start", i, <<>>)>> \o Deltas(i, b)

(* ... and those of the Responses API.                                     *)
ResponsesEvents(i, b) ==
  Deltas(i, b) \o
    CASE b.done = "full" -> <<Event("done", i, b.text)>>
      [] b.done = "empty" -> <<Event("done", i, <<>>)>>
      [] OTHER -> <<>>

(* The blocks are sent one after another, as both protocols do, and the    *)
(* last event ends the answer.  The Messages API counts output tokens from *)
(* one at message_start to the total in message_delta.                     *)
Events ==
  LET body(Of(_, _)) == FlattenSeq([i \in DOMAIN answer |-> Of(i, answer[i])])
  IN  IF api = "anthropic"
      THEN <<Event("message_start", 0, <<>>)>> \o body(MessagesEvents)
             \o <<Event("message_delta", 0, <<>>), Event("message_stop", 0, <<>>)>>
      ELSE body(ResponsesEvents) \o <<Event("completed", 0, <<>>)>>

Tokens == Len(answer) + 1

Id(i) == calls * (MaxBlocks + 1) + i

-----------------------------------------------------------------------------
(* json.Unmarshal leaves the input empty unless it is whole.               *)
Input(pieces) == IF pieces = Whole THEN Whole ELSE <<>>

BlockOf(type, pieces, i) ==
  IF type = "tool_use" THEN ToolUse(Id(i), Input(pieces))
  ELSE [type |-> type, text |-> pieces, id |-> 0]

(* The text of every index so far, the indices that make a block, and the  *)
(* usage.                                                                  *)
Nothing == [texts |-> [i \in 1 .. MaxBlocks |-> <<>>], blocks |-> {}, usage |-> 0]

(* Mutant of AggregateSSE: the cumulative count is added.                  *)
AggregateSSEAdds(acc, e) ==
  CASE e.type = "message_start" -> [acc EXCEPT !.usage = @ + 1]
    [] e.type = "start" -> [acc EXCEPT !.texts[e.index] = <<>>, !.blocks = @ \cup {e.index}]
    [] e.type = "delta" -> [acc EXCEPT !.texts[e.index] = @ \o e.piece]
    [] e.type = "message_delta" -> [acc EXCEPT !.usage = @ + Tokens]
    [] OTHER -> acc

(* aggregateSSE: a builder per index; a later count of tokens replaces the *)
(* earlier.                                                                *)
AggregateSSE(acc, e) ==
  CASE e.type = "message_start" -> [acc EXCEPT !.usage = @ + 1]
    [] e.type = "start" -> [acc EXCEPT !.texts[e.index] = <<>>, !.blocks = @ \cup {e.index}]
    [] e.type = "delta" -> [acc EXCEPT !.texts[e.index] = @ \o e.piece]
    [] e.type = "message_delta" -> [acc EXCEPT !.usage = Tokens]
    [] OTHER -> acc

(* aggregateResponsesSSE: a completed item makes its block, unless it is a *)
(* text that is empty; deltas of texts are kept, of nothing else.          *)
AggregateResponsesSSE(acc, e) ==
  CASE e.type = "delta" /\ answer[e.index].type = "text" ->
         [acc EXCEPT !.texts[e.index] = @ \o e.piece]
    [] e.type = "done" /\ answer[e.index].type \in {"text", "tool_use"} /\ e.piece # <<>> ->
         [acc EXCEPT !.texts[e.index] = e.piece, !.blocks = @ \cup {e.index}]
    [] e.type = "completed" -> [acc EXCEPT !.usage = @ + Tokens]
    [] OTHER -> acc

(* Texts that came as deltas only.                                         *)
Recovered(acc) ==
  IF api = "anthropic" THEN {} ELSE {i \in 1 .. MaxBlocks : ~Blank(acc.texts[i])} \ acc.blocks

(* The message made of the events, its blocks in the order of the indices. *)
Aggregate(events) ==
  LET acc == IF api = "anthropic" THEN FoldLeft(AggregateSSE, Nothing, events)
             ELSE FoldLeft(AggregateResponsesSSE, Nothing, events)
      indices == Only([i \in DOMAIN answer |-> i], acc.blocks \cup Recovered(acc))
  IN  [content |-> [k \in DOMAIN indices |->
                      BlockOf(answer[indices[k]].type, acc.texts[indices[k]], indices[k])],
       usage |-> acc.usage]

-----------------------------------------------------------------------------
Init ==
  /\ api \in {"anthropic", "responses"}
  /\ history = <<NewUserText(<<"prompt">>)>>
  /\ calls = 0
  /\ cancelled = FALSE
  /\ pc = "ready"
  /\ attempt = 0 /\ backoff = 0 /\ waited = 0 /\ asked = {}
  /\ answer = <<>> /\ arrived = 0 /\ heard = <<>>
  /\ usage = 0

(* Stream begins with a first attempt.                                     *)
StartCall ==
  /\ pc = "ready"
  /\ IF cancelled \/ calls = MaxCalls
     THEN pc' = "ended" /\ UNCHANGED <<calls, retry, stream>>
     ELSE /\ pc' = "sending" /\ calls' = calls + 1
          /\ attempt' = 1 /\ backoff' = 1 /\ waited' = 0 /\ asked' = {}
          /\ answer' = <<>> /\ arrived' = 0 /\ heard' = <<>>
  /\ UNCHANGED <<api, history, cancelled, usage>>

(* Mutant of Capped: there is no limit to what the server may ask for.     *)
CappedNot(delay) == delay

Capped(delay) == IF delay > maxBackoff THEN maxBackoff ELSE delay

(* Mutant of Retry: an attempt that found no connection does not count.    *)
RetryUncounted(after) ==
  /\ pc' = "waiting"
  /\ attempt' = IF after = {} THEN attempt ELSE attempt + 1
  /\ backoff' = IF after = {} THEN backoff ELSE Capped(CHOOSE a \in after : TRUE)
  /\ asked' = after

(* The next attempt is due after the backoff, or what Retry-After says.    *)
Retry(after) ==
  /\ pc' = "waiting"
  /\ attempt' = attempt + 1
  /\ backoff' = IF after = {} THEN backoff ELSE Capped(CHOOSE a \in after : TRUE)
  /\ asked' = after

(* No connection, which is also what becomes of a request when ctx is      *)
(* cancelled.                                                              *)
ConnectionFails ==
  /\ pc = "sending"
  /\ IF attempt < maxAttempts THEN Retry({}) ELSE pc' = "ended" /\ UNCHANGED <<attempt, backoff, asked>>
  /\ UNCHANGED <<api, history, calls, cancelled, waited, stream, usage>>

(* A transient status; that of the last attempt is returned to the caller, *)
(* who makes an error of it.                                               *)
TransientStatus ==
  /\ pc = "sending" /\ ~cancelled
  /\ \E after \in {{}} \cup {{a} : a \in RetryAfters} :
       IF attempt < maxAttempts THEN Retry(after) ELSE pc' = "ended" /\ UNCHANGED <<attempt, backoff, asked>>
  /\ UNCHANGED <<api, history, calls, cancelled, waited, stream, usage>>

(* Any other status but 200.                                               *)
PermanentStatus ==
  /\ pc = "sending" /\ ~cancelled
  /\ pc' = "ended"
  /\ UNCHANGED <<api, history, calls, cancelled, retry, stream, usage>>

(* The select between ctx and the timer: when both are ready either wins.  *)
WaitCancelled ==
  /\ pc = "waiting" /\ cancelled
  /\ pc' = "ended"
  /\ UNCHANGED <<api, history, calls, cancelled, retry, stream, usage>>

(* Mutant of WaitEnds: the backoff grows before the wait.                  *)
WaitEndsDoubled ==
  /\ pc = "waiting"
  /\ pc' = "sending"
  /\ backoff' = Capped(2 * backoff)
  /\ waited' = backoff'
  /\ UNCHANGED <<api, history, calls, cancelled, attempt, asked, stream, usage>>

WaitEnds ==
  /\ pc = "waiting"
  /\ pc' = "sending"
  /\ waited' = backoff
  /\ backoff' = Capped(2 * backoff)
  /\ UNCHANGED <<api, history, calls, cancelled, attempt, asked, stream, usage>>

(* Status 200: a stream begins.  What was retried is of no more interest.  *)
Accepted ==
  /\ pc = "sending" /\ ~cancelled
  /\ pc' = "streaming"
  /\ answer' \in BoundedSeq(AnswerBlock, MaxBlocks)
  /\ attempt' = 0 /\ backoff' = 0 /\ waited' = 0 /\ asked' = {}
  /\ UNCHANGED <<api, history, calls, cancelled, arrived, heard, usage>>

EventArrives ==
  /\ pc = "streaming" /\ arrived < Len(Events)
  /\ arrived' = arrived + 1
  /\ heard' = IF Events[arrived'].type = "delta" THEN Append(heard, Events[arrived']) ELSE heard
  /\ UNCHANGED <<api, history, calls, cancelled, pc, retry, answer, usage>>

(* The end of the body, at whichever event it comes.                       *)
StreamEnds ==
  /\ pc = "streaming"
  /\ LET r == Aggregate(SubSeq(Events, 1, arrived))
     IN  /\ history' = Append(history, [role |-> "assistant", content |-> r.content])
         /\ usage' = r.usage
  /\ pc' = "answered"
  /\ UNCHANGED <<api, calls, cancelled, retry, stream>>

(* Mutant of StreamFails: the request is made again.                       *)
StreamFailsRetried ==
  /\ pc = "streaming"
  /\ pc' = "sending" /\ attempt' = 2 /\ arrived' = 0
  /\ UNCHANGED <<api, history, calls, cancelled, backoff, waited, asked, answer, heard, usage>>

(* An error event, or an error of the connection: Stream returns it.       *)
StreamFails ==
  /\ pc = "streaming"
  /\ pc' = "ended"
  /\ UNCHANGED <<api, history, calls, cancelled, retry, stream, usage>>

(* The loop adds the results, and perhaps the nudge; after an answer       *)
(* without a call the reminder, or it ends.                                *)
LoopGoesOn ==
  /\ pc = "answered"
  /\ LET uses == ToolUses(Last(history))
         results == [role |-> "user", content |-> [k \in DOMAIN uses |-> ToolResult(uses[k].id)]]
     IN  IF uses # <<>>
         THEN /\ pc' = "ready"
              /\ history' \in {Append(history, results),
                               history \o <<results, NewUserText(<<"nudge">>)>>}
         ELSE \/ pc' = "ready" /\ history' = Append(history, NewUserText(<<"reminder">>))
              \/ pc' = "ended" /\ UNCHANGED history
  /\ UNCHANGED <<api, calls, cancelled, retry, stream, usage>>

Interrupt ==
  /\ ~cancelled
  /\ cancelled' = TRUE
  /\ UNCHANGED <<api, history, calls, pc, retry, stream, usage>>

Terminated == pc = "ended" /\ UNCHANGED vars

Request ==
  \/ StartCall \/ ConnectionFails \/ TransientStatus \/ PermanentStatus
  \/ WaitCancelled \/ WaitEnds \/ Accepted

Next ==
  \/ Request \/ EventArrives \/ StreamEnds \/ StreamFails \/ LoopGoesOn
  \/ Interrupt \/ Terminated

(* Timers fire and the time to the first byte of an answer is limited; no  *)
(* limit is put on a stream that has begun, so nothing is assumed of it.   *)
FairSpec == Init /\ [][Next]_vars /\ WF_vars(Request)

-----------------------------------------------------------------------------
(* Every variable stays in its type: at most four attempts, and no pause   *)
(* of more than half a minute whatever the server asks for.                *)
TypeOK ==
  /\ history \in Seq(Message)
  /\ attempt \in 0 .. maxAttempts /\ backoff \in 0 .. maxBackoff
  /\ waited \in 0 .. maxBackoff
  /\ arrived \in 0 .. Len(Events)

(* Before each attempt the client waits as long as the server asked it to, *)
(* up to the limit, or else twice as long as before; the pause that was    *)
(* asked for is the one made next.                                         *)
WaitsAsAsked ==
  [][pc = "waiting" /\ pc' = "sending" =>
       waited' = IF asked # {} THEN Min({maxBackoff} \cup asked)
                 ELSE IF attempt = 2 THEN 1 ELSE Min({maxBackoff, 2 * waited})]_vars

(* No delta of a call is heard twice: the client never asks again once it  *)
(* has begun to read an answer.                                            *)
HeardOnce ==
  LET deltas == {i \in 1 .. arrived : Events[i].type = "delta"}
  IN  /\ Len(heard) = Cardinality(deltas)
      /\ \A i \in deltas : heard[Cardinality({j \in deltas : j <= i})] = Events[i]

(* What the provider's answer is as a message; the Responses client drops  *)
(* thinking, and texts that are blank and not in a completed item.         *)
Meant ==
  LET Counts(b) ==
        api = "anthropic" \/ (IF b.done = "full" THEN b.type # "thinking" ELSE ~Blank(b.text))
      indices == Select([i \in DOMAIN answer |-> i], LAMBDA i : Counts(answer[i]))
  IN  [k \in DOMAIN indices |-> BlockOf(answer[indices[k]].type, answer[indices[k]].text, indices[k])]

(* A stream that came to its end is the message the provider meant, block  *)
(* by block, with its count of tokens.  Of a stream that did not, the      *)
(* Responses client takes no call that is not whole.                       *)
AnswerFaithful ==
  pc = "answered" =>
    /\ arrived = Len(Events) => Last(history).content = Meant /\ usage = Tokens
    /\ api = "responses" => Range(ToolUses(Last(history))) \subseteq Range(Meant)

(* "returns the fully aggregated assistant message" (client.go:153-154):   *)
(* no message is made of a part of an answer.                              *)
AnswerWhole == pc = "answered" => Last(history).content = Meant

(* Every request the Messages API gets begins and ends with a user         *)
(* message, alternates, and answers each tool_use of a message first thing *)
(* in the next.                                                            *)
MessagesWellFormed(wire) ==
  LET Ids(i, type) == LET some == OfType(wire[i], type) IN [k \in DOMAIN some |-> some[k].id]
  IN  /\ wire # <<>> /\ wire[1].role = "user" /\ Last(wire).role = "user"
      /\ \A i \in 1 .. (Len(wire) - 1) :
           /\ wire[i].role # wire[i + 1].role
           /\ wire[i].role = "assistant" =>
                /\ Ids(i, "tool_use") = Ids(i + 1, "tool_result")
                /\ \A k \in DOMAIN Ids(i, "tool_use") : wire[i + 1].content[k].type = "tool_result"

(* Every request the Responses API gets has one output for each call,      *)
(* behind the call and before anything else is said.                       *)
ResponsesWellFormed(items) ==
  LET IdOf(i) == items[i].blocks[1].id
      Calls == {i \in DOMAIN items : items[i].type = "function_call"}
      Outputs == {i \in DOMAIN items : items[i].type = "function_call_output"}
  IN  /\ \A i \in Calls : \E o \in Outputs :
           /\ i < o /\ IdOf(i) = IdOf(o)
           /\ \A j \in i .. o : items[j].type # "message"
      /\ \A o, p \in Outputs : IdOf(o) = IdOf(p) => o = p
      /\ Cardinality(Calls) = Cardinality(Outputs)

(* Both providers take every request, and nothing that was said, called or *)
(* answered is lost on the wire, whatever is dropped and merged around it. *)
WireFaithful ==
  pc = "ready" =>
    LET said == Select(FlattenSeq([i \in DOMAIN history |-> history[i].content]), Sent)
        wire == ConvertMessages(history)
        items == ToResponsesInput(history)
        ofItems == FlattenSeq([i \in DOMAIN items |-> items[i].blocks])
        Count(s, b) == Cardinality({i \in DOMAIN s : s[i] = b})
    IN  /\ MessagesWellFormed(wire) /\ ResponsesWellFormed(items)
        /\ FlattenSeq([i \in DOMAIN wire |-> wire[i].content]) = said
        /\ \A b \in Range(said) \cup Range(ofItems) : Count(said, b) = Count(ofItems, b)

(* Every request is accepted or given up: attempts run out, whatever mix   *)
(* of failures they meet.                                                  *)
CallEnds == pc = "sending" ~> pc \in {"streaming", "ended"}
=============================================================================
