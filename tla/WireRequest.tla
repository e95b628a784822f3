------------------------------ MODULE WireRequest ------------------------------
(***************************************************************************)
(* Messages and what the model clients send of them: convertMessages of    *)
(* internal/model/anthropic.go and toResponsesInput of                     *)
(* openai_responses.go.  The text of a block, or the input of a tool_use,  *)
(* is a sequence of pieces, in which "ws" stands for white space.          *)
(***************************************************************************)
EXTENDS Naturals, Sequences, FiniteSets, SequencesExt, Filters

Role == {"user", "assistant"}

BlockType == {"text", "thinking", "tool_use", "tool_result"}

Piece == {"a", "b", "r", "prompt", "nudge", "reminder", "ws"}

Block == [type : BlockType, text : Seq(Piece), id : Nat]

Message == [role : Role, content : Seq(Block)]

Text(t) == [type |-> "text", text |-> t, id |-> 0]

ToolUse(id, input) == [type |-> "tool_use", text |-> input, id |-> id]

ToolResult(id) == [type |-> "tool_result", text |-> <<"r">>, id |-> id]

NewUserText(t) == [role |-> "user", content |-> <<Text(t)>>]

ToolUses(m) == Select(m.content, LAMBDA b : b.type = "tool_use")

(* TrimSpace leaves nothing.                                               *)
Blank(t) == \A i \in DOMAIN t : t[i] = "ws"

(* Neither client sends blank texts or thinking.                           *)
Sent(b) == b.type \in {"tool_use", "tool_result"} \/ (b.type = "text" /\ ~Blank(b.text))

OfType(m, type) == Select(m.content, LAMBDA b : Sent(b) /\ b.type = type)

-----------------------------------------------------------------------------
(* Mutant of Merges: messages are never merged.                            *)
MergesNever(out, m) == FALSE

(* Two messages of one role in a row become one.                           *)
Merges(out, m) == out # <<>> /\ Last(out).role = m.role

(* The sent blocks of a message, if any, go behind the messages before it. *)
Converted(out, m) ==
  LET content == Select(m.content, Sent)
  IN  IF content = <<>> THEN out
      ELSE IF Merges(out, m)
           THEN Front(out) \o <<[role |-> m.role, content |-> Last(out).content \o content]>>
      ELSE Append(out, [role |-> m.role, content |-> content])

ConvertMessages(msgs) == FoldLeft(Converted, <<>>, msgs)

(* The items of one message: a message item holds all its texts, a call or *)
(* an output is an item of its own.                                        *)
Item(type, role, blocks) == [type |-> type, role |-> role, blocks |-> blocks]

TextItem(m) ==
  IF OfType(m, "text") = <<>> THEN <<>> ELSE <<Item("message", m.role, OfType(m, "text"))>>

Each(m, type, itemType) ==
  LET some == OfType(m, type)
  IN  [i \in DOMAIN some |-> Item(itemType, m.role, <<some[i]>>)]

Items(m) ==
  IF m.role = "user"
  THEN Each(m, "tool_result", "function_call_output") \o TextItem(m)
  ELSE TextItem(m) \o Each(m, "tool_use", "function_call")

ToResponsesInput(msgs) == FlattenSeq([i \in DOMAIN msgs |-> Items(msgs[i])])
=============================================================================
