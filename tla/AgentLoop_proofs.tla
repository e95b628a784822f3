--------------------------- MODULE AgentLoop_proofs ---------------------------
(***************************************************************************)
(* Proofs about AgentLoop, for all its constants: any number of turns and  *)
(* reminders, and any thresholds of the compression.                       *)
(*                                                                         *)
(* The inductive invariant says of the history that it is well formed up   *)
(* to its last message, and of pc what the last message may be.            *)
(***************************************************************************)
EXTENDS AgentLoop, SequenceTheorems, FiniteSetTheorems, TLAPS

(* s is the prompt and the latest messages of t, without a gap, and not    *)
(* fewer than compression keeps.                                           *)
Recent(s, t) ==
  /\ Len(s) <= Len(t)
  /\ s[1] = t[1]
  /\ \A i \in 2 .. Len(s) : s[i] = t[Len(t) - Len(s) + i]
  /\ Len(s) > keepRecentMessages \/ s = t

(* Calls and results stand together, but for calls at the very end.        *)
Linked(s) ==
  /\ s[1].kind = "prompt"
  /\ \A i \in 1 .. Len(s) :
       /\ s[i].kind = "calls" /\ i < Len(s) => s[i + 1].kind = "results"
       /\ s[i].kind = "results" => i > 1 /\ s[i - 1].kind = "calls"

Whole(s) == \A i \in 1 .. Len(s) : s[i].whole

History(s, t) ==
  /\ s \in Seq(Message) /\ t \in Seq(Message) /\ Len(s) >= 1
  /\ Recent(s, t) /\ Linked(s) /\ Whole(s)

(* What pc says of the history and of the turns.                           *)
PlaceInv ==
  /\ pc \in {"turn", "compress", "stream"} => ~Assistant(state[Len(state)])
  /\ pc = "tools" => state[Len(state)].kind = "calls"
  /\ pc \in {"compress", "stream", "tools"} => turn < MaxTurns

IndInv == TypeOK /\ History(state, transcript) /\ PlaceInv

-----------------------------------------------------------------------------
(* A message that may follow the last one extends the history.             *)
LEMMA HistoryExtends ==
  ASSUME NEW s, NEW t, NEW m \in Message,
         History(s, t), m.whole,
         s[Len(s)].kind = "calls" <=> m.kind = "results"
  PROVE  /\ History(Append(s, m), Append(t, m))
         /\ Len(Append(s, m)) = Len(s) + 1
         /\ Append(s, m)[Len(s) + 1] = m
<1> USE LoopAssumption
<1> DEFINE u == Append(s, m)
           v == Append(t, m)
<1>1. /\ s \in Seq(Message) /\ t \in Seq(Message) /\ Len(s) >= 1 /\ Len(s) <= Len(t)
      /\ Len(s) \in Nat /\ Len(t) \in Nat
  BY DEF History, Recent
<1>2. /\ u \in Seq(Message) /\ Len(u) = Len(s) + 1 /\ u[Len(s) + 1] = m
      /\ \A i \in 1 .. Len(s) : u[i] = s[i]
  BY <1>1
<1>3. /\ v \in Seq(Message) /\ Len(v) = Len(t) + 1 /\ v[Len(t) + 1] = m
      /\ \A i \in 1 .. Len(t) : v[i] = t[i]
  BY <1>1
<1> HIDE DEF u, v
<1>4. Recent(u, v)
  <2>1. Len(u) <= Len(v) /\ u[1] = v[1]
    BY <1>1, <1>2, <1>3 DEF History, Recent
  <2>2. ASSUME NEW i \in 2 .. Len(u)  PROVE u[i] = v[Len(v) - Len(u) + i]
    <3>1. CASE i = Len(u)
      BY <3>1, <1>1, <1>2, <1>3
    <3>2. CASE i # Len(u)
      <4>1. i \in 2 .. Len(s) /\ Len(t) - Len(s) + i \in 1 .. Len(t)
        BY <3>2, <1>1, <1>2
      <4>2. s[i] = t[Len(t) - Len(s) + i]
        BY <4>1 DEF History, Recent
      <4>3. Len(v) - Len(u) + i = Len(t) - Len(s) + i
        BY <1>1, <1>2, <1>3, <4>1
      <4>4. u[i] = s[i]
        BY <4>1, <1>2
      <4>5. v[Len(t) - Len(s) + i] = t[Len(t) - Len(s) + i]
        BY <4>1, <1>3
      <4> QED
        BY <4>2, <4>3, <4>4, <4>5
    <3> QED
      BY <3>1, <3>2
  <2>3. Len(u) > keepRecentMessages \/ u = v
    BY <1>1, <1>2 DEF History, Recent, u, v
  <2> QED
    BY <2>1, <2>2, <2>3 DEF Recent
<1>5. Linked(u)
  <2>1. u[1].kind = "prompt"
    BY <1>1, <1>2 DEF History, Linked
  <2>2. ASSUME NEW i \in 1 .. Len(u), u[i].kind = "calls", i < Len(u)
        PROVE  u[i + 1].kind = "results"
    <3>1. i \in 1 .. Len(s) /\ s[i].kind = "calls"
      BY <2>2, <1>1, <1>2
    <3>2. CASE i = Len(s)
      BY <3>1, <3>2, <1>2
    <3>3. CASE i # Len(s)
      BY <3>1, <3>3, <1>1, <1>2 DEF History, Linked
    <3> QED
      BY <3>2, <3>3
  <2>3. ASSUME NEW i \in 1 .. Len(u), u[i].kind = "results"
        PROVE  i > 1 /\ u[i - 1].kind = "calls"
    <3>1. CASE i = Len(u)
      BY <2>3, <3>1, <1>1, <1>2
    <3>2. CASE i # Len(u)
      <4>1. i \in 1 .. Len(s) /\ s[i].kind = "results"
        BY <2>3, <3>2, <1>1, <1>2
      <4>2. i > 1 /\ s[i - 1].kind = "calls"
        BY <4>1 DEF History, Linked
      <4> QED
        BY <4>1, <4>2, <1>1, <1>2
    <3> QED
      BY <3>1, <3>2
  <2> QED
    BY <2>1, <2>2, <2>3 DEF Linked
<1>6. Whole(u)
  BY <1>1, <1>2 DEF History, Whole
<1> QED
  BY <1>1, <1>2, <1>3, <1>4, <1>5, <1>6 DEF History, u, v

(* What Compress leaves of a history is one.                               *)
LEMMA HistoryCut ==
  ASSUME NEW s, NEW t, NEW c \in 2 .. (Len(s) - keepRecentMessages),
         History(s, t), Assistant(s[c + 1])
  PROVE  LET u == <<s[1]>> \o SubSeq(s, c + 1, Len(s))
         IN  History(u, t) /\ u[Len(u)] = s[Len(s)]
<1> USE LoopAssumption
<1> DEFINE h == <<s[1]>>
           k == SubSeq(s, c + 1, Len(s))
           u == h \o k
<1>1. /\ s \in Seq(Message) /\ t \in Seq(Message) /\ Len(s) >= 1 /\ Len(s) <= Len(t)
      /\ Len(s) \in Nat /\ Len(t) \in Nat /\ c < Len(s) /\ keepRecentMessages \in Nat
  BY DEF History, Recent
<1>2. k \in Seq(Message) /\ Len(k) = Len(s) - c /\ \A i \in 1 .. Len(k) : k[i] = s[c + i]
  BY <1>1
<1>3. h \in Seq(Message) /\ Len(h) = 1 /\ h[1] = s[1]
  <2>1. s[1] \in Message
    BY <1>1
  <2>2. Len(h) = 1 /\ h[1] = s[1]
    OBVIOUS
  <2>3. h \in Seq(Message)
    <3> HIDE DEF k
    <3> DEFINE e == s[1]
    <3>1. e \in Message
      BY <2>1
    <3> HIDE DEF e
    <3>2. <<e>> \in Seq(Message)
      BY <3>1
    <3> QED
      BY <3>2 DEF e
  <2> QED
    BY <2>2, <2>3
<1> HIDE DEF k, h
<1>4. /\ u \in Seq(Message) /\ Len(u) = Len(s) - c + 1 /\ u[1] = s[1]
      /\ \A i \in 2 .. Len(u) : u[i] = k[i - 1]
  <2>1. /\ u \in Seq(Message) /\ Len(u) = Len(h) + Len(k)
        /\ \A i \in 1 .. Len(h) + Len(k) : u[i] = IF i <= Len(h) THEN h[i] ELSE k[i - Len(h)]
    BY <1>2, <1>3, ConcatProperties
  <2> HIDE DEF u
  <2> QED
    BY <2>1, <1>1, <1>2, <1>3
<1> HIDE DEF u
<1>5. ASSUME NEW i \in 2 .. Len(u)
      PROVE  u[i] = s[c + i - 1] /\ c + i - 1 \in 2 .. Len(s)
  <2>1. /\ i - 1 \in 1 .. Len(k) /\ c + (i - 1) = c + i - 1
        /\ c + i - 1 \in 2 .. Len(s)
    BY <1>1, <1>2, <1>4
  <2>2. u[i] = k[i - 1]
    BY <1>4
  <2>3. k[i - 1] = s[c + (i - 1)]
    BY ONLY <2>1, <1>2
  <2> QED
    BY ONLY <2>1, <2>2, <2>3
<1>6. Recent(u, t)
  <2>1. Len(u) <= Len(t) /\ u[1] = t[1] /\ Len(u) > keepRecentMessages
    BY <1>1, <1>4 DEF History, Recent
  <2>2. ASSUME NEW i \in 2 .. Len(u)  PROVE u[i] = t[Len(t) - Len(u) + i]
    <3>1. s[c + i - 1] = t[Len(t) - Len(s) + (c + i - 1)]
      BY <1>5 DEF History, Recent
    <3>2. Len(t) - Len(s) + (c + i - 1) = Len(t) - Len(u) + i
      BY <1>1, <1>4
    <3> QED
      BY <3>1, <3>2, <1>5
  <2> QED
    BY <2>1, <2>2 DEF Recent
<1>7. Linked(u)
  <2>1. u[1].kind = "prompt"
    BY <1>4 DEF History, Linked
  <2>2. ASSUME NEW i \in 1 .. Len(u), u[i].kind = "calls", i < Len(u)
        PROVE  u[i + 1].kind = "results"
    <3>1. i \in 2 .. Len(u) /\ i + 1 \in 2 .. Len(u)
      BY <2>1, <2>2, <1>1, <1>4
    <3>2. u[i] = s[c + i - 1] /\ u[i + 1] = s[c + i] /\ c + i - 1 \in 1 .. Len(s) /\ c + i - 1 < Len(s)
      BY <3>1, <2>2, <1>1, <1>4, <1>5
    <3>3. (c + i - 1) + 1 = c + i
      BY <3>1
    <3> QED
      BY <2>2, <3>2, <3>3 DEF History, Linked
  <2>3. ASSUME NEW i \in 1 .. Len(u), u[i].kind = "results"
        PROVE  i > 1 /\ u[i - 1].kind = "calls"
    <3>1. i \in 2 .. Len(u)
      BY <2>1, <2>3, <1>1, <1>4
    <3>2. u[i] = s[c + i - 1] /\ c + i - 1 \in 1 .. Len(s)
      BY <3>1, <1>5
    <3>3. s[c + i - 2].kind = "calls"
      <4>1. (c + i - 1) - 1 = c + i - 2
        BY <3>1
      <4> QED
        BY <2>3, <3>2, <4>1 DEF History, Linked
    <3>4. i # 2
      <4>1. i = 2 => u[i] = s[c + 1]
        BY <3>2
      <4> QED
        BY <4>1, <2>3 DEF Assistant
    <3>5. i - 1 \in 2 .. Len(u) /\ c + (i - 1) - 1 = c + i - 2
      BY <3>1, <3>4, <1>1, <1>4
    <3>6. u[i - 1] = s[c + (i - 1) - 1]
      BY ONLY <3>5, <1>5
    <3>7. u[i - 1] = s[c + i - 2]
      BY ONLY <3>5, <3>6
    <3>8. i > 1
      BY <3>1
    <3> QED
      BY <3>3, <3>7, <3>8
  <2> QED
    BY <2>1, <2>2, <2>3 DEF Linked
<1>8. Whole(u)
  <2>1. ASSUME NEW i \in 1 .. Len(u)  PROVE u[i].whole
    <3>1. CASE i = 1
      BY <3>1, <1>1, <1>4 DEF History, Whole
    <3>2. CASE i # 1
      BY <3>2, <1>1, <1>4, <1>5 DEF History, Whole
    <3> QED
      BY <3>1, <3>2
  <2> QED
    BY <2>1 DEF Whole
<1>9. u[Len(u)] = s[Len(s)]
  BY <1>1, <1>4, <1>5
<1>10. Len(u) >= 1
  BY <1>1, <1>4
<1> QED
  BY <1>1, <1>4, <1>6, <1>7, <1>8, <1>9, <1>10 DEF History, u, k, h

-----------------------------------------------------------------------------
(* The prompt alone is a history.                                          *)
LEMMA InitIndInv == Init => IndInv
<1> SUFFICES ASSUME Init  PROVE IndInv
  OBVIOUS
<1> USE LoopAssumption
<1> DEFINE m == [kind |-> "prompt", id |-> 1, whole |-> TRUE]
<1>1. m \in Message /\ m.kind = "prompt" /\ m.whole
  BY DEF Message, Kind
<1>2. state = <<m>> /\ transcript = <<m>> /\ pc = "turn"
  BY DEF Init
<1> HIDE DEF m
<1>3. /\ state \in Seq(Message) /\ transcript \in Seq(Message)
      /\ Len(state) = 1 /\ state[1] = m /\ state[Len(state)] = m
  BY <1>1, <1>2
<1>4. TypeOK
  <2>1. /\ pc = "turn" /\ turn = 0 /\ remindersLeft = maxFinalizerReminders
        /\ summary = {} /\ recorded = FALSE /\ interrupted = FALSE
        /\ outcome = "running" /\ modelCalls = 0
    BY DEF Init
  <2>2. 0 \in 0 .. MaxTurns /\ maxFinalizerReminders \in 0 .. maxFinalizerReminders
    OBVIOUS
  <2> QED
    BY <1>3, <2>1, <2>2 DEF TypeOK
<1>5. History(state, transcript)
  BY <1>1, <1>2, <1>3 DEF History, Recent, Linked, Whole
<1>6. PlaceInv
  BY <1>1, <1>2, <1>3 DEF PlaceInv, Assistant
<1> QED
  BY <1>4, <1>5, <1>6 DEF IndInv

(* A message of a fitting kind keeps the history, and becomes its last.    *)
LEMMA AppendKeeps ==
  ASSUME TypeOK, History(state, transcript),
         NEW kind \in Kind, AppendMessage(kind),
         state[Len(state)].kind = "calls" <=> kind = "results"
  PROVE  History(state', transcript') /\ state'[Len(state')].kind = kind
<1> DEFINE m == NewMessage(kind)
<1>1. Len(transcript) \in Nat
  BY DEF TypeOK
<1>2. m \in Message /\ m.kind = kind /\ m.whole
  BY <1>1 DEF NewMessage, Message
<1>3. state' = Append(state, m) /\ transcript' = Append(transcript, m)
  BY DEF AppendMessage
<1> HIDE DEF m
<1>4. state[Len(state)].kind = "calls" <=> m.kind = "results"
  BY <1>2
<1>5. /\ History(Append(state, m), Append(transcript, m))
      /\ Len(Append(state, m)) = Len(state) + 1
      /\ Append(state, m)[Len(state) + 1] = m
  BY <1>2, <1>4, HistoryExtends
<1> QED
  BY <1>2, <1>3, <1>5

(* The top of the loop, with the nudge if it is due.                       *)
LEMMA StartTurnKeeps == ASSUME IndInv, StartTurn  PROVE IndInv'
<1> USE LoopAssumption
<1>1. TypeOK /\ History(state, transcript) /\ ~Assistant(state[Len(state)])
  BY DEF IndInv, PlaceInv, StartTurn
<1>2. History(state', transcript') /\ ~Assistant(state'[Len(state')])
  <2>1. CASE AppendMessage("nudge")
    <3>1. /\ "nudge" \in Kind
          /\ state[Len(state)].kind = "calls" <=> "nudge" = "results"
      BY <1>1 DEF Kind, Assistant
    <3>2. History(state', transcript') /\ state'[Len(state')].kind = "nudge"
      BY ONLY <2>1, <3>1, <1>1, AppendKeeps
    <3> QED
      BY <3>2 DEF Assistant
  <2>2. CASE UNCHANGED <<state, transcript>>
    BY <1>1, <2>2
  <2> QED
    BY <2>1, <2>2 DEF StartTurn, Nudge
<1>3. TypeOK'
  BY <1>1, <1>2 DEF TypeOK, History, StartTurn, budgets
<1>4. PlaceInv'
  BY <1>1, <1>2 DEF TypeOK, PlaceInv, StartTurn, budgets
<1> QED
  BY <1>2, <1>3, <1>4 DEF IndInv

(* The summary replaces what it summarizes.                                *)
LEMMA CompressKeeps == ASSUME IndInv, Compress  PROVE IndInv'
<1> USE LoopAssumption
<1>1. TypeOK /\ History(state, transcript) /\ ~Assistant(state[Len(state)]) /\ turn < MaxTurns
  BY DEF IndInv, PlaceInv, Compress
<1>2. PICK c \in DOMAIN state :
        /\ Cutoff(c)
        /\ state' = <<state[1]>> \o SubSeq(state, c + 1, Len(state))
        /\ summary' = {state[i].id : i \in 2 .. c}
  BY DEF Compress
<1>3. c \in 2 .. (Len(state) - keepRecentMessages) /\ Assistant(state[c + 1])
  BY <1>2 DEF Cutoff
<1>4. History(state', transcript) /\ state'[Len(state')] = state[Len(state)]
  BY <1>1, <1>2, <1>3, HistoryCut
<1>5. transcript' = transcript
  BY DEF Compress
<1>6. summary' \subseteq Nat
  <2>1. ASSUME NEW i \in 2 .. c  PROVE state[i].id \in Nat
    <3>1. state \in Seq(Message) /\ i \in 1 .. Len(state)
      BY <1>1, <1>3 DEF TypeOK
    <3>2. state[i] \in Message
      BY <3>1
    <3> QED
      BY <3>2 DEF Message
  <2> QED
    BY <1>2, <2>1
<1>7. TypeOK'
  BY <1>1, <1>4, <1>5, <1>6 DEF TypeOK, History, Compress, budgets
<1>8. PlaceInv'
  BY <1>1, <1>4, <1>5 DEF PlaceInv, Compress, budgets
<1> QED
  BY <1>4, <1>5, <1>7, <1>8 DEF IndInv

(* The assistant's calls, and what answers them.                           *)
LEMMA StreamCallsKeeps == ASSUME IndInv, StreamCalls  PROVE IndInv'
<1> USE LoopAssumption
<1>1. TypeOK /\ History(state, transcript) /\ ~Assistant(state[Len(state)]) /\ turn < MaxTurns
  BY DEF IndInv, PlaceInv, StreamCalls
<1>2. /\ "calls" \in Kind /\ AppendMessage("calls")
      /\ state[Len(state)].kind = "calls" <=> "calls" = "results"
  BY <1>1 DEF Kind, Assistant, StreamCalls
<1>3. History(state', transcript') /\ state'[Len(state')].kind = "calls"
  BY ONLY <1>1, <1>2, AppendKeeps
<1>4. TypeOK'
  BY <1>1, <1>3 DEF TypeOK, History, StreamCalls, budgets
<1>5. PlaceInv'
  BY <1>1, <1>3 DEF PlaceInv, StreamCalls, budgets
<1> QED
  BY <1>3, <1>4, <1>5 DEF IndInv

(* The results answer the calls that stand last.                           *)
LEMMA ToolsReturnKeeps == ASSUME IndInv, ToolsReturn  PROVE IndInv'
<1> USE LoopAssumption
<1>1. /\ TypeOK /\ History(state, transcript) /\ turn < MaxTurns
      /\ state[Len(state)].kind = "calls"
  BY DEF IndInv, PlaceInv, ToolsReturn
<1>2. /\ "results" \in Kind /\ AppendMessage("results")
      /\ state[Len(state)].kind = "calls" <=> "results" = "results"
  BY <1>1 DEF Kind, ToolsReturn
<1>3. History(state', transcript') /\ state'[Len(state')].kind = "results"
  BY ONLY <1>1, <1>2, AppendKeeps
<1>4. TypeOK'
  <2>1. recorded' \in BOOLEAN
    BY <1>1, Zenon DEF TypeOK, ToolsReturn
  <2>2. turn' \in 0 .. MaxTurns
    BY <1>1 DEF TypeOK, ToolsReturn
  <2>3. /\ pc' = "turn"
        /\ UNCHANGED <<remindersLeft, summary, interrupted, outcome, modelCalls>>
    BY DEF ToolsReturn
  <2> QED
    BY <1>1, <1>3, <2>1, <2>2, <2>3 DEF TypeOK, History
<1>5. PlaceInv'
  BY <1>1, <1>3 DEF PlaceInv, ToolsReturn, Assistant
<1> QED
  BY <1>3, <1>4, <1>5 DEF IndInv

(* The assistant's last words, with the reminder when there is one.        *)
LEMMA StreamStopsKeeps == ASSUME IndInv, StreamStops  PROVE IndInv'
<1> USE LoopAssumption
<1> DEFINE text == NewMessage("text")
           reminder == [NewMessage("reminder") EXCEPT !.id = text.id + 1]
<1>1. /\ TypeOK /\ History(state, transcript) /\ turn < MaxTurns
      /\ ~Assistant(state[Len(state)]) /\ pc = "stream"
  BY DEF IndInv, PlaceInv, StreamStops, Stops
<1>2. CASE remindersLeft > 0 /\ ~recorded
  <2>1. /\ state' = state \o <<text, reminder>>
        /\ transcript' = transcript \o <<text, reminder>>
        /\ remindersLeft' = remindersLeft - 1 /\ turn' = turn + 1 /\ pc' = "turn"
        /\ UNCHANGED <<outcome, summary, recorded, interrupted, modelCalls>>
    BY <1>2 DEF StreamStops, Stops
  <2>2. Len(transcript) \in Nat
    BY <1>1 DEF TypeOK
  <2>3. text \in Message /\ text.kind = "text" /\ text.whole
    BY <2>2 DEF NewMessage, Message, Kind
  <2>4. reminder \in Message /\ reminder.kind = "reminder" /\ reminder.whole
    <3> DEFINE rem == NewMessage("reminder")
    <3>1. rem \in Message /\ rem.kind = "reminder" /\ rem.whole
      BY <2>2 DEF NewMessage, Message, Kind
    <3>2. text.id + 1 \in Nat
      BY <2>3 DEF Message
    <3> HIDE DEF rem, text
    <3>3. /\ [rem EXCEPT !.id = text.id + 1] \in Message
          /\ [rem EXCEPT !.id = text.id + 1].kind = "reminder"
          /\ [rem EXCEPT !.id = text.id + 1].whole
      BY <3>1, <3>2 DEF Message
    <3> QED
      BY <3>3 DEF rem
  <2> HIDE DEF text, reminder
  <2>5. state \in Seq(Message) /\ transcript \in Seq(Message)
    BY <1>1 DEF TypeOK
  <2>6. state[Len(state)].kind = "calls" <=> text.kind = "results"
    BY <1>1, <2>3 DEF Assistant
  <2> DEFINE s1 == Append(state, text)
             t1 == Append(transcript, text)
  <2>7. /\ History(s1, t1) /\ Len(s1) = Len(state) + 1 /\ s1[Len(state) + 1] = text
    BY ONLY <1>1, <2>3, <2>6, HistoryExtends
  <2>8. state' = Append(s1, reminder) /\ transcript' = Append(t1, reminder)
    BY <2>1, <2>3, <2>4, <2>5
  <2> HIDE DEF s1, t1
  <2>9. s1[Len(s1)].kind = "calls" <=> reminder.kind = "results"
    BY <2>3, <2>4, <2>7
  <2>10. /\ History(Append(s1, reminder), Append(t1, reminder))
         /\ Len(Append(s1, reminder)) = Len(s1) + 1
         /\ Append(s1, reminder)[Len(s1) + 1] = reminder
    BY ONLY <2>4, <2>7, <2>9, HistoryExtends
  <2>11. History(state', transcript') /\ state'[Len(state')].kind = "reminder"
    BY <2>4, <2>8, <2>10
  <2>12. TypeOK'
    BY <1>1, <1>2, <2>1, <2>11 DEF TypeOK, History
  <2>13. PlaceInv'
    BY <2>1, <2>11 DEF PlaceInv, Assistant
  <2> QED
    BY <2>11, <2>12, <2>13 DEF IndInv
<1>3. CASE ~(remindersLeft > 0 /\ ~recorded)
  <2>1. /\ AppendMessage("text") /\ Finish(IF recorded THEN "ok" ELSE "missing")
        /\ UNCHANGED <<budgets, summary, recorded, interrupted, modelCalls>>
    BY <1>3 DEF StreamStops, Stops
  <2>2. "text" \in Kind /\ (state[Len(state)].kind = "calls" <=> "text" = "results")
    BY <1>1 DEF Kind, Assistant
  <2>3. History(state', transcript')
    BY ONLY <1>1, <2>1, <2>2, AppendKeeps
  <2>4. TypeOK'
    BY <1>1, <2>1, <2>3 DEF TypeOK, History, Finish, budgets
  <2>5. PlaceInv'
    BY <2>1 DEF PlaceInv, Finish
  <2> QED
    BY <2>3, <2>4, <2>5 DEF IndInv
<1> QED
  BY <1>2, <1>3

(* The steps that leave the history alone.                                 *)
LEMMA HistoryUnchanged ==
  ASSUME IndInv, UNCHANGED <<state, transcript, turn>>, TypeOK',
         \/ pc' \in {pc, "done"}
         \/ pc = "compress" /\ pc' = "stream"
  PROVE  IndInv'
<1>1. History(state', transcript') /\ PlaceInv'
  BY DEF IndInv, PlaceInv
<1> QED
  BY <1>1 DEF IndInv

(* IndInv is inductive.                                                    *)
LEMMA NextIndInv == IndInv /\ [Next]_vars => IndInv'
<1> SUFFICES ASSUME IndInv, [Next]_vars  PROVE IndInv'
  OBVIOUS
<1> USE LoopAssumption
<1>1. TypeOK
  BY DEF IndInv
<1>2. CASE Cancelled
  <2>1. TypeOK' /\ UNCHANGED <<state, transcript, turn>> /\ pc' = "done"
    BY <1>1, <1>2 DEF TypeOK, Cancelled, Finish, budgets
  <2> QED
    BY <2>1, HistoryUnchanged
<1>3. CASE StartTurn
  BY <1>3, StartTurnKeeps
<1>4. CASE Compress
  BY <1>4, CompressKeeps
<1>5. CASE SkipCompress
  <2>1. /\ TypeOK' /\ UNCHANGED <<state, transcript, turn>>
        /\ pc = "compress" /\ pc' = "stream"
    BY <1>1, <1>5 DEF TypeOK, SkipCompress, budgets
  <2> QED
    BY <2>1, HistoryUnchanged
<1>6. CASE StreamFails
  <2>1. TypeOK' /\ UNCHANGED <<state, transcript, turn>> /\ pc' = "done"
    BY <1>1, <1>6 DEF TypeOK, StreamFails, Finish, budgets
  <2> QED
    BY <2>1, HistoryUnchanged
<1>7. CASE StreamCalls
  BY <1>7, StreamCallsKeeps
<1>8. CASE StreamStops
  BY <1>8, StreamStopsKeeps
<1>9. CASE ToolsReturn
  BY <1>9, ToolsReturnKeeps
<1>10. CASE OutOfTurns
  <2>1. TypeOK' /\ UNCHANGED <<state, transcript, turn>> /\ pc' = "done"
    BY <1>1, <1>10 DEF TypeOK, OutOfTurns, Finish, budgets
  <2> QED
    BY <2>1, HistoryUnchanged
<1>11. CASE Interrupt
  <2>1. TypeOK' /\ UNCHANGED <<state, transcript, turn>> /\ pc' = pc
    BY <1>1, <1>11 DEF TypeOK, Interrupt, budgets
  <2> QED
    BY <2>1, HistoryUnchanged
<1>12. CASE UNCHANGED vars
  <2>1. TypeOK' /\ UNCHANGED <<state, transcript, turn>> /\ pc' = pc
    BY <1>1, <1>12 DEF TypeOK, vars
  <2> QED
    BY <2>1, HistoryUnchanged
<1> QED
  BY <1>2, <1>3, <1>4, <1>5, <1>6, <1>7, <1>8, <1>9, <1>10, <1>11, <1>12
     DEF Next, Run, Terminated

(* The history is well formed in every state of the loop.                  *)
LEMMA Invariance == Spec => []IndInv
BY InitIndInv, NextIndInv, PTL DEF Spec

-----------------------------------------------------------------------------
(* Every variable of the loop stays in its type.                           *)
THEOREM LoopTypeCorrect == Spec => []TypeOK
<1>1. IndInv => TypeOK
  BY DEF IndInv
<1> QED
  BY <1>1, Invariance, PTL

(* However often maybeCompress shortened it, the history is the prompt and *)
(* the latest messages of the transcript, without a gap and not fewer than *)
(* keepRecentMessages.                                                     *)
THEOREM LoopHistoryIsRecent == Spec => []HistoryIsRecent
<1>1. IndInv => HistoryIsRecent
  BY DEF IndInv, History, Recent, HistoryIsRecent
<1> QED
  BY <1>1, Invariance, PTL

(* Every request Run sends is one the provider accepts: the prompt first,  *)
(* a user message last, and every tool_use with its results.               *)
THEOREM LoopRequestAccepted == Spec => []RequestAccepted
<1>1. IndInv => RequestAccepted
  <2> SUFFICES ASSUME IndInv, pc = "stream"
               PROVE  /\ Request[1].kind = "prompt" /\ ~Assistant(Request[Len(Request)])
                      /\ \A i \in DOMAIN Request :
                           /\ Request[i].kind = "calls" =>
                                i < Len(Request) /\ Request[i + 1].kind = "results"
                           /\ Request[i].kind = "results" =>
                                i > 1 /\ Request[i - 1].kind = "calls"
    BY DEF RequestAccepted
  <2>1. /\ state \in Seq(Message) /\ Len(state) \in Nat /\ Len(state) >= 1
        /\ DOMAIN state = 1 .. Len(state)
        /\ Linked(state) /\ ~Assistant(state[Len(state)])
    BY DEF IndInv, TypeOK, History, PlaceInv
  <2>2. ASSUME NEW i \in DOMAIN state  PROVE Request[i].kind = state[i].kind
    <3>1. state[i] \in Message
      BY <2>1
    <3> QED
      BY <3>1 DEF Request, Message
  <2>3. Request \in Seq(Message) /\ DOMAIN Request = 1 .. Len(state) /\ Len(Request) = Len(state)
    <3>1. ASSUME NEW i \in DOMAIN state  PROVE Request[i] \in Message
      <4>1. state[i] \in Message
        BY <2>1
      <4> QED
        BY <4>1 DEF Request, Message
    <3> QED
      BY <2>1, <3>1 DEF Request
  <2>4. Request[1].kind = "prompt" /\ ~Assistant(Request[Len(Request)])
    BY <2>1, <2>2, <2>3 DEF Linked, Assistant
  <2>5. ASSUME NEW i \in DOMAIN Request, Request[i].kind = "calls"
        PROVE  i < Len(Request) /\ Request[i + 1].kind = "results"
    <3>1. i \in 1 .. Len(state) /\ state[i].kind = "calls"
      BY <2>1, <2>2, <2>3, <2>5
    <3>2. i # Len(state)
      BY <3>1, <2>1 DEF Assistant
    <3>3. state[i + 1].kind = "results" /\ i + 1 \in 1 .. Len(state)
      BY <3>1, <3>2, <2>1 DEF Linked
    <3> QED
      BY <3>1, <3>2, <3>3, <2>1, <2>2, <2>3
  <2>6. ASSUME NEW i \in DOMAIN Request, Request[i].kind = "results"
        PROVE  i > 1 /\ Request[i - 1].kind = "calls"
    <3>1. i \in 1 .. Len(state) /\ state[i].kind = "results"
      BY <2>1, <2>2, <2>3, <2>6
    <3>2. i > 1 /\ state[i - 1].kind = "calls"
      BY <3>1, <2>1 DEF Linked
    <3>3. i - 1 \in DOMAIN state
      BY <3>1, <3>2, <2>1
    <3> QED
      BY <3>2, <3>3, <2>2
  <2> QED
    BY <2>4, <2>5, <2>6
<1> QED
  BY <1>1, Invariance, PTL

(* What compactState shortens is older than the last two messages, and no  *)
(* other step shortens anything: the newest results arrive in full.        *)
THEOREM LoopFreshResultsWhole == Spec => []FreshResultsWhole
<1>1. IndInv => FreshResultsWhole
  <2> SUFFICES ASSUME IndInv, NEW i \in DOMAIN Request, i >= Len(Request) - 1
               PROVE  Request[i].whole
    BY DEF FreshResultsWhole
  <2>1. /\ state \in Seq(Message) /\ Len(state) \in Nat
        /\ DOMAIN state = 1 .. Len(state) /\ Whole(state)
    BY DEF IndInv, TypeOK, History
  <2>2. DOMAIN Request = 1 .. Len(state) /\ Len(Request) = Len(state)
    BY <2>1 DEF Request
  <2>3. ~(i <= Len(state) - keepRecent)
    BY <2>1, <2>2, LoopAssumption
  <2>4. Request[i] = state[i]
    BY <2>1, <2>2, <2>3 DEF Request
  <2> QED
    BY <2>1, <2>2, <2>4 DEF Whole
<1> QED
  BY <1>1, Invariance, PTL

-----------------------------------------------------------------------------
(* How often a kind of message stands in t: Count, of any sequence.        *)
Tally(t, kind) == Cardinality({i \in DOMAIN t : t[i].kind = kind})

(* The deadline nudge is not said before its turn, is said then unless the *)
(* report is there, and is said once.                                      *)
NudgeInv ==
  /\ Count("nudge") <= 1
  /\ \/ turn + deadlineNudgeTurns < MaxTurns
     \/ turn + deadlineNudgeTurns = MaxTurns /\ pc = "turn"
     => Count("nudge") = 0
  /\ /\ ~recorded /\ MaxTurns >= deadlineNudgeTurns
     /\ \/ turn + deadlineNudgeTurns > MaxTurns
        \/ turn + deadlineNudgeTurns = MaxTurns /\ pc \in {"compress", "stream", "tools"}
     => Count("nudge") = 1

(* What has been spent: two requests for each turn that is over, and a     *)
(* reminder for each that is no longer left.                               *)
SpendingInv ==
  /\ modelCalls <= 2 * turn + (CASE pc = "turn" -> 0 [] pc = "compress" -> 1 [] OTHER -> 2)
  /\ Count("reminder") + remindersLeft = maxFinalizerReminders

(* What Run returned, and on what grounds.                                 *)
OutcomeInv ==
  /\ outcome # "running" => pc = "done"
  /\ outcome = "ok" => recorded
  /\ outcome = "missing" =>
       /\ ~recorded
       /\ remindersLeft = 0 \/ turn = MaxTurns

FairInv == NudgeInv /\ SpendingInv /\ OutcomeInv

(* Counting is what it should be: empty at first, and one more for each    *)
(* message of the kind.                                                    *)
LEMMA TallyAppend ==
  ASSUME NEW t \in Seq(Message), NEW m \in Message, NEW kind
  PROVE  /\ Tally(t, kind) \in Nat
         /\ Tally(Append(t, m), kind) = Tally(t, kind) + (IF m.kind = kind THEN 1 ELSE 0)
<1> DEFINE S == {i \in DOMAIN t : t[i].kind = kind}
           n == Len(t) + 1
           u == Append(t, m)
           U == {i \in DOMAIN u : u[i].kind = kind}
<1>1. Len(t) \in Nat /\ DOMAIN t = 1 .. Len(t)
  OBVIOUS
<1>2. /\ DOMAIN u = 1 .. n /\ u[n] = m
      /\ \A i \in 1 .. Len(t) : u[i] = t[i]
  OBVIOUS
<1>3. IsFiniteSet(S) /\ Cardinality(S) \in Nat
  <2>1. IsFiniteSet(1 .. Len(t))
    BY <1>1, FS_Interval
  <2>2. S \in SUBSET (1 .. Len(t))
    BY <1>1
  <2> HIDE DEF S
  <2>3. IsFiniteSet(S)
    BY <2>1, <2>2, FS_Subset
  <2> QED
    BY <2>3, FS_CardinalityType
<1> HIDE DEF u
<1>4. n \notin S
  BY <1>1
<1>5. U = IF m.kind = kind THEN S \cup {n} ELSE S
  BY <1>1, <1>2
<1> HIDE DEF S, U, n
<1>6. Cardinality(S \cup {n}) = Cardinality(S) + 1
  BY <1>3, <1>4, FS_AddElement
<1>7. Cardinality(U) = Cardinality(S) + (IF m.kind = kind THEN 1 ELSE 0)
  BY <1>3, <1>5, <1>6
<1> QED
  BY <1>3, <1>7 DEF Tally, S, U, u

(* What a message adds to the counts of the transcript.                    *)
LEMMA CountAppend ==
  ASSUME TypeOK, NEW kind \in Kind, AppendMessage(kind)
  PROVE  \A k \in {"nudge", "reminder"} :
           /\ Count(k) \in Nat
           /\ Count(k)' = Count(k) + (IF kind = k THEN 1 ELSE 0)
<1> DEFINE m == NewMessage(kind)
<1>1. transcript \in Seq(Message) /\ Len(transcript) \in Nat
  BY DEF TypeOK
<1>2. m \in Message /\ m.kind = kind
  BY <1>1 DEF NewMessage, Message
<1>3. transcript' = Append(transcript, m)
  BY DEF AppendMessage
<1> HIDE DEF m
<1>4. ASSUME NEW k  PROVE Count(k) = Tally(transcript, k) /\ Count(k)' = Tally(transcript', k)
  BY DEF Count, Tally
<1> QED
  BY <1>1, <1>2, <1>3, <1>4, TallyAppend

(* A transcript that stays has the same counts.                            *)
LEMMA CountStays ==
  ASSUME TypeOK, transcript' = transcript
  PROVE  \A k \in {"nudge", "reminder"} : Count(k) \in Nat /\ Count(k)' = Count(k)
<1>1. NewMessage("text") \in Message
  BY DEF TypeOK, NewMessage, Message, Kind
<1>2. \A k : Tally(transcript, k) \in Nat
  BY <1>1, TallyAppend DEF TypeOK
<1> QED
  BY <1>2 DEF Count, Tally

(* Nothing is spent at first.                                              *)
LEMMA InitFair == Init => FairInv
<1> SUFFICES ASSUME Init  PROVE FairInv
  OBVIOUS
<1> USE LoopAssumption
<1>1. Count("nudge") = 0 /\ Count("reminder") = 0
  <2>1. /\ DOMAIN transcript = {1} /\ transcript[1].kind = "prompt"
    BY DEF Init
  <2>2. \A k \in {"nudge", "reminder"} : {i \in DOMAIN transcript : transcript[i].kind = k} = {}
    BY <2>1
  <2> QED
    BY <2>2, FS_EmptySet DEF Count
<1> QED
  BY <1>1 DEF Init, FairInv, NudgeInv, SpendingInv, OutcomeInv

(* The turn begins: the nudge, and a first request.                        *)
LEMMA StartTurnFair == ASSUME IndInv, FairInv, StartTurn  PROVE FairInv'
<1> USE LoopAssumption
<1>1. /\ turn \in Nat /\ turn < MaxTurns /\ modelCalls \in Nat /\ remindersLeft \in Nat
      /\ recorded \in BOOLEAN
  BY DEF IndInv, TypeOK, StartTurn
<1>2. /\ Count("nudge") \in Nat /\ Count("reminder") \in Nat
      /\ Count("reminder")' = Count("reminder")
      /\ Count("nudge")' = Count("nudge")
           + (IF MaxTurns - turn = deadlineNudgeTurns /\ ~recorded THEN 1 ELSE 0)
  <2>1. CASE MaxTurns - turn = deadlineNudgeTurns /\ ~recorded
    <3>1. AppendMessage("nudge") /\ "nudge" \in Kind
      BY <2>1 DEF StartTurn, Nudge, Kind
    <3> QED
      BY <2>1, <3>1, CountAppend DEF IndInv
  <2>2. CASE ~(MaxTurns - turn = deadlineNudgeTurns /\ ~recorded)
    <3>1. transcript' = transcript
      BY <2>2 DEF StartTurn, Nudge
    <3> QED
      BY <2>2, <3>1, CountStays DEF IndInv
  <2> QED
    BY <2>1, <2>2
<1>3. NudgeInv'
  BY <1>1, <1>2 DEF FairInv, NudgeInv, StartTurn, budgets
<1>4. SpendingInv'
  BY <1>1, <1>2 DEF FairInv, SpendingInv, StartTurn, budgets
<1>5. OutcomeInv'
  BY DEF FairInv, OutcomeInv, StartTurn, budgets
<1> QED
  BY <1>3, <1>4, <1>5 DEF FairInv

(* The second request of a turn follows a summary, or the try at one.      *)
LEMMA CompressFair ==
  ASSUME IndInv, FairInv, Compress \/ SkipCompress  PROVE FairInv'
<1> USE LoopAssumption
<1>1. /\ pc = "compress" /\ pc' = "stream" /\ modelCalls' = modelCalls + 1
      /\ UNCHANGED <<turn, remindersLeft, transcript, recorded, interrupted, outcome>>
  BY DEF Compress, SkipCompress, budgets
<1>2. turn \in Nat /\ modelCalls \in Nat
  BY DEF IndInv, TypeOK
<1>3. \A k \in {"nudge", "reminder"} : Count(k) \in Nat /\ Count(k)' = Count(k)
  BY <1>1, CountStays DEF IndInv
<1>4. NudgeInv'
  BY <1>1, <1>3 DEF FairInv, NudgeInv
<1>5. SpendingInv'
  BY <1>1, <1>2, <1>3 DEF FairInv, SpendingInv
<1>6. OutcomeInv'
  BY <1>1 DEF FairInv, OutcomeInv
<1> QED
  BY <1>4, <1>5, <1>6 DEF FairInv

(* The model calls tools, and they return.                                 *)
LEMMA ToolsFair ==
  ASSUME IndInv, FairInv, StreamCalls \/ ToolsReturn  PROVE FairInv'
<1> USE LoopAssumption
<1>1. /\ turn \in Nat /\ modelCalls \in Nat /\ remindersLeft \in Nat /\ recorded \in BOOLEAN
  BY DEF IndInv, TypeOK
<1>2. \A k \in {"nudge", "reminder"} : Count(k) \in Nat /\ Count(k)' = Count(k)
  <2>1. PICK kind \in {"calls", "results"} : AppendMessage(kind)
    BY DEF StreamCalls, ToolsReturn
  <2>2. kind \in Kind
    BY DEF Kind
  <2> QED
    BY <2>1, <2>2, CountAppend DEF IndInv
<1>3. CASE StreamCalls
  <2>1. NudgeInv' /\ SpendingInv'
    BY <1>1, <1>2, <1>3 DEF FairInv, NudgeInv, SpendingInv, StreamCalls, budgets
  <2>2. OutcomeInv'
    BY <1>3 DEF FairInv, OutcomeInv, StreamCalls, budgets
  <2> QED
    BY <2>1, <2>2 DEF FairInv
<1>4. CASE ToolsReturn
  <2>1. /\ pc = "tools" /\ pc' = "turn" /\ turn' = turn + 1
        /\ ~recorded' => ~recorded
        /\ UNCHANGED <<remindersLeft, outcome, modelCalls>>
    <3>1. ~recorded' => ~recorded
      BY <1>4, Zenon DEF ToolsReturn
    <3> QED
      BY <1>4, <3>1 DEF ToolsReturn
  <2>2. NudgeInv'
    BY <1>1, <1>2, <2>1 DEF FairInv, NudgeInv
  <2>3. SpendingInv'
    BY <1>1, <1>2, <2>1 DEF FairInv, SpendingInv
  <2>4. OutcomeInv'
    BY <2>1 DEF FairInv, OutcomeInv
  <2> QED
    BY <2>2, <2>3, <2>4 DEF FairInv
<1> QED
  BY <1>3, <1>4

(* The model stops: a reminder is spent, or none is left to spend.         *)
LEMMA StreamStopsFair == ASSUME IndInv, FairInv, StreamStops  PROVE FairInv'
<1> USE LoopAssumption
<1>1. /\ turn \in Nat /\ modelCalls \in Nat /\ remindersLeft \in Nat /\ recorded \in BOOLEAN
      /\ transcript \in Seq(Message) /\ pc = "stream"
  BY DEF IndInv, TypeOK, StreamStops, Stops
<1> DEFINE text == NewMessage("text")
           reminder == [NewMessage("reminder") EXCEPT !.id = text.id + 1]
<1>2. CASE remindersLeft > 0 /\ ~recorded
  <2>1. /\ transcript' = transcript \o <<text, reminder>>
        /\ remindersLeft' = remindersLeft - 1 /\ turn' = turn + 1 /\ pc' = "turn"
        /\ UNCHANGED <<outcome, summary, recorded, interrupted, modelCalls>>
    BY <1>2 DEF StreamStops, Stops
  <2>2. /\ text \in Message /\ text.kind = "text"
        /\ reminder \in Message /\ reminder.kind = "reminder"
    <3> DEFINE rem == NewMessage("reminder")
    <3>1. rem \in Message /\ rem.kind = "reminder" /\ text \in Message /\ text.kind = "text"
      BY <1>1 DEF NewMessage, Message, Kind
    <3>2. text.id + 1 \in Nat
      BY <3>1 DEF Message
    <3> HIDE DEF rem, text
    <3>3. /\ [rem EXCEPT !.id = text.id + 1] \in Message
          /\ [rem EXCEPT !.id = text.id + 1].kind = "reminder"
      BY <3>1, <3>2 DEF Message
    <3> QED
      BY <3>1, <3>3 DEF rem
  <2> HIDE DEF text, reminder
  <2> DEFINE t1 == Append(transcript, text)
  <2>3. t1 \in Seq(Message) /\ transcript' = Append(t1, reminder)
    BY <1>1, <2>1, <2>2
  <2> HIDE DEF t1
  <2>4. ASSUME NEW k \in {"nudge", "reminder"}
        PROVE  /\ Count(k) \in Nat
               /\ Count(k)' = Count(k) + (IF k = "reminder" THEN 1 ELSE 0)
    <3>1. /\ Tally(transcript, k) \in Nat
          /\ Tally(t1, k) = Tally(transcript, k) + (IF text.kind = k THEN 1 ELSE 0)
      BY <1>1, <2>2, TallyAppend DEF t1
    <3>2. Tally(transcript', k) = Tally(t1, k) + (IF reminder.kind = k THEN 1 ELSE 0)
      BY <2>2, <2>3, TallyAppend
    <3>3. Count(k) = Tally(transcript, k) /\ Count(k)' = Tally(transcript', k)
      BY DEF Count, Tally
    <3> QED
      BY <2>2, <3>1, <3>2, <3>3
  <2>5. NudgeInv'
    BY <1>1, <1>2, <2>1, <2>4 DEF FairInv, NudgeInv
  <2>6. SpendingInv'
    <3>1. Count("reminder") \in Nat /\ Count("reminder")' = Count("reminder") + 1
      BY <2>4
    <3>2. modelCalls' <= 2 * turn'
      BY <1>1, <2>1 DEF FairInv, SpendingInv
    <3>3. Count("reminder")' + remindersLeft' = maxFinalizerReminders
      BY <1>1, <2>1, <3>1 DEF FairInv, SpendingInv
    <3> QED
      BY <2>1, <3>2, <3>3, <1>1 DEF SpendingInv
  <2>7. OutcomeInv'
    BY <1>1, <2>1 DEF FairInv, OutcomeInv
  <2> QED
    BY <2>5, <2>6, <2>7 DEF FairInv
<1>3. CASE ~(remindersLeft > 0 /\ ~recorded)
  <2>1. /\ AppendMessage("text") /\ pc' = "done"
        /\ outcome' = IF recorded THEN "ok" ELSE "missing"
        /\ UNCHANGED <<turn, remindersLeft, summary, recorded, interrupted, modelCalls>>
    BY <1>3 DEF StreamStops, Stops, Finish, budgets
  <2>2. \A k \in {"nudge", "reminder"} : Count(k) \in Nat /\ Count(k)' = Count(k)
    <3>1. "text" \in Kind
      BY DEF Kind
    <3> QED
      BY <2>1, <3>1, CountAppend DEF IndInv
  <2>3. NudgeInv' /\ SpendingInv'
    BY <1>1, <2>1, <2>2 DEF FairInv, NudgeInv, SpendingInv
  <2>4. OutcomeInv'
    BY <1>1, <1>3, <2>1 DEF FairInv, OutcomeInv
  <2> QED
    BY <2>3, <2>4 DEF FairInv
<1> QED
  BY <1>2, <1>3

(* Every other way out, and steps that spend nothing.                      *)
LEMMA OtherFair ==
  ASSUME IndInv, FairInv,
         Cancelled \/ StreamFails \/ OutOfTurns \/ Interrupt \/ UNCHANGED vars
  PROVE  FairInv'
<1> USE LoopAssumption
<1>1. /\ turn \in Nat /\ modelCalls \in Nat
      /\ UNCHANGED <<turn, remindersLeft, transcript, recorded, modelCalls>>
      /\ pc' \in {pc, "done"}
  BY DEF IndInv, TypeOK, Cancelled, StreamFails, OutOfTurns, Interrupt, Finish, budgets, vars
<1>2. \A k \in {"nudge", "reminder"} : Count(k) \in Nat /\ Count(k)' = Count(k)
  BY <1>1, CountStays DEF IndInv
<1>3. NudgeInv'
  BY <1>1, <1>2 DEF FairInv, NudgeInv
<1>4. SpendingInv'
  BY <1>1, <1>2 DEF FairInv, SpendingInv
<1>5. OutcomeInv'
  BY DEF FairInv, OutcomeInv, Cancelled, StreamFails, OutOfTurns, Interrupt, Finish, budgets, vars
<1> QED
  BY <1>3, <1>4, <1>5 DEF FairInv

(* Run never gives up for less than it promises, and never spends more:    *)
(* the stop hook uses every reminder, the turns run out only past the      *)
(* deadline nudge, and a turn costs two requests at most.                  *)
THEOREM LoopGivesUpFairly == Spec => []GivesUpFairly
<1>1. IndInv /\ FairInv /\ [Next]_vars => FairInv'
  BY StartTurnFair, CompressFair, ToolsFair, StreamStopsFair, OtherFair DEF Next, Run, Terminated
<1>2. IndInv /\ FairInv => GivesUpFairly
  <2> SUFFICES ASSUME IndInv, FairInv  PROVE GivesUpFairly
    OBVIOUS
  <2>1. /\ turn \in Nat /\ modelCalls \in Nat /\ remindersLeft \in Nat
    BY LoopAssumption DEF IndInv, TypeOK
  <2>2. \A k \in {"nudge", "reminder"} : Count(k) \in Nat
    <3>1. NewMessage("text") \in Message
      BY DEF IndInv, TypeOK, NewMessage, Message, Kind
    <3> QED
      BY <3>1, TallyAppend DEF IndInv, TypeOK, Count, Tally
  <2>3. modelCalls <= 2 * (turn + 1)
    BY <2>1 DEF FairInv, SpendingInv
  <2> QED
    BY <2>1, <2>2, <2>3, LoopAssumption
       DEF FairInv, NudgeInv, SpendingInv, OutcomeInv, GivesUpFairly
<1> QED
  BY <1>1, <1>2, InitFair, Invariance, PTL DEF Spec
=============================================================================
