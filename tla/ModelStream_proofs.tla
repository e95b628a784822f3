--------------------------- MODULE ModelStream_proofs ---------------------------
(***************************************************************************)
(* Proofs about ModelStream, for any limits of attempts and pauses, any    *)
(* Retry-After and any number and length of answers: how doWithRetry       *)
(* waits, that what it retries has not been heard, that a client makes of  *)
(* the events of a stream the answer the provider meant, and that every    *)
(* request is well formed and says what the conversation does.             *)
(***************************************************************************)
EXTENDS ModelStream, SequenceFolds, FiniteSetTheorems, SequenceTheorems, TLAPS

-----------------------------------------------------------------------------
(* The pauses.                                                             *)

LEMMA CappedIsMin ==
  ASSUME NEW a \in Nat
  PROVE  Capped(a) \in 0 .. maxBackoff /\ Capped(a) = Min({maxBackoff, a})
<1>1. maxBackoff \in Nat
  BY StreamAssumption
<1> DEFINE S == {maxBackoff, a}
<1>2. Capped(a) \in S /\ \A y \in S : Capped(a) <= y
  BY <1>1 DEF Capped
<1>3. Min(S) \in S /\ \A y \in S : Min(S) <= y
  BY <1>2 DEF Min
<1>4. \A x, y \in S : x <= y /\ y <= x => x = y
  BY <1>1
<1>5. Capped(a) = Min(S)
  BY <1>2, <1>3, <1>4
<1> QED
  BY <1>1, <1>5 DEF Capped

(* The pause that comes before the next attempt: twice the last one, or    *)
(* what the server asked for.                                              *)
Doubled == IF attempt = 2 THEN 1 ELSE Min({maxBackoff, 2 * waited})

Due == IF asked # {} THEN Min({maxBackoff} \cup asked) ELSE Doubled

PauseTypeInv ==
  /\ attempt \in 0 .. maxAttempts
  /\ backoff \in 0 .. maxBackoff /\ waited \in 0 .. maxBackoff
  /\ asked = {} \/ \E a \in RetryAfters : asked = {a}

(* While it sends, the client knows the pause after the next failure.      *)
BackoffInv ==
  /\ pc = "sending" =>
       /\ attempt >= 1
       /\ backoff = IF attempt = 1 THEN 1 ELSE Min({maxBackoff, 2 * waited})
  /\ pc = "waiting" => attempt >= 2 /\ backoff = Due

PauseInv == PauseTypeInv /\ BackoffInv

LEMMA PauseInit == Init => PauseInv
<1> SUFFICES ASSUME Init
             PROVE  PauseInv
  OBVIOUS
<1> QED
  BY StreamAssumption DEF Init, PauseInv, PauseTypeInv, BackoffInv

(* A failed attempt that is not the last.                                  *)
LEMMA RetryKeepsPause ==
  ASSUME PauseInv, pc = "sending", attempt < maxAttempts, UNCHANGED waited,
         NEW after, after = {} \/ (\E a \in RetryAfters : after = {a}), Retry(after)
  PROVE  PauseInv'
<1>1. /\ pc' = "waiting" /\ attempt' = attempt + 1 /\ asked' = after /\ waited' = waited
      /\ maxAttempts \in Nat /\ maxBackoff \in Nat
  BY StreamAssumption DEF Retry
<1>2. attempt \in 1 .. maxAttempts /\ attempt' \in 2 .. maxAttempts
  BY <1>1 DEF PauseInv, PauseTypeInv, BackoffInv
<1>3. CASE after = {}
  <2>1. backoff' = backoff
    BY <1>3 DEF Retry
  <2>2. attempt' = 2 <=> attempt = 1
    BY <1>1, <1>2
  <2>3. backoff' = IF attempt' = 2 THEN 1 ELSE Min({maxBackoff, 2 * waited})
    BY <2>1, <2>2 DEF PauseInv, BackoffInv
  <2> QED
    BY <1>1, <1>2, <1>3, <2>1, <2>3 DEF PauseInv, PauseTypeInv, BackoffInv, Due, Doubled
<1>4. CASE \E a \in RetryAfters : after = {a}
  <2>1. PICK a \in RetryAfters : after = {a}
    BY <1>4
  <2>2. a \in Nat /\ (CHOOSE b \in after : TRUE) = a /\ after # {}
    BY <2>1, StreamAssumption
  <2>3. backoff' = Capped(a)
    BY <2>2 DEF Retry
  <2>4. {maxBackoff} \cup after = {maxBackoff, a}
    BY <2>1
  <2>5. backoff' \in 0 .. maxBackoff /\ backoff' = Min({maxBackoff} \cup asked')
    BY <1>1, <2>2, <2>3, <2>4, CappedIsMin
  <2>6. asked' # {} /\ (asked' = {} \/ \E b \in RetryAfters : asked' = {b})
    BY <1>1, <2>1, <2>2
  <2>7. PauseTypeInv'
    BY <1>1, <1>2, <2>5, <2>6 DEF PauseInv, PauseTypeInv
  <2>8. BackoffInv'
    BY <1>1, <1>2, <2>5, <2>6 DEF BackoffInv, Due
  <2> QED
    BY <2>7, <2>8 DEF PauseInv
<1> QED
  BY <1>3, <1>4

LEMMA PauseNext == PauseInv /\ [Next]_vars => PauseInv'
<1> SUFFICES ASSUME PauseInv, [Next]_vars
             PROVE  PauseInv'
  OBVIOUS
<1> USE DEF PauseInv
<1>0. maxAttempts \in Nat \ {0} /\ maxBackoff \in Nat \ {0} /\ maxBackoff \in Nat
  BY StreamAssumption
<1>1. CASE StartCall
  BY <1>0, <1>1 DEF StartCall, PauseTypeInv, BackoffInv, retry
<1>2. CASE ConnectionFails
  <2>1. CASE attempt < maxAttempts
    <3>1. PauseInv /\ pc = "sending" /\ UNCHANGED waited /\ Retry({})
      BY <1>2, <2>1 DEF ConnectionFails
    <3> QED
      BY <2>1, <3>1, RetryKeepsPause
  <2>2. CASE ~(attempt < maxAttempts)
    BY <1>2, <2>2 DEF ConnectionFails, PauseTypeInv, BackoffInv
  <2> QED
    BY <2>1, <2>2
<1>3. CASE TransientStatus
  <2>1. CASE attempt < maxAttempts
    <3>1. PauseInv /\ pc = "sending" /\ UNCHANGED waited
      BY <1>3 DEF TransientStatus
    <3>2. PICK after \in {{}} \cup {{a} : a \in RetryAfters} : Retry(after)
      BY <1>3, <2>1 DEF TransientStatus
    <3>3. after = {} \/ \E a \in RetryAfters : after = {a}
      OBVIOUS
    <3> QED
      BY <2>1, <3>1, <3>2, <3>3, RetryKeepsPause
  <2>2. CASE ~(attempt < maxAttempts)
    BY <1>3, <2>2 DEF TransientStatus, PauseTypeInv, BackoffInv
  <2> QED
    BY <2>1, <2>2
<1>4. CASE WaitEnds
  <2>1. /\ pc' = "sending" /\ waited' = backoff /\ attempt' = attempt /\ asked' = asked
        /\ backoff' = Capped(2 * backoff) /\ attempt \in 2 .. maxAttempts
        /\ backoff \in 0 .. maxBackoff
    BY <1>0, <1>4 DEF WaitEnds, PauseTypeInv, BackoffInv
  <2>2. backoff' \in 0 .. maxBackoff /\ backoff' = Min({maxBackoff, 2 * waited'})
    <3>1. 2 * backoff \in Nat
      BY <1>0, <2>1
    <3> QED
      BY <2>1, <3>1, CappedIsMin
  <2> QED
    BY <1>0, <2>1, <2>2 DEF PauseTypeInv, BackoffInv
<1>5. CASE Accepted
  BY <1>0, <1>5 DEF Accepted, PauseTypeInv, BackoffInv
<1>6. CASE PermanentStatus \/ WaitCancelled \/ StreamEnds \/ StreamFails \/ LoopGoesOn
  <2>1. UNCHANGED retry /\ pc' \notin {"sending", "waiting"}
    BY <1>6 DEF PermanentStatus, WaitCancelled, StreamEnds, StreamFails, LoopGoesOn
  <2> QED
    BY <2>1 DEF retry, PauseTypeInv, BackoffInv
<1>7. CASE EventArrives \/ Interrupt \/ Terminated \/ UNCHANGED vars
  <2>1. UNCHANGED <<pc, retry>>
    BY <1>7 DEF EventArrives, Interrupt, Terminated, vars
  <2> QED
    BY <2>1 DEF retry, PauseTypeInv, BackoffInv, Due, Doubled
<1> QED
  BY <1>1, <1>2, <1>3, <1>4, <1>5, <1>6, <1>7 DEF Next, Request

LEMMA PauseInvariance == FairSpec => []PauseInv
BY PauseInit, PauseNext, PTL DEF FairSpec

(* Before every attempt the client waits as long as the server asked it    *)
(* to, up to the limit, or twice as long as before.                        *)
THEOREM StreamWaitsAsAsked == FairSpec => WaitsAsAsked
<1>1. PauseInv /\ [Next]_vars =>
        [pc = "waiting" /\ pc' = "sending" =>
           waited' = IF asked # {} THEN Min({maxBackoff} \cup asked)
                     ELSE IF attempt = 2 THEN 1 ELSE Min({maxBackoff, 2 * waited})]_vars
  <2> SUFFICES ASSUME PauseInv, Next, pc = "waiting", pc' = "sending"
               PROVE  waited' = IF asked # {} THEN Min({maxBackoff} \cup asked)
                                ELSE IF attempt = 2 THEN 1 ELSE Min({maxBackoff, 2 * waited})
    OBVIOUS
  <2>1. WaitEnds
    BY DEF Next, Request, StartCall, ConnectionFails, TransientStatus, PermanentStatus, WaitCancelled,
           Accepted, EventArrives, StreamEnds, StreamFails, LoopGoesOn, Interrupt, Terminated, vars
  <2>2. waited' = Due
    BY <2>1 DEF WaitEnds, PauseInv, BackoffInv
  <2> QED
    BY <2>2 DEF Due, Doubled
<1> QED
  BY <1>1, PauseInvariance, PTL DEF FairSpec, WaitsAsAsked

-----------------------------------------------------------------------------
(* What was heard.                                                         *)
DeltasOf(e, n) == {i \in 1 .. n : e[i].type = "delta"}

(* h is made of the deltas among the first n of the events e.              *)
HeardOf(e, n, h) ==
  /\ Len(h) = Cardinality(DeltasOf(e, n))
  /\ \A i \in DeltasOf(e, n) : h[Cardinality({j \in DeltasOf(e, n) : j <= i})] = e[i]
  /\ h \in Seq({e[i] : i \in 1 .. n})

LEMMA NothingHeard ==
  ASSUME NEW e
  PROVE  HeardOf(e, 0, <<>>)
<1>1. DeltasOf(e, 0) = {}
  BY DEF DeltasOf
<1>2. Cardinality({}) = 0
  BY FS_EmptySet
<1>3. <<>> \in Seq({e[i] : i \in 1 .. 0}) /\ Len(<<>>) = 0
  OBVIOUS
<1> QED
  BY <1>1, <1>2, <1>3 DEF HeardOf

LEMMA MoreHeard ==
  ASSUME NEW e, NEW n \in Nat, NEW h, HeardOf(e, n, h)
  PROVE  HeardOf(e, n + 1, IF e[n + 1].type = "delta" THEN Append(h, e[n + 1]) ELSE h)
<1> DEFINE D == DeltasOf(e, n)
           E == DeltasOf(e, n + 1)
           R == {e[i] : i \in 1 .. n}
           S == {e[i] : i \in 1 .. (n + 1)}
           m == Len(h)
<1>1. /\ m = Cardinality(D) /\ \A i \in D : h[Cardinality({j \in D : j <= i})] = e[i]
      /\ h \in Seq(R)
  BY DEF HeardOf
<1>2. /\ D \in SUBSET (1 .. n) /\ \A i \in D : i \in Nat /\ i <= n
      /\ E = IF e[n + 1].type = "delta" THEN D \cup {n + 1} ELSE D
  <2>1. \A i : i \in 1 .. (n + 1) <=> i \in 1 .. n \/ i = n + 1
    OBVIOUS
  <2> QED
    BY <2>1 DEF DeltasOf
<1>3. h \in Seq(S) /\ m \in Nat /\ e[n + 1] \in S
  <2>1. R \subseteq S /\ e[n + 1] \in S
    OBVIOUS
  <2> HIDE DEF R, S
  <2>2. DOMAIN h = 1 .. m /\ m \in Nat /\ h = [i \in 1 .. m |-> h[i]] /\ \A i \in 1 .. m : h[i] \in R
    BY <1>1
  <2>3. \A i \in 1 .. m : h[i] \in S
    BY <2>1, <2>2
  <2>4. h \in Seq(S)
    BY <2>2, <2>3
  <2> QED
    BY <2>1, <2>2, <2>4
<1>4. IsFiniteSet(D)
  <2> DEFINE N == 1 .. n
  <2>1. IsFiniteSet(N) /\ D \in SUBSET N
    BY <1>2, FS_Interval
  <2> HIDE DEF N, D
  <2> QED
    BY <2>1, FS_Subset
<1> HIDE DEF D, E, R, S, m
<1>5. CASE e[n + 1].type # "delta"
  <2>1. E = D
    BY <1>2, <1>5
  <2>2. Len(h) = Cardinality(E) /\ \A i \in E : h[Cardinality({j \in E : j <= i})] = e[i]
    BY <1>1, <2>1 DEF m
  <2>3. HeardOf(e, n + 1, h)
    BY <1>3, <2>2 DEF HeardOf, E, S
  <2> QED
    BY <1>5, <2>3
<1>6. CASE e[n + 1].type = "delta"
  <2> DEFINE g == Append(h, e[n + 1])
  <2>1. E = D \cup {n + 1} /\ n + 1 \notin D
    BY <1>2, <1>6
  <2>2. Cardinality(E) = m + 1
    BY <1>1, <1>4, <2>1, FS_AddElement
  <2>3. g \in Seq(S) /\ Len(g) = m + 1 /\ g[m + 1] = e[n + 1] /\ \A k \in 1 .. m : g[k] = h[k]
    BY <1>3 DEF m
  <2> HIDE DEF g
  <2>4. ASSUME NEW i \in D
        PROVE  g[Cardinality({j \in E : j <= i})] = e[i]
    <3> DEFINE T == {j \in D : j <= i}
    <3>1. {j \in E : j <= i} = T
      BY <1>2, <2>1
    <3>2. T \in SUBSET D /\ i \in T
      BY <1>2
    <3>3. h[Cardinality(T)] = e[i]
      BY <1>1
    <3> HIDE DEF T
    <3>4. Cardinality(T) \in 1 .. m
      <4>1. IsFiniteSet(T) /\ Cardinality(T) <= m
        BY <1>1, <1>4, <3>2, FS_Subset
      <4>2. Cardinality(T) \in Nat /\ Cardinality(T) # 0
        BY <3>2, <4>1, FS_CardinalityType, FS_EmptySet
      <4> QED
        BY <1>3, <4>1, <4>2
    <3> QED
      BY <2>3, <3>1, <3>3, <3>4
  <2>5. g[Cardinality({j \in E : j <= n + 1})] = e[n + 1]
    <3>1. {j \in E : j <= n + 1} = E
      BY <1>2, <2>1
    <3> QED
      BY <2>2, <2>3, <3>1
  <2>6. \A i \in E : g[Cardinality({j \in E : j <= i})] = e[i]
    BY <2>1, <2>4, <2>5
  <2>7. HeardOf(e, n + 1, g)
    BY <2>2, <2>3, <2>6 DEF HeardOf, E, S
  <2> QED
    BY <1>6, <2>7 DEF g
<1> QED
  BY <1>5, <1>6

(* Nothing has been heard as long as a request may be made again.          *)
HeardInv ==
  /\ arrived \in Nat
  /\ pc \in {"sending", "waiting"} => arrived = 0 /\ heard = <<>>
  /\ HeardOf(Events, arrived, heard)

LEMMA HeardInit == Init => HeardInv
<1> SUFFICES ASSUME Init
             PROVE  HeardInv
  OBVIOUS
<1>1. arrived = 0 /\ heard = <<>>
  BY DEF Init
<1> QED
  BY <1>1, NothingHeard DEF HeardInv

LEMMA HeardNext == HeardInv /\ [Next]_vars => HeardInv'
<1> SUFFICES ASSUME HeardInv, [Next]_vars
             PROVE  HeardInv'
  OBVIOUS
<1>1. ASSUME arrived' = 0, heard' = <<>>
      PROVE  HeardInv'
  <2>1. HeardOf(Events', arrived', heard')
    BY <1>1, NothingHeard
  <2> QED
    BY <1>1, <2>1 DEF HeardInv
<1>2. ASSUME UNCHANGED <<api, stream>>, pc' \in {"sending", "waiting"} => pc \in {"sending", "waiting"}
      PROVE  HeardInv'
  <2>1. Events' = Events
    BY <1>2 DEF Events, stream
  <2>2. arrived' = arrived /\ heard' = heard
    BY <1>2 DEF stream
  <2> QED
    BY <1>2, <2>1, <2>2 DEF HeardInv
<1>3. CASE StartCall
  <2>1. CASE cancelled \/ calls = MaxCalls
    BY <1>2, <1>3, <2>1 DEF StartCall
  <2>2. CASE ~(cancelled \/ calls = MaxCalls)
    BY <1>1, <1>3, <2>2 DEF StartCall
  <2> QED
    BY <2>1, <2>2
<1>4. CASE Accepted
  <2>1. arrived' = 0 /\ heard' = <<>>
    BY <1>4 DEF Accepted, HeardInv
  <2> QED
    BY <1>1, <2>1
<1>5. CASE EventArrives
  <2>1. /\ arrived' = arrived + 1 /\ arrived \in Nat /\ pc' = "streaming"
        /\ heard' = IF Events[arrived + 1].type = "delta" THEN Append(heard, Events[arrived + 1]) ELSE heard
    BY <1>5 DEF EventArrives, HeardInv
  <2>2. Events' = Events
    BY <1>5 DEF EventArrives, Events
  <2>3. HeardOf(Events, arrived + 1, heard')
    BY <2>1, MoreHeard DEF HeardInv
  <2> QED
    BY <2>1, <2>2, <2>3 DEF HeardInv
<1>6. CASE ConnectionFails \/ TransientStatus \/ WaitEnds
  BY <1>2, <1>6 DEF ConnectionFails, TransientStatus, WaitEnds
<1>7. CASE PermanentStatus \/ WaitCancelled \/ StreamEnds \/ StreamFails \/ LoopGoesOn
  BY <1>2, <1>7 DEF PermanentStatus, WaitCancelled, StreamEnds, StreamFails, LoopGoesOn
<1>8. CASE Interrupt \/ Terminated \/ UNCHANGED vars
  BY <1>2, <1>8 DEF Interrupt, Terminated, vars
<1> QED
  BY <1>3, <1>4, <1>5, <1>6, <1>7, <1>8 DEF Next, Request

(* No delta of a call is heard twice, and none is left out: a request is   *)
(* never made again once an event of its answer has been read.             *)
THEOREM StreamHeardOnce == FairSpec => []HeardOnce
<1>1. HeardInv => HeardOnce
  BY DEF HeardInv, HeardOf, DeltasOf, HeardOnce
<1>2. FairSpec => []HeardInv
  BY HeardInit, HeardNext, PTL DEF FairSpec
<1> QED
  BY <1>1, <1>2, PTL

-----------------------------------------------------------------------------
(* The folds of the two clients, part by part.                             *)
M == INSTANCE SequenceFolds WITH Op <- AggregateSSE

R == INSTANCE SequenceFolds WITH Op <- AggregateResponsesSSE

MFold(b, w) == FoldLeft(AggregateSSE, b, w)

RFold(b, w) == FoldLeft(AggregateResponsesSSE, b, w)

LEMMA MFoldIs ==
  /\ \A w, b : MFold(b, w) = M!Fold(b, w)
  /\ \A u, w : Cat(u, w) = M!Cat(u, w) /\ Add(u, w) = M!Add(u, w)
<1>1. \A w, b : MFold(b, w) = M!Fold(b, w)
  BY Zenon DEF MFold, M!Fold, M!FoldLeft, M!MapThenFoldSet, M!Max, FoldLeft, MapThenFoldSet, Max
<1>2. \A u, w : Cat(u, w) = M!Cat(u, w) /\ Add(u, w) = M!Add(u, w)
  BY Zenon DEF Cat, Add, M!Cat, M!Add
<1> QED
  BY <1>1, <1>2

LEMMA RFoldIs ==
  /\ \A w, b : RFold(b, w) = R!Fold(b, w)
  /\ \A u, w : Cat(u, w) = R!Cat(u, w) /\ Add(u, w) = R!Add(u, w)
<1>1. \A w, b : RFold(b, w) = R!Fold(b, w)
  BY Zenon DEF RFold, R!Fold, R!FoldLeft, R!MapThenFoldSet, R!Max, FoldLeft, MapThenFoldSet, Max
<1>2. \A u, w : Cat(u, w) = R!Cat(u, w) /\ Add(u, w) = R!Add(u, w)
  BY Zenon DEF Cat, Add, R!Cat, R!Add
<1> QED
  BY <1>1, <1>2

LEMMA MFoldParts ==
  ASSUME NEW S, NEW b
  PROVE  /\ MFold(b, <<>>) = b
         /\ \A w \in Seq(S), x \in S : MFold(b, Add(w, x)) = AggregateSSE(MFold(b, w), x)
         /\ \A u, w \in Seq(S) : MFold(b, Cat(u, w)) = MFold(MFold(b, u), w)
BY MFoldIs, M!FoldEmpty, M!FoldAdd, M!FoldCat

LEMMA RFoldParts ==
  ASSUME NEW S, NEW b
  PROVE  /\ RFold(b, <<>>) = b
         /\ \A w \in Seq(S), x \in S : RFold(b, Add(w, x)) = AggregateResponsesSSE(RFold(b, w), x)
         /\ \A u, w \in Seq(S) : RFold(b, Cat(u, w)) = RFold(RFold(b, u), w)
BY RFoldIs, R!FoldEmpty, R!FoldAdd, R!FoldCat

-----------------------------------------------------------------------------
(* The answer and its events.                                              *)
AnswerType ==
  /\ api \in {"anthropic", "responses"}
  /\ answer \in Seq(AnswerBlock) /\ Len(answer) <= MaxBlocks
  /\ calls \in Nat

(* What the events of an answer have in common: they name its blocks, and  *)
(* an item that is completed with a text has the whole text.               *)
EventOK(e) ==
  /\ e.type \in {"start", "delta", "done"} => e.index \in DOMAIN answer
  /\ e.type = "done" /\ e.piece # <<>> =>
       e.piece = answer[e.index].text /\ answer[e.index].done = "full"

EventSet ==
  {e \in [type : {"message_start", "start", "delta", "done", "message_delta", "message_stop", "completed"},
          index : Nat, piece : Seq(Piece)] : EventOK(e)}

LEMMA WholeType ==
  Whole \in Seq(Piece) /\ <<"ws">> \in Seq(Piece) /\ Whole # <<>> /\ <<"ws">> # <<>>
<1>1. Whole \in Seq(Piece) /\ <<"ws">> \in Seq(Piece)
  BY DEF Whole, Piece
<1>2. Len(Whole) = 2 /\ Len(<<"ws">>) = 1 /\ Len(<<>>) = 0
  BY DEF Whole
<1> QED
  BY <1>1, <1>2

LEMMA BlockFacts ==
  ASSUME AnswerType, NEW i \in DOMAIN answer
  PROVE  /\ i \in 1 .. Len(answer) /\ i \in Nat /\ i \in 1 .. MaxBlocks
         /\ answer[i] \in AnswerBlock
         /\ answer[i].type \in {"text", "thinking", "tool_use"}
         /\ answer[i].text \in {Whole, <<"ws">>}
         /\ answer[i].done \in {"full", "empty", "omitted"}
         /\ answer[i].type # "text" => answer[i].text = Whole /\ answer[i].done = "full"
         /\ answer[i].text \in Seq(Piece) /\ answer[i].text # <<>>
<1>1. i \in 1 .. Len(answer) /\ i \in Nat /\ i \in 1 .. MaxBlocks /\ answer[i] \in AnswerBlock
  BY StreamAssumption DEF AnswerType
<1> DEFINE b == answer[i]
<1>2. /\ b.type \in {"text", "thinking", "tool_use"}
      /\ b.text \in {Whole, <<"ws">>}
      /\ b.done \in {"full", "empty", "omitted"}
      /\ b.type # "text" => b.text = Whole /\ b.done = "full"
  <2>1. b \in AnswerBlock
    BY <1>1
  <2> HIDE DEF b
  <2> QED
    BY <2>1 DEF AnswerBlock
<1>3. Whole \in Seq(Piece) /\ <<"ws">> \in Seq(Piece) /\ Whole # <<>> /\ <<"ws">> # <<>>
  BY WholeType
<1> QED
  BY <1>1, <1>2, <1>3

Delta(i, piece) == Event("delta", i, <<piece>>)

LEMMA DeltasAre ==
  ASSUME NEW i, NEW b
  PROVE  /\ b.text = Whole => Deltas(i, b) = Add(Add(<<>>, Delta(i, "a")), Delta(i, "b"))
         /\ b.text = <<"ws">> => Deltas(i, b) = Add(<<>>, Delta(i, "ws"))
BY DEF Deltas, Delta, Add, Whole

LEMMA DeltasType ==
  ASSUME AnswerType, NEW i \in DOMAIN answer
  PROVE  /\ \A piece \in Piece : Delta(i, piece) \in EventSet
         /\ Deltas(i, answer[i]) \in Seq(EventSet)
<1>1. \A piece \in Piece : Delta(i, piece) \in EventSet
  BY BlockFacts DEF Delta, Event, EventSet, EventOK
<1>2. <<>> \in Seq(EventSet)
  OBVIOUS
<1>3. /\ Add(Add(<<>>, Delta(i, "a")), Delta(i, "b")) \in Seq(EventSet)
      /\ Add(<<>>, Delta(i, "ws")) \in Seq(EventSet)
  <2>1. Delta(i, "a") \in EventSet /\ Delta(i, "b") \in EventSet /\ Delta(i, "ws") \in EventSet
    BY <1>1 DEF Piece
  <2>2. Add(<<>>, Delta(i, "a")) \in Seq(EventSet) /\ Add(<<>>, Delta(i, "ws")) \in Seq(EventSet)
    BY <1>2, <2>1, AddType
  <2> QED
    BY <2>1, <2>2, AddType
<1>4. answer[i].text = Whole \/ answer[i].text = <<"ws">>
  BY BlockFacts
<1> QED
  BY <1>1, <1>3, <1>4, DeltasAre

MParts == [i \in DOMAIN answer |-> MessagesEvents(i, answer[i])]

RParts == [i \in DOMAIN answer |-> ResponsesEvents(i, answer[i])]

LEMMA PartsType ==
  ASSUME AnswerType
  PROVE  /\ MParts \in Seq(Seq(EventSet)) /\ Len(MParts) = Len(answer)
         /\ \A i \in DOMAIN answer :
              /\ Event("start", i, <<>>) \in EventSet
              /\ MParts[i] = Cat(<<Event("start", i, <<>>)>>, Deltas(i, answer[i]))
<1>1. ASSUME NEW i \in DOMAIN answer
      PROVE  Event("start", i, <<>>) \in EventSet /\ MessagesEvents(i, answer[i]) \in Seq(EventSet)
  <2>1. Event("start", i, <<>>) \in EventSet
    BY <1>1, BlockFacts DEF Event, EventSet, EventOK
  <2>2. <<Event("start", i, <<>>)>> \in Seq(EventSet)
    BY <2>1
  <2>3. Cat(<<Event("start", i, <<>>)>>, Deltas(i, answer[i])) \in Seq(EventSet)
    BY <1>1, <2>2, DeltasType, CatType
  <2> QED
    BY <2>1, <2>3 DEF MessagesEvents, Cat
<1>2. DOMAIN answer = 1 .. Len(answer) /\ Len(answer) \in Nat
  BY DEF AnswerType
<1>3. MParts \in Seq(Seq(EventSet)) /\ Len(MParts) = Len(answer)
  BY <1>1, <1>2 DEF MParts
<1>4. \A i \in DOMAIN answer : MParts[i] = Cat(<<Event("start", i, <<>>)>>, Deltas(i, answer[i]))
  BY Zenon DEF MParts, MessagesEvents, Cat
<1> QED
  BY <1>1, <1>3, <1>4

Ending(i, b) ==
  CASE b.done = "full" -> <<Event("done", i, b.text)>>
    [] b.done = "empty" -> <<Event("done", i, <<>>)>>
    [] OTHER -> <<>>

LEMMA ResponsesPartsType ==
  ASSUME AnswerType
  PROVE  /\ RParts \in Seq(Seq(EventSet)) /\ Len(RParts) = Len(answer)
         /\ \A i \in DOMAIN answer :
              /\ Ending(i, answer[i]) \in Seq(EventSet)
              /\ RParts[i] = Cat(Deltas(i, answer[i]), Ending(i, answer[i]))
<1>1. ASSUME NEW i \in DOMAIN answer
      PROVE  Ending(i, answer[i]) \in Seq(EventSet) /\ ResponsesEvents(i, answer[i]) \in Seq(EventSet)
  <2> DEFINE b == answer[i]
             full == Event("done", i, b.text)
             empty == Event("done", i, <<>>)
  <2>1. b.text \in Seq(Piece) /\ <<>> \in Seq(Piece) /\ i \in Nat
    BY <1>1, BlockFacts
  <2>2. empty \in EventSet /\ (b.done = "full" => full \in EventSet)
    BY <1>1, <2>1 DEF Event, EventSet, EventOK
  <2>3. Ending(i, b) \in Seq(EventSet)
    <3> HIDE DEF full, empty, b
    <3>1. <<empty>> \in Seq(EventSet) /\ <<>> \in Seq(EventSet) /\ (b.done = "full" => <<full>> \in Seq(EventSet))
      BY <2>2
    <3>2. Ending(i, b) = CASE b.done = "full" -> <<full>> [] b.done = "empty" -> <<empty>> [] OTHER -> <<>>
      BY Zenon DEF Ending, full, empty
    <3> QED
      BY <3>1, <3>2
  <2>4. Cat(Deltas(i, b), Ending(i, b)) \in Seq(EventSet)
    BY <1>1, <2>3, DeltasType, CatType
  <2> QED
    BY <2>3, <2>4, Zenon DEF ResponsesEvents, Cat, Ending
<1>2. DOMAIN answer = 1 .. Len(answer) /\ Len(answer) \in Nat
  BY DEF AnswerType
<1>3. RParts \in Seq(Seq(EventSet)) /\ Len(RParts) = Len(answer)
  BY <1>1, <1>2 DEF RParts
<1>4. \A i \in DOMAIN answer : RParts[i] = Cat(Deltas(i, answer[i]), Ending(i, answer[i]))
  BY Zenon DEF RParts, ResponsesEvents, Cat, Ending
<1> QED
  BY <1>1, <1>3, <1>4

First == Event("message_start", 0, <<>>)

Total == Event("message_delta", 0, <<>>)

Stop == Event("message_stop", 0, <<>>)

Completed == Event("completed", 0, <<>>)

LEMMA EventsAre ==
  ASSUME AnswerType
  PROVE  /\ {First, Total, Stop, Completed} \subseteq EventSet
         /\ api = "anthropic" => Events = Add(Add(Cat(Add(<<>>, First), FlattenSeq(MParts)), Total), Stop)
         /\ api = "responses" => Events = Add(FlattenSeq(RParts), Completed)
         /\ FlattenSeq(MParts) \in Seq(EventSet) /\ FlattenSeq(RParts) \in Seq(EventSet)
         /\ Events \in Seq(EventSet)
<1>1. {First, Total, Stop, Completed} \subseteq EventSet
  BY DEF First, Total, Stop, Completed, Event, EventSet, EventOK
<1>2. FlattenSeq(MParts) \in Seq(EventSet) /\ FlattenSeq(RParts) \in Seq(EventSet)
  BY PartsType, ResponsesPartsType, FlattenType
<1> DEFINE m == FlattenSeq(MParts)
           r == FlattenSeq(RParts)
<1>3. api = "anthropic" => Events = (<<First>> \o m) \o <<Total, Stop>>
  BY Zenon DEF Events, First, Total, Stop, MParts
<1>4. api = "responses" => Events = r \o <<Completed>>
  BY Zenon DEF Events, Completed, RParts
<1> HIDE DEF m, r
<1>5. <<>> \in Seq(EventSet) /\ Add(<<>>, First) \in Seq(EventSet) /\ Add(<<>>, First) = <<First>>
  <2>1. <<>> \in Seq(EventSet) /\ First \in EventSet
    BY <1>1
  <2> QED
    BY <2>1, AddType, OneIsAdd
<1>6. Cat(<<First>>, m) \in Seq(EventSet)
  BY <1>2, <1>5, CatType DEF m
<1>7. \A u \in Seq(EventSet) : u \o <<Total, Stop>> = Add(Add(u, Total), Stop)
  BY <1>1 DEF Add
<1>8. \A u \in Seq(EventSet) : u \o <<Completed>> = Add(u, Completed)
  BY <1>1 DEF Add
<1>9. api = "anthropic" => Events = Add(Add(Cat(<<First>>, m), Total), Stop)
  BY <1>3, <1>6, <1>7, Zenon DEF Cat
<1>10. api = "responses" => Events = Add(r, Completed)
  BY <1>2, <1>4, <1>8, Zenon DEF r
<1>11. Events \in Seq(EventSet)
  <2>1. Total \in EventSet /\ Stop \in EventSet /\ Completed \in EventSet
    BY <1>1
  <2>2. Add(Cat(<<First>>, m), Total) \in Seq(EventSet) /\ Add(r, Completed) \in Seq(EventSet)
    BY <1>2, <1>6, <2>1, AddType DEF r
  <2>3. Add(Add(Cat(<<First>>, m), Total), Stop) \in Seq(EventSet)
    BY <2>1, <2>2, AddType
  <2> QED
    BY <1>9, <1>10, <2>2, <2>3 DEF AnswerType
<1> QED
  BY <1>1, <1>2, <1>5, <1>9, <1>10, <1>11, Zenon DEF m, r

-----------------------------------------------------------------------------
(* A stream that came to its end.                                          *)
Texts == [1 .. MaxBlocks -> Seq(Piece)]

Acc(texts, blocks, n) == [texts |-> texts, blocks |-> blocks, usage |-> n]

LEMMA MEmpty == \A b : MFold(b, <<>>) = b
BY MFoldIs, M!FoldEmpty, Zenon

LEMMA MOne == \A b, x : MFold(b, <<x>>) = AggregateSSE(b, x)
BY MFoldIs, M!FoldOne, Zenon

LEMMA MAdd ==
  ASSUME NEW w \in Seq(EventSet), NEW x \in EventSet, NEW b
  PROVE  MFold(b, Add(w, x)) = AggregateSSE(MFold(b, w), x)
<1>1. M!Fold(b, M!Add(w, x)) = AggregateSSE(M!Fold(b, w), x)
  BY M!FoldAdd
<1> QED
  BY <1>1, MFoldIs, Zenon

LEMMA MCat ==
  ASSUME NEW u \in Seq(EventSet), NEW w \in Seq(EventSet), NEW b
  PROVE  MFold(b, Cat(u, w)) = MFold(MFold(b, u), w)
<1>1. M!Fold(b, M!Cat(u, w)) = M!Fold(M!Fold(b, u), w)
  BY M!FoldCat
<1> QED
  BY <1>1, MFoldIs, Zenon

LEMMA Updated ==
  ASSUME NEW X, NEW A, NEW f \in [X -> A], NEW i \in X, NEW a \in A
  PROVE  /\ [f EXCEPT ![i] = a] \in [X -> A]
         /\ [f EXCEPT ![i] = a][i] = a
         /\ \A h \in X : h # i => [f EXCEPT ![i] = a][h] = f[h]
         /\ f[i] = a => [f EXCEPT ![i] = a] = f
         /\ \A g \in [X -> A] : g[i] = a /\ (\A h \in X : h # i => g[h] = f[h]) => [f EXCEPT ![i] = a] = g
OBVIOUS

LEMMA TwoIsAdd == ASSUME NEW x, NEW y  PROVE <<x, y>> = Add(Add(<<>>, x), y)
BY DEF Add

LEMMA UpdatedTwice ==
  ASSUME NEW X, NEW A, NEW f \in [X -> A], NEW i \in X, NEW a \in A, NEW b \in A
  PROVE  [[f EXCEPT ![i] = a] EXCEPT ![i] = b] = [f EXCEPT ![i] = b]
OBVIOUS

(* The deltas of a block give its text.                                    *)
LEMMA MDeltas ==
  ASSUME AnswerType, NEW i \in DOMAIN answer, NEW t \in Texts, NEW B, NEW n, t[i] = <<>>
  PROVE  MFold(Acc(t, B, n), Deltas(i, answer[i])) = Acc([t EXCEPT ![i] = answer[i].text], B, n)
<1>1. ASSUME NEW u \in Texts, NEW piece \in Piece
      PROVE  AggregateSSE(Acc(u, B, n), Delta(i, piece)) = Acc([u EXCEPT ![i] = u[i] \o <<piece>>], B, n)
  BY DEF AggregateSSE, Acc, Delta, Event
<1>2. i \in 1 .. MaxBlocks /\ (answer[i].text = Whole \/ answer[i].text = <<"ws">>)
  BY BlockFacts
<1>3. <<>> \in Seq(EventSet) /\ \A piece \in Piece : Delta(i, piece) \in EventSet
  BY DeltasType
<1>4. \A x \in EventSet : MFold(Acc(t, B, n), Add(<<>>, x)) = AggregateSSE(Acc(t, B, n), x)
  <2> SUFFICES ASSUME NEW x \in EventSet  PROVE MFold(Acc(t, B, n), Add(<<>>, x)) = AggregateSSE(Acc(t, B, n), x)
    OBVIOUS
  <2>1. MFold(Acc(t, B, n), Add(<<>>, x)) = AggregateSSE(MFold(Acc(t, B, n), <<>>), x)
    BY <1>3, MAdd
  <2> QED
    BY <2>1, MEmpty, Zenon
<1>5. CASE answer[i].text = <<"ws">>
  <2>1. "ws" \in Piece /\ <<>> \o <<"ws">> = <<"ws">>
    BY DEF Piece
  <2>2. MFold(Acc(t, B, n), Deltas(i, answer[i])) = AggregateSSE(Acc(t, B, n), Delta(i, "ws"))
    BY <1>3, <1>4, <1>5, <2>1, DeltasAre
  <2>3. AggregateSSE(Acc(t, B, n), Delta(i, "ws")) = Acc([t EXCEPT ![i] = t[i] \o <<"ws">>], B, n)
    BY <1>1, <2>1
  <2> QED
    BY <1>5, <2>1, <2>2, <2>3, Zenon
<1>6. CASE answer[i].text = Whole
  <2> DEFINE u == [t EXCEPT ![i] = <<"a">>]
  <2>1. /\ "a" \in Piece /\ "b" \in Piece
        /\ <<>> \o <<"a">> = <<"a">>
        /\ <<"a">> \o <<"b">> = Whole
    <3>1. "a" \in Piece /\ "b" \in Piece
      BY DEF Piece
    <3>2. <<>> \o <<"a">> = <<"a">>
      OBVIOUS
    <3>3. <<"a">> \o <<"b">> = Whole
      <4>1. <<"a">> \in Seq({"a", "b"}) /\ "b" \in {"a", "b"}
        OBVIOUS
      <4>2. Cat(<<"a">>, <<"b">>) = Add(<<"a">>, "b")
        BY <4>1, AddIsCat
      <4>3. Add(<<"a">>, "b") = <<"a", "b">>
        BY OneIsAdd, TwoIsAdd, Zenon
      <4> QED
        BY <4>2, <4>3, Zenon DEF Whole, Cat
    <3> QED
      BY <3>1, <3>2, <3>3, Zenon
  <2>2. u \in Texts /\ u[i] = <<"a">> /\ [u EXCEPT ![i] = Whole] = [t EXCEPT ![i] = Whole]
    <3> DEFINE p == <<"a">>
    <3>1. p \in Seq(Piece) /\ Whole \in Seq(Piece)
      BY <2>1, WholeType
    <3> HIDE DEF p
    <3> DEFINE whole == Whole
    <3>4. whole \in Seq(Piece)
      BY <3>1
    <3> HIDE DEF whole
    <3>3. /\ [t EXCEPT ![i] = p] \in Texts /\ [t EXCEPT ![i] = p][i] = p
      BY <1>2, <3>1, Updated DEF Texts
    <3>2. /\ [t EXCEPT ![i] = p] \in Texts /\ [t EXCEPT ![i] = p][i] = p
          /\ [[t EXCEPT ![i] = p] EXCEPT ![i] = whole] = [t EXCEPT ![i] = whole]
      BY <1>2, <3>1, <3>3, <3>4, UpdatedTwice DEF Texts
    <3> QED
      BY <3>2, Zenon DEF p, whole
  <2>3. Add(<<>>, Delta(i, "a")) \in Seq(EventSet) /\ Delta(i, "a") \in EventSet /\ Delta(i, "b") \in EventSet
    BY <1>3, <2>1, AddType
  <2> DEFINE one == MFold(Acc(t, B, n), Add(<<>>, Delta(i, "a")))
  <2>4. MFold(Acc(t, B, n), Deltas(i, answer[i])) = AggregateSSE(one, Delta(i, "b"))
    <3>1. Deltas(i, answer[i]) = Add(Add(<<>>, Delta(i, "a")), Delta(i, "b"))
      BY <1>6, DeltasAre
    <3> QED
      BY <2>3, <3>1, MAdd
  <2>5. one = Acc([t EXCEPT ![i] = t[i] \o <<"a">>], B, n)
    BY <1>1, <1>4, <2>1, <2>3, Zenon
  <2>6. one = Acc(u, B, n)
    BY <2>1, <2>5, Zenon
  <2> HIDE DEF u, one
  <2>7. AggregateSSE(Acc(u, B, n), Delta(i, "b")) = Acc([u EXCEPT ![i] = u[i] \o <<"b">>], B, n)
    BY <1>1, <2>1, <2>2, Zenon
  <2> QED
    BY <1>6, <2>1, <2>2, <2>4, <2>6, <2>7, Zenon
<1> QED
  BY <1>2, <1>5, <1>6

(* What the Messages API client holds after k blocks.                      *)
MTexts(k) == [i \in 1 .. MaxBlocks |-> IF i <= k THEN answer[i].text ELSE <<>>]

LEMMA MTextsType ==
  ASSUME AnswerType, NEW k \in 0 .. Len(answer)
  PROVE  /\ MTexts(k) \in Texts
         /\ \A i \in 1 .. MaxBlocks : MTexts(k)[i] = IF i <= k THEN answer[i].text ELSE <<>>
<1>1. \A h \in 1 .. k : h \in DOMAIN answer
  BY DEF AnswerType
<1>2. \A h \in 1 .. k : answer[h].text \in Seq(Piece)
  BY <1>1, BlockFacts
<1>3. \A h \in 1 .. MaxBlocks : h <= k => h \in 1 .. k
  BY StreamAssumption DEF AnswerType
<1>4. \A h \in 1 .. MaxBlocks : (IF h <= k THEN answer[h].text ELSE <<>>) \in Seq(Piece)
  BY <1>2, <1>3
<1> QED
  BY <1>4, Zenon DEF MTexts, Texts

LEMMA MAfter ==
  ASSUME AnswerType, NEW k \in 0 .. Len(answer)
  PROVE  MFold(Acc(MTexts(0), {}, 1), FlattenSeq(SubSeq(MParts, 1, k))) = Acc(MTexts(k), 1 .. k, 1)
<1> DEFINE P(j) == MFold(Acc(MTexts(0), {}, 1), FlattenSeq(SubSeq(MParts, 1, j))) = Acc(MTexts(j), 1 .. j, 1)
           T == {j \in Nat : j <= Len(answer) => P(j)}
<1>0. /\ MParts \in Seq(Seq(EventSet)) /\ Len(MParts) = Len(answer) /\ Len(answer) \in Nat
      /\ DOMAIN answer = 1 .. Len(answer)
  BY PartsType DEF AnswerType
<1>1. P(0)
  <2>1. SubSeq(MParts, 1, 0) = <<>> /\ 1 .. 0 = {}
    BY <1>0, Prefix
  <2> QED
    BY <2>1, FlattenEmpty, MFoldParts
<1>2. ASSUME NEW j \in Nat, j + 1 <= Len(answer), P(j)  PROVE P(j + 1)
  <2> DEFINE i == j + 1
             u == FlattenSeq(SubSeq(MParts, 1, j))
             start == Event("start", i, <<>>)
             b == Acc(MTexts(0), {}, 1)
  <2>1. i \in DOMAIN answer /\ j \in 0 .. Len(MParts) /\ j \in 0 .. (Len(MParts) - 1)
    BY <1>0, <1>2
  <2>2. SubSeq(MParts, 1, j) \in Seq(Seq(EventSet)) /\ SubSeq(MParts, 1, i) = Add(SubSeq(MParts, 1, j), MParts[i])
    BY <1>0, <2>1, Prefix
  <2>3. MParts[i] = Cat(<<start>>, Deltas(i, answer[i])) /\ start \in EventSet
    BY <2>1, PartsType
  <2> DEFINE head == <<start>>
  <2>4. u \in Seq(EventSet) /\ head \in Seq(EventSet) /\ MParts[i] \in Seq(EventSet) /\ Deltas(i, answer[i]) \in Seq(EventSet)
    <3>1. head \in Seq(EventSet)
      <4> HIDE DEF start
      <4> QED
        BY <2>3
    <3>2. u \in Seq(EventSet)
      BY <2>2, FlattenType
    <3>3. Deltas(i, answer[i]) \in Seq(EventSet)
      BY <2>1, DeltasType
    <3>4. MParts[i] \in Seq(EventSet)
      <4> HIDE DEF i
      <4> QED
        BY <1>0, <2>1
    <3> QED
      BY <3>1, <3>2, <3>3, <3>4
  <2>5. FlattenSeq(SubSeq(MParts, 1, i)) = Cat(u, MParts[i])
    BY <2>2, <2>4, FlattenAdd
  <2>6. MFold(b, u) = Acc(MTexts(j), 1 .. j, 1)
    BY <1>2
  <2> HIDE DEF u, b
  <2>7. MFold(b, Cat(u, MParts[i])) = MFold(MFold(b, u), MParts[i])
    BY <2>4, MCat
  <2> DEFINE c == MFold(b, u)
  <2> HIDE DEF c, head, start
  <2>8. MFold(c, MParts[i]) = MFold(MFold(c, head), Deltas(i, answer[i]))
    <3>1. MParts[i] = Cat(head, Deltas(i, answer[i]))
      BY <2>3 DEF head
    <3> QED
      BY <2>4, <3>1, MCat
  <2>9. MFold(c, head) = AggregateSSE(c, start)
    BY MOne, Zenon DEF head
  <2>10. /\ i \in 1 .. MaxBlocks /\ MTexts(j) \in Texts /\ MTexts(i) \in Texts
         /\ MTexts(j)[i] = <<>> /\ MTexts(i)[i] = answer[i].text
         /\ answer[i].text \in Seq(Piece) /\ <<>> \in Seq(Piece)
         /\ \A h \in 1 .. MaxBlocks : h # i => MTexts(i)[h] = MTexts(j)[h]
    <3>1. i \in 1 .. MaxBlocks /\ answer[i].text \in Seq(Piece)
      BY <2>1, BlockFacts
    <3>2. j \in 0 .. Len(answer) /\ i \in 0 .. Len(answer)
      BY <1>0, <1>2
    <3>3. /\ MTexts(j) \in Texts /\ MTexts(i) \in Texts
          /\ \A h \in 1 .. MaxBlocks : MTexts(j)[h] = IF h <= j THEN answer[h].text ELSE <<>>
          /\ \A h \in 1 .. MaxBlocks : MTexts(i)[h] = IF h <= i THEN answer[h].text ELSE <<>>
      BY <3>2, MTextsType
    <3>4. \A h \in 1 .. MaxBlocks : h # i => (h <= i <=> h <= j)
      BY StreamAssumption
    <3> QED
      BY <3>1, <3>3, <3>4
  <2>11. AggregateSSE(c, start) = Acc(MTexts(j), 1 .. i, 1)
    <3>1. c = Acc(MTexts(j), 1 .. j, 1)
      BY <2>6 DEF c
    <3>2. (1 .. j) \cup {i} = 1 .. i
      OBVIOUS
    <3>4. [MTexts(j) EXCEPT ![i] = <<>>] = MTexts(j)
      BY <2>10, Updated DEF Texts
    <3>3. AggregateSSE(c, start) = Acc([MTexts(j) EXCEPT ![i] = <<>>], (1 .. j) \cup {i}, 1)
      BY <3>1 DEF AggregateSSE, Acc, start, Event
    <3> QED
      BY <3>2, <3>3, <3>4, Zenon
  <2>12. MFold(Acc(MTexts(j), 1 .. i, 1), Deltas(i, answer[i])) = Acc([MTexts(j) EXCEPT ![i] = answer[i].text], 1 .. i, 1)
    BY <2>1, <2>10, MDeltas
  <2>13. [MTexts(j) EXCEPT ![i] = answer[i].text] = MTexts(i)
    <3> HIDE DEF i
    <3> QED
      BY <2>10, Updated DEF Texts
  <2> QED
    BY <2>5, <2>7, <2>8, <2>9, <2>11, <2>12, <2>13, Zenon DEF c, b
<1> HIDE DEF P
<1>3. 0 \in T /\ \A j \in Nat : j \in T => j + 1 \in T
  <2>1. ASSUME NEW j \in Nat, j \in T, j + 1 <= Len(answer)  PROVE P(j)
    BY <1>0, <2>1
  <2> QED
    BY <1>1, <1>2, <2>1
<1> HIDE DEF T
<1>4. k \in Nat /\ k <= Len(answer)
  BY <1>0
<1>5. k \in T
  BY <1>3, <1>4, NatInduct
<1>6. P(k)
  BY <1>4, <1>5 DEF T
<1> QED
  BY <1>6, Zenon DEF P

Indices == [i \in DOMAIN answer |-> i]

(* The message made of the blocks J, and that of the blocks K as meant.    *)
Content(texts, J) ==
  LET indices == Only(Indices, J)
  IN  [k \in DOMAIN indices |->
         BlockOf(answer[indices[k]].type, texts[indices[k]], indices[k])]

MeantOf(K) ==
  LET indices == Only(Indices, K)
  IN  [k \in DOMAIN indices |->
         BlockOf(answer[indices[k]].type, answer[indices[k]].text, indices[k])]

Counts(b) ==
  api = "anthropic" \/ (IF b.done = "full" THEN b.type # "thinking" ELSE ~Blank(b.text))

Kept == {i \in Range(Indices) : Counts(answer[i])}

LEMMA MeantIs == Meant = MeantOf(Kept)
BY Zenon DEF Meant, MeantOf, Kept, Counts, Select, Indices

LEMMA IndicesType ==
  ASSUME AnswerType
  PROVE  /\ Indices \in Seq(DOMAIN answer) /\ Len(Indices) = Len(answer)
         /\ \A i \in DOMAIN answer : Indices[i] = i
         /\ Range(Indices) = DOMAIN answer
<1>1. DOMAIN answer = 1 .. Len(answer) /\ Len(answer) \in Nat
  BY DEF AnswerType
<1>2. Indices \in Seq(DOMAIN answer) /\ Len(Indices) = Len(answer)
  BY <1>1 DEF Indices
<1>3. (\A i \in DOMAIN answer : Indices[i] = i) /\ DOMAIN Indices = DOMAIN answer
  BY Zenon DEF Indices
<1> QED
  BY <1>2, <1>3 DEF Range

LEMMA ContentIs ==
  ASSUME AnswerType, NEW texts, NEW J, NEW K,
         \A i \in DOMAIN answer : i \in J <=> i \in K,
         \A i \in DOMAIN answer \cap J : texts[i] = answer[i].text
  PROVE  Content(texts, J) = MeantOf(K)
<1> DEFINE u == Only(Indices, J)
<1>1. u = Only(Indices, K)
  BY IndicesType, OnlyAgree
<1>2. u \in Seq(DOMAIN answer \cap J)
  BY IndicesType, OnlyType
<1>3. Content(texts, J) = [k \in DOMAIN u |-> BlockOf(answer[u[k]].type, texts[u[k]], u[k])]
  BY Zenon DEF Content
<1>4. MeantOf(K) = [k \in DOMAIN u |-> BlockOf(answer[u[k]].type, answer[u[k]].text, u[k])]
  BY <1>1, Zenon DEF MeantOf
<1> HIDE DEF u
<1>5. \A k \in DOMAIN u : texts[u[k]] = answer[u[k]].text
  BY <1>2
<1> QED
  BY <1>3, <1>4, <1>5

LEMMA AggregateIs ==
  ASSUME NEW events, NEW acc,
         acc = IF api = "anthropic" THEN MFold(Nothing, events) ELSE RFold(Nothing, events)
  PROVE  /\ Aggregate(events).content = Content(acc.texts, acc.blocks \cup Recovered(acc))
         /\ Aggregate(events).usage = acc.usage
<1> DEFINE J == acc.blocks \cup Recovered(acc)
<1>1. Aggregate(events) = [content |-> Content(acc.texts, J), usage |-> acc.usage]
  BY Zenon DEF Aggregate, Content, MFold, RFold, Indices
<1> QED
  BY <1>1

LEMMA MessagesComplete ==
  ASSUME AnswerType, api = "anthropic"
  PROVE  Aggregate(Events).content = Meant /\ Aggregate(Events).usage = Tokens
<1> DEFINE n == Len(answer)
           parts == FlattenSeq(MParts)
           body == Cat(Add(<<>>, First), parts)
           one == Add(<<>>, First)
<1>0. /\ n \in Nat /\ n \in 0 .. n /\ DOMAIN answer = 1 .. n /\ n <= MaxBlocks
      /\ MParts \in Seq(Seq(EventSet)) /\ Len(MParts) = n
  BY PartsType DEF AnswerType
<1>1. /\ First \in EventSet /\ Total \in EventSet /\ Stop \in EventSet
      /\ Events = Add(Add(body, Total), Stop)
      /\ parts \in Seq(EventSet)
  BY EventsAre
<1>2. one \in Seq(EventSet)
  <2>1. <<>> \in Seq(EventSet)
    OBVIOUS
  <2> QED
    BY <1>1, <2>1, AddType
<1>3. body \in Seq(EventSet) /\ Add(body, Total) \in Seq(EventSet)
  <2> HIDE DEF parts
  <2>1. body \in Seq(EventSet)
    BY <1>1, <1>2, CatType
  <2> HIDE DEF body
  <2> QED
    BY <1>1, <2>1, AddType
<1>4. MTexts(0) = [i \in 1 .. MaxBlocks |-> <<>>]
  BY StreamAssumption DEF MTexts
<1>5. MFold(Nothing, one) = Acc(MTexts(0), {}, 1)
  <2>1. MFold(Nothing, one) = AggregateSSE(Nothing, First)
    BY MOne, OneIsAdd, Zenon
  <2>2. Nothing = Acc(MTexts(0), {}, 0)
    BY <1>4, Zenon DEF Nothing, Acc
  <2>3. AggregateSSE(Acc(MTexts(0), {}, 0), First) = Acc(MTexts(0), {}, 0 + 1)
    BY DEF AggregateSSE, First, Event, Acc
  <2> QED
    BY <2>1, <2>2, <2>3
<1>6. MFold(Nothing, body) = Acc(MTexts(n), 1 .. n, 1)
  <2>1. SubSeq(MParts, 1, n) = MParts
    BY <1>0, Prefix
  <2>2. MFold(Acc(MTexts(0), {}, 1), parts) = Acc(MTexts(n), 1 .. n, 1)
    BY <1>0, <2>1, MAfter
  <2> HIDE DEF parts, one
  <2>3. MFold(Nothing, Cat(one, parts)) = MFold(MFold(Nothing, one), parts)
    BY <1>1, <1>2, MCat
  <2> QED
    BY <1>5, <2>2, <2>3, Zenon DEF one
<1>7. MFold(Nothing, Events) = Acc(MTexts(n), 1 .. n, Tokens)
  <2> HIDE DEF body, n
  <2>1. MFold(Nothing, Add(body, Total)) = AggregateSSE(MFold(Nothing, body), Total)
    BY <1>1, <1>3, MAdd
  <2>2. MFold(Nothing, Events) = AggregateSSE(MFold(Nothing, Add(body, Total)), Stop)
    BY <1>1, <1>3, MAdd
  <2>3. AggregateSSE(Acc(MTexts(n), 1 .. n, 1), Total) = Acc(MTexts(n), 1 .. n, Tokens)
    BY DEF AggregateSSE, Total, Event, Acc
  <2>4. AggregateSSE(Acc(MTexts(n), 1 .. n, Tokens), Stop) = Acc(MTexts(n), 1 .. n, Tokens)
    BY DEF AggregateSSE, Stop, Event, Acc
  <2> QED
    BY <1>6, <2>1, <2>2, <2>3, <2>4, Zenon
<1> DEFINE acc == Acc(MTexts(n), 1 .. n, Tokens)
<1>8. /\ Aggregate(Events).content = Content(acc.texts, acc.blocks \cup Recovered(acc))
      /\ Aggregate(Events).usage = acc.usage
  BY <1>7, AggregateIs
<1>9. acc.texts = MTexts(n) /\ acc.blocks = 1 .. n /\ acc.usage = Tokens /\ Recovered(acc) = {}
  BY DEF Acc, Recovered
<1>10. Content(MTexts(n), 1 .. n) = MeantOf(Kept)
  <2>1. \A i \in DOMAIN answer : i \in 1 .. n <=> i \in Kept
    BY <1>0, IndicesType DEF Kept, Counts
  <2>2. \A i \in DOMAIN answer \cap (1 .. n) : MTexts(n)[i] = answer[i].text
    BY <1>0, MTextsType, StreamAssumption
  <2> QED
    BY <2>1, <2>2, ContentIs
<1> QED
  BY <1>8, <1>9, <1>10, MeantIs

LEMMA REmpty == \A b : RFold(b, <<>>) = b
BY RFoldIs, R!FoldEmpty, Zenon

LEMMA ROne == \A b, x : RFold(b, <<x>>) = AggregateResponsesSSE(b, x)
BY RFoldIs, R!FoldOne, Zenon

LEMMA RAdd ==
  ASSUME NEW w \in Seq(EventSet), NEW x \in EventSet, NEW b
  PROVE  RFold(b, Add(w, x)) = AggregateResponsesSSE(RFold(b, w), x)
<1>1. R!Fold(b, R!Add(w, x)) = AggregateResponsesSSE(R!Fold(b, w), x)
  BY R!FoldAdd
<1> QED
  BY <1>1, RFoldIs, Zenon

LEMMA RCat ==
  ASSUME NEW u \in Seq(EventSet), NEW w \in Seq(EventSet), NEW b
  PROVE  RFold(b, Cat(u, w)) = RFold(RFold(b, u), w)
<1>1. R!Fold(b, R!Cat(u, w)) = R!Fold(R!Fold(b, u), w)
  BY R!FoldCat
<1> QED
  BY <1>1, RFoldIs, Zenon

(* A block's deltas are one, or two, and together its text.                *)
LEMMA RDeltas ==
  ASSUME AnswerType, NEW i \in DOMAIN answer, NEW t \in Texts, NEW B, NEW n, t[i] = <<>>
  PROVE  RFold(Acc(t, B, n), Deltas(i, answer[i]))
           = Acc(IF answer[i].type = "text" THEN [t EXCEPT ![i] = answer[i].text] ELSE t, B, n)
<1>1. ASSUME NEW u \in Texts, NEW piece \in Piece
      PROVE  AggregateResponsesSSE(Acc(u, B, n), Delta(i, piece))
               = Acc(IF answer[i].type = "text" THEN [u EXCEPT ![i] = u[i] \o <<piece>>] ELSE u, B, n)
  BY DEF AggregateResponsesSSE, Acc, Delta, Event
<1>2. i \in 1 .. MaxBlocks /\ (answer[i].text = Whole \/ answer[i].text = <<"ws">>)
  BY BlockFacts
<1>3. <<>> \in Seq(EventSet) /\ \A piece \in Piece : Delta(i, piece) \in EventSet
  BY DeltasType
<1>4. \A x \in EventSet : RFold(Acc(t, B, n), Add(<<>>, x)) = AggregateResponsesSSE(Acc(t, B, n), x)
  <2> SUFFICES ASSUME NEW x \in EventSet
               PROVE  RFold(Acc(t, B, n), Add(<<>>, x)) = AggregateResponsesSSE(Acc(t, B, n), x)
    OBVIOUS
  <2>1. RFold(Acc(t, B, n), Add(<<>>, x)) = AggregateResponsesSSE(RFold(Acc(t, B, n), <<>>), x)
    BY <1>3, RAdd
  <2> QED
    BY <2>1, REmpty, Zenon
<1>5. CASE answer[i].text = <<"ws">>
  <2>1. "ws" \in Piece /\ <<>> \o <<"ws">> = <<"ws">>
    BY DEF Piece
  <2>2. RFold(Acc(t, B, n), Deltas(i, answer[i])) = AggregateResponsesSSE(Acc(t, B, n), Delta(i, "ws"))
    BY <1>3, <1>4, <1>5, <2>1, DeltasAre
  <2>3. AggregateResponsesSSE(Acc(t, B, n), Delta(i, "ws"))
          = Acc(IF answer[i].type = "text" THEN [t EXCEPT ![i] = t[i] \o <<"ws">>] ELSE t, B, n)
    BY <1>1, <2>1
  <2> QED
    BY <1>5, <2>1, <2>2, <2>3, Zenon
<1>6. CASE answer[i].text = Whole
  <2> DEFINE one == RFold(Acc(t, B, n), Add(<<>>, Delta(i, "a")))
             p == <<"a">>
             whole == Whole
  <2>1. /\ "a" \in Piece /\ "b" \in Piece /\ p \in Seq(Piece) /\ whole \in Seq(Piece)
        /\ <<>> \o <<"a">> = p /\ p \o <<"b">> = whole
    <3>1. "a" \in Piece /\ "b" \in Piece
      BY DEF Piece
    <3>2. <<>> \o <<"a">> = <<"a">>
      OBVIOUS
    <3>3. <<"a">> \o <<"b">> = Whole
      <4>1. <<"a">> \in Seq({"a", "b"}) /\ "b" \in {"a", "b"}
        OBVIOUS
      <4>2. Cat(<<"a">>, <<"b">>) = Add(<<"a">>, "b")
        BY <4>1, AddIsCat
      <4>3. Add(<<"a">>, "b") = <<"a", "b">>
        BY OneIsAdd, TwoIsAdd, Zenon
      <4> QED
        BY <4>2, <4>3, Zenon DEF Whole, Cat
    <3>4. p \in Seq(Piece) /\ whole \in Seq(Piece)
      BY <3>1, WholeType
    <3> QED
      BY <3>1, <3>2, <3>3, <3>4, Zenon
  <2>2. Deltas(i, answer[i]) = Add(Add(<<>>, Delta(i, "a")), Delta(i, "b"))
    BY <1>6, DeltasAre
  <2>3. Add(<<>>, Delta(i, "a")) \in Seq(EventSet) /\ Delta(i, "a") \in EventSet /\ Delta(i, "b") \in EventSet
    BY <1>3, <2>1, AddType
  <2>4. RFold(Acc(t, B, n), Deltas(i, answer[i])) = AggregateResponsesSSE(one, Delta(i, "b"))
    BY <2>2, <2>3, RAdd
  <2>5. one = Acc(IF answer[i].type = "text" THEN [t EXCEPT ![i] = t[i] \o <<"a">>] ELSE t, B, n)
    BY <1>1, <1>4, <2>1, <2>3, Zenon
  <2>6. one = Acc(IF answer[i].type = "text" THEN [t EXCEPT ![i] = p] ELSE t, B, n)
    BY <2>1, <2>5, Zenon
  <2> HIDE DEF p, one, whole
  <2>7. CASE answer[i].type = "text"
    <3> DEFINE u == [t EXCEPT ![i] = p]
    <3>1. u \in Texts /\ u[i] = p
      BY <1>2, <2>1, Updated DEF Texts
    <3>2. [u EXCEPT ![i] = whole] = [t EXCEPT ![i] = whole]
      BY <1>2, <2>1, UpdatedTwice DEF Texts
    <3>3. one = Acc(u, B, n)
      BY <2>6, <2>7
    <3> HIDE DEF u
    <3>4. AggregateResponsesSSE(Acc(u, B, n), Delta(i, "b")) = Acc([u EXCEPT ![i] = u[i] \o <<"b">>], B, n)
      BY <1>1, <2>1, <2>7, <3>1
    <3>5. RFold(Acc(t, B, n), Deltas(i, answer[i])) = Acc([t EXCEPT ![i] = whole], B, n)
      BY <2>1, <2>4, <3>1, <3>2, <3>3, <3>4, Zenon
    <3> QED
      BY <1>6, <2>7, <3>5 DEF whole
  <2>8. CASE answer[i].type # "text"
    <3>1. one = Acc(t, B, n)
      BY <2>6, <2>8
    <3>2. AggregateResponsesSSE(Acc(t, B, n), Delta(i, "b")) = Acc(t, B, n)
      BY <1>1, <2>1, <2>8
    <3> QED
      BY <2>4, <2>8, <3>1, <3>2
  <2> QED
    BY <2>7, <2>8
<1> QED
  BY <1>2, <1>5, <1>6

(* The completed item of a block, if any, makes it.                        *)
Made(i) == answer[i].done = "full" /\ answer[i].type # "thinking"

Held(a, i, piece) == [a EXCEPT !.texts[i] = piece, !.blocks = @ \cup {i}]

LEMMA Holding ==
  ASSUME NEW t, NEW B, NEW n, NEW i, NEW piece, NEW a, a = Acc(t, B, n)
  PROVE  Held(a, i, piece) = Acc([t EXCEPT ![i] = piece], B \cup {i}, n)
<1> DEFINE C == B \cup {i}
           u == [t EXCEPT ![i] = piece]
<1>1. a.texts = t /\ a.blocks = B
  BY DEF Acc
<1>2. [a EXCEPT !.texts = u] = Acc(u, B, n)
  <2> HIDE DEF u
  <2> QED
    BY DEF Acc
<1>3. [Acc(u, B, n) EXCEPT !.blocks = C] = Acc(u, C, n)
  <2> HIDE DEF u, C
  <2> QED
    BY DEF Acc
<1>4. [a EXCEPT !.texts = u, !.blocks = C] = [[a EXCEPT !.texts = u] EXCEPT !.blocks = C]
  <2> HIDE DEF u, C
  <2> QED OBVIOUS
<1>5. Held(a, i, piece) = [a EXCEPT !.texts = u, !.blocks = C]
  BY <1>1 DEF Held
<1> QED
  BY <1>2, <1>3, <1>4, <1>5, Zenon

LEMMA REnding ==
  ASSUME AnswerType, NEW i \in DOMAIN answer, NEW t \in Texts, NEW B, NEW n
  PROVE  RFold(Acc(t, B, n), Ending(i, answer[i]))
           = IF Made(i) THEN Acc([t EXCEPT ![i] = answer[i].text], B \cup {i}, n) ELSE Acc(t, B, n)
<1> DEFINE full == Event("done", i, answer[i].text)
           empty == Event("done", i, <<>>)
           a == Acc(t, B, n)
<1>1. answer[i].done = "full" => RFold(a, Ending(i, answer[i])) = AggregateResponsesSSE(a, full)
  BY ROne, Zenon DEF Ending
<1>2. answer[i].done = "empty" => RFold(a, Ending(i, answer[i])) = AggregateResponsesSSE(a, empty)
  <2>1. answer[i].done = "empty" => Ending(i, answer[i]) = <<empty>>
    BY DEF Ending
  <2> QED
    BY <2>1, ROne, Zenon
<1>3. answer[i].done = "omitted" => RFold(a, Ending(i, answer[i])) = a
  <2>1. answer[i].done = "omitted" => Ending(i, answer[i]) = <<>>
    BY DEF Ending
  <2> QED
    BY <2>1, REmpty, Zenon
<1>4. /\ answer[i].done \in {"full", "empty", "omitted"} /\ answer[i].text # <<>>
      /\ answer[i].type \in {"text", "thinking", "tool_use"}
  BY BlockFacts
<1>5. AggregateResponsesSSE(a, empty) = a
  BY DEF AggregateResponsesSSE, Event, Acc
<1>6. AggregateResponsesSSE(a, full)
        = IF answer[i].type = "thinking" THEN a ELSE Acc([t EXCEPT ![i] = answer[i].text], B \cup {i}, n)
  <2>1. full.type = "done" /\ full.index = i /\ full.piece = answer[i].text
    BY DEF Event
  <2>2. full.piece # <<>>
    BY <1>4, <2>1
  <2> HIDE DEF full
  <2>3. CASE answer[i].type = "thinking"
    BY <2>1, <2>3 DEF AggregateResponsesSSE
  <2>4. CASE answer[i].type # "thinking"
    <3>1. AggregateResponsesSSE(a, full) = Held(a, full.index, full.piece)
      <4> HIDE DEF a
      <4>1. full.type = "done" /\ answer[full.index].type \in {"text", "tool_use"} /\ full.piece # <<>>
        BY <1>4, <2>1, <2>2, <2>4
      <4>2. ~(full.type = "delta" /\ answer[full.index].type = "text")
        BY <2>1
      <4> QED
        BY <4>1, <4>2, Zenon DEF AggregateResponsesSSE, Held
    <3> DEFINE piece == full.piece
    <3>2. piece = answer[i].text
      BY <2>1
    <3> HIDE DEF piece
    <3>3. Held(a, i, piece) = Acc([t EXCEPT ![i] = piece], B \cup {i}, n)
      <4>1. a = Acc(t, B, n)
        BY DEF a
      <4> QED
        BY <4>1, Holding
    <3>4. AggregateResponsesSSE(a, full) = Acc([t EXCEPT ![i] = piece], B \cup {i}, n)
      BY <2>1, <3>1, <3>3, Zenon DEF piece
    <3> QED
      BY <2>4, <3>2, <3>4
  <2> QED
    BY <2>3, <2>4
<1> HIDE DEF a, full, empty
<1>7. RFold(a, Ending(i, answer[i]))
        = IF Made(i) THEN Acc([t EXCEPT ![i] = answer[i].text], B \cup {i}, n) ELSE a
  BY <1>1, <1>2, <1>3, <1>4, <1>5, <1>6 DEF Made
<1> QED
  BY <1>7, Zenon DEF a

(* What the Responses API client holds after k blocks.                     *)
RTexts(k) == [i \in 1 .. MaxBlocks |-> IF i <= k /\ answer[i].type # "thinking" THEN answer[i].text ELSE <<>>]

RBlocks(k) == {i \in 1 .. k : Made(i)}

LEMMA RTextsType ==
  ASSUME AnswerType, NEW k \in 0 .. Len(answer)
  PROVE  /\ RTexts(k) \in Texts
         /\ \A i \in 1 .. MaxBlocks :
              RTexts(k)[i] = IF i <= k /\ answer[i].type # "thinking" THEN answer[i].text ELSE <<>>
<1>1. \A h \in 1 .. k : h \in DOMAIN answer
  BY DEF AnswerType
<1>2. \A h \in 1 .. k : answer[h].text \in Seq(Piece)
  BY <1>1, BlockFacts
<1>3. \A h \in 1 .. MaxBlocks : h <= k => h \in 1 .. k
  BY StreamAssumption DEF AnswerType
<1>4. \A h \in 1 .. MaxBlocks :
        (IF h <= k /\ answer[h].type # "thinking" THEN answer[h].text ELSE <<>>) \in Seq(Piece)
  BY <1>2, <1>3
<1> QED
  BY <1>4, Zenon DEF RTexts, Texts

LEMMA SameTexts ==
  ASSUME NEW f \in Texts, NEW g \in Texts, \A x \in 1 .. MaxBlocks : f[x] = g[x]
  PROVE  f = g
<1> DEFINE A == Seq(Piece)
           X == 1 .. MaxBlocks
<1>1. f \in [X -> A] /\ g \in [X -> A] /\ \A x \in X : f[x] = g[x]
  BY DEF Texts
<1> HIDE DEF A, X
<1> QED
  BY <1>1

LEMMA RStep ==
  ASSUME AnswerType, NEW j \in Nat, j + 1 <= Len(answer)
  PROVE  RFold(Acc(RTexts(j), RBlocks(j), 0), RParts[j + 1]) = Acc(RTexts(j + 1), RBlocks(j + 1), 0)
<1> DEFINE i == j + 1
           s == RTexts(j)
           t == RTexts(i)
           B == RBlocks(j)
           x == answer[i].text
<1>0. DOMAIN answer = 1 .. Len(answer) /\ Len(answer) \in Nat
  BY DEF AnswerType
<1>1. /\ i \in DOMAIN answer /\ i \in 1 .. MaxBlocks /\ x \in Seq(Piece)
      /\ answer[i].type \in {"text", "thinking", "tool_use"}
      /\ answer[i].type # "text" => answer[i].done = "full"
  BY <1>0, BlockFacts
<1>2. /\ s \in Texts /\ t \in Texts /\ s[i] = <<>>
      /\ t[i] = IF answer[i].type # "thinking" THEN x ELSE <<>>
      /\ \A h \in 1 .. MaxBlocks : h # i => t[h] = s[h]
  <2>1. j \in 0 .. Len(answer) /\ i \in 0 .. Len(answer)
    BY <1>0
  <2>2. /\ s \in Texts /\ t \in Texts
        /\ \A h \in 1 .. MaxBlocks :
             /\ s[h] = IF h <= j /\ answer[h].type # "thinking" THEN answer[h].text ELSE <<>>
             /\ t[h] = IF h <= i /\ answer[h].type # "thinking" THEN answer[h].text ELSE <<>>
    BY <2>1, RTextsType
  <2>3. \A h \in 1 .. MaxBlocks : h # i => (h <= i <=> h <= j)
    BY StreamAssumption
  <2>4. ~(i <= j) /\ i <= i
    OBVIOUS
  <2> QED
    BY <1>1, <2>2, <2>3, <2>4
<1>3. RBlocks(i) = IF Made(i) THEN B \cup {i} ELSE B
  BY DEF RBlocks
<1>4. /\ RParts[i] = Cat(Deltas(i, answer[i]), Ending(i, answer[i]))
      /\ Deltas(i, answer[i]) \in Seq(EventSet) /\ Ending(i, answer[i]) \in Seq(EventSet)
  BY <1>1, ResponsesPartsType, DeltasType
<1> DEFINE u == IF answer[i].type = "text" THEN [s EXCEPT ![i] = x] ELSE s
<1>5. RFold(Acc(s, B, 0), Deltas(i, answer[i])) = Acc(u, B, 0)
  BY <1>1, <1>2, RDeltas
<1>6. u \in Texts
  BY <1>1, <1>2, Updated DEF Texts
<1>7. RFold(Acc(u, B, 0), Ending(i, answer[i]))
        = IF Made(i) THEN Acc([u EXCEPT ![i] = x], B \cup {i}, 0) ELSE Acc(u, B, 0)
  <2> HIDE DEF u, B
  <2> QED
    BY <1>1, <1>6, REnding
<1>8. RFold(Acc(s, B, 0), RParts[i]) = RFold(Acc(u, B, 0), Ending(i, answer[i]))
  BY <1>4, <1>5, RCat
<1> HIDE DEF i, s, t, B, x
<1>9. Made(i) => [u EXCEPT ![i] = x] = t
  <2>1. CASE Made(i) /\ answer[i].type = "text"
    <3>1. [u EXCEPT ![i] = x] = [s EXCEPT ![i] = x]
      BY <1>1, <1>2, <2>1, UpdatedTwice DEF Texts
    <3>2. [s EXCEPT ![i] = x] = t
      BY <1>1, <1>2, <2>1, Updated DEF Texts
    <3> QED
      BY <3>1, <3>2
  <2>2. CASE Made(i) /\ answer[i].type # "text"
    <3>1. [s EXCEPT ![i] = x] = t
      BY <1>1, <1>2, <2>2, Updated DEF Texts, Made
    <3> QED
      BY <2>2, <3>1
  <2> QED
    BY <2>1, <2>2
<1>10. ~Made(i) => u = t
  <2>1. CASE ~Made(i) /\ answer[i].type = "text"
    BY <1>1, <1>2, <2>1, Updated DEF Texts
  <2>2. CASE ~Made(i) /\ answer[i].type # "text"
    <3>1. answer[i].type = "thinking"
      BY <1>1, <2>2 DEF Made
    <3>2. t[i] = s[i]
      BY <1>2, <3>1
    <3>3. s = t
      <4> HIDE DEF u
      <4>1. \A h \in 1 .. MaxBlocks : s[h] = t[h]
        BY <1>2, <3>2
      <4> QED
        BY <1>2, <4>1, SameTexts
    <3> QED
      BY <2>2, <3>3
  <2> QED
    BY <2>1, <2>2
<1>11. RFold(Acc(s, B, 0), RParts[i]) = Acc(t, RBlocks(i), 0)
  <2> HIDE DEF u
  <2>1. CASE Made(i)
    BY <1>3, <1>7, <1>8, <1>9, <2>1
  <2>2. CASE ~Made(i)
    BY <1>3, <1>7, <1>8, <1>10, <2>2
  <2> QED
    BY <2>1, <2>2
<1> QED
  BY <1>11, Zenon DEF i, s, t, B

LEMMA RAfter ==
  ASSUME AnswerType, NEW k \in 0 .. Len(answer)
  PROVE  RFold(Acc(RTexts(0), {}, 0), FlattenSeq(SubSeq(RParts, 1, k))) = Acc(RTexts(k), RBlocks(k), 0)
<1> DEFINE b == Acc(RTexts(0), {}, 0)
           P(j) == RFold(b, FlattenSeq(SubSeq(RParts, 1, j))) = Acc(RTexts(j), RBlocks(j), 0)
           T == {j \in Nat : j <= Len(answer) => P(j)}
<1>0. RParts \in Seq(Seq(EventSet)) /\ Len(RParts) = Len(answer) /\ Len(answer) \in Nat
  BY ResponsesPartsType DEF AnswerType
<1>1. P(0)
  <2>1. SubSeq(RParts, 1, 0) = <<>> /\ RBlocks(0) = {}
    BY <1>0, Prefix DEF RBlocks
  <2> HIDE DEF b
  <2>2. RFold(b, FlattenSeq(SubSeq(RParts, 1, 0))) = b
    BY <2>1, FlattenEmpty, REmpty, Zenon
  <2> QED
    BY <2>1, <2>2, Zenon DEF b
<1>2. ASSUME NEW j \in Nat, j + 1 <= Len(answer), P(j)  PROVE P(j + 1)
  <2> DEFINE i == j + 1
             u == FlattenSeq(SubSeq(RParts, 1, j))
  <2>1. j \in 0 .. Len(RParts) /\ j \in 0 .. (Len(RParts) - 1) /\ i \in 1 .. Len(RParts)
    BY <1>0, <1>2
  <2>2. /\ SubSeq(RParts, 1, j) \in Seq(Seq(EventSet))
        /\ SubSeq(RParts, 1, i) = Add(SubSeq(RParts, 1, j), RParts[i])
    BY <1>0, <2>1, Prefix
  <2>3. u \in Seq(EventSet)
    BY <2>2, FlattenType
  <2>4. RParts[i] \in Seq(EventSet)
    <3> HIDE DEF i
    <3> QED
      BY <1>0, <2>1
  <2>5. FlattenSeq(SubSeq(RParts, 1, i)) = Cat(u, RParts[i])
    BY <2>2, <2>4, FlattenAdd
  <2> HIDE DEF u, b
  <2>6. RFold(b, Cat(u, RParts[i])) = RFold(RFold(b, u), RParts[i])
    BY <2>3, <2>4, RCat
  <2>7. RFold(b, u) = Acc(RTexts(j), RBlocks(j), 0)
    BY <1>2 DEF u
  <2>8. RFold(Acc(RTexts(j), RBlocks(j), 0), RParts[i]) = Acc(RTexts(i), RBlocks(i), 0)
    BY <1>2, RStep
  <2> QED
    BY <2>5, <2>6, <2>7, <2>8, Zenon
<1> HIDE DEF P
<1>3. 0 \in T /\ \A j \in Nat : j \in T => j + 1 \in T
  <2>1. ASSUME NEW j \in Nat, j \in T, j + 1 <= Len(answer)  PROVE P(j)
    BY <1>0, <2>1
  <2> QED
    BY <1>1, <1>2, <2>1
<1> HIDE DEF T
<1>4. k \in Nat /\ k <= Len(answer)
  BY <1>0
<1>5. k \in T
  BY <1>3, <1>4, NatInduct
<1>6. P(k)
  BY <1>4, <1>5 DEF T
<1> QED
  BY <1>6, Zenon DEF P, b

LEMMA ResponsesComplete ==
  ASSUME AnswerType, api = "responses"
  PROVE  Aggregate(Events).content = Meant /\ Aggregate(Events).usage = Tokens
<1> DEFINE n == Len(answer)
           body == FlattenSeq(RParts)
<1>0. /\ n \in Nat /\ n \in 0 .. n /\ DOMAIN answer = 1 .. n /\ n <= MaxBlocks
      /\ RParts \in Seq(Seq(EventSet)) /\ Len(RParts) = n
  BY ResponsesPartsType DEF AnswerType
<1>1. Completed \in EventSet /\ Events = Add(body, Completed) /\ body \in Seq(EventSet)
  BY EventsAre
<1>2. RTexts(0) = [i \in 1 .. MaxBlocks |-> <<>>]
  BY StreamAssumption DEF RTexts
<1>3. RFold(Nothing, body) = Acc(RTexts(n), RBlocks(n), 0)
  <2>1. SubSeq(RParts, 1, n) = RParts
    BY <1>0, Prefix
  <2>2. Nothing = Acc(RTexts(0), {}, 0)
    BY <1>2, Zenon DEF Nothing, Acc
  <2> QED
    BY <1>0, <2>1, <2>2, RAfter
<1>4. RFold(Nothing, Events) = Acc(RTexts(n), RBlocks(n), Tokens)
  <2> HIDE DEF body, n
  <2>1. RFold(Nothing, Events) = AggregateResponsesSSE(RFold(Nothing, body), Completed)
    BY <1>1, RAdd
  <2>2. AggregateResponsesSSE(Acc(RTexts(n), RBlocks(n), 0), Completed) = Acc(RTexts(n), RBlocks(n), 0 + Tokens)
    BY DEF AggregateResponsesSSE, Completed, Event, Acc
  <2>3. 0 + Tokens = Tokens
    BY DEF Tokens, AnswerType
  <2> QED
    BY <1>3, <2>1, <2>2, <2>3, Zenon
<1> DEFINE acc == Acc(RTexts(n), RBlocks(n), Tokens)
           J == RBlocks(n) \cup Recovered(acc)
<1>5. /\ Aggregate(Events).content = Content(acc.texts, acc.blocks \cup Recovered(acc))
      /\ Aggregate(Events).usage = acc.usage
  BY <1>4, AggregateIs
<1>6. acc.texts = RTexts(n) /\ acc.blocks = RBlocks(n) /\ acc.usage = Tokens
  BY DEF Acc
<1>7. Recovered(acc) = {i \in 1 .. MaxBlocks : ~Blank(RTexts(n)[i])} \ RBlocks(n)
  BY <1>6 DEF Recovered
<1>8. ASSUME NEW i \in DOMAIN answer
      PROVE  /\ i \in J <=> i \in Kept
             /\ i \in J => RTexts(n)[i] = answer[i].text
  <2>1. /\ i \in 1 .. n /\ i \in 1 .. MaxBlocks /\ i <= n
        /\ answer[i].type # "text" => answer[i].done = "full"
    BY <1>0, <1>8, BlockFacts
  <2>2. RTexts(n)[i] = IF answer[i].type # "thinking" THEN answer[i].text ELSE <<>>
    BY <1>0, <2>1, RTextsType
  <2>3. i \in Kept <=> Counts(answer[i])
    BY <1>8, IndicesType DEF Kept
  <2>4. Blank(<<>>)
    BY DEF Blank
  <2>5. i \in RBlocks(n) <=> answer[i].done = "full" /\ answer[i].type # "thinking"
    BY <2>1 DEF RBlocks, Made
  <2>6. i \in J <=> (i \in RBlocks(n) \/ ~Blank(RTexts(n)[i]))
    BY <1>7, <2>1
  <2> HIDE DEF J
  <2>7. CASE answer[i].type = "thinking"
    <3>1. Blank(RTexts(n)[i])
      BY <2>2, <2>4, <2>7
    <3> QED
      BY <2>1, <2>3, <2>5, <2>6, <2>7, <3>1 DEF Counts
  <2>8. CASE answer[i].type # "thinking"
    <3>1. RTexts(n)[i] = answer[i].text
      BY <2>2, <2>8
    <3>2. Counts(answer[i]) <=> IF answer[i].done = "full" THEN TRUE ELSE ~Blank(answer[i].text)
      BY <2>8 DEF Counts
    <3> QED
      BY <2>3, <2>5, <2>6, <2>8, <3>1, <3>2
  <2> QED
    BY <2>7, <2>8
<1>9. Content(RTexts(n), J) = MeantOf(Kept)
  <2> HIDE DEF J, n
  <2> QED
    BY <1>8, ContentIs
<1> QED
  BY <1>5, <1>6, <1>9, MeantIs

-----------------------------------------------------------------------------
(* A stream that broke off: what a client holds after any events.          *)
Held0 == [texts : Texts, blocks : SUBSET DOMAIN answer, usage : Nat]

(* A block that is not a text holds nothing until its item has come.       *)
RHeld ==
  {a \in Held0 :
     \A i \in DOMAIN answer :
       /\ i \in a.blocks => Made(i)
       /\ answer[i].type # "text" => a.texts[i] = IF i \in a.blocks THEN answer[i].text ELSE <<>>}

LEMMA EventType ==
  ASSUME AnswerType, NEW e \in EventSet
  PROVE  /\ e.piece \in Seq(Piece) /\ EventOK(e)
         /\ e.type \in {"start", "delta", "done"} => e.index \in DOMAIN answer /\ e.index \in 1 .. MaxBlocks
<1>1. e.piece \in Seq(Piece) /\ EventOK(e)
  BY DEF EventSet
<1>2. e.type \in {"start", "delta", "done"} => e.index \in DOMAIN answer
  BY <1>1 DEF EventOK
<1> QED
  BY <1>1, <1>2, BlockFacts

LEMMA NothingType == AnswerType => Nothing \in Held0 /\ Nothing \in RHeld
<1> SUFFICES ASSUME AnswerType  PROVE Nothing \in Held0 /\ Nothing \in RHeld
  OBVIOUS
<1> DEFINE t == [i \in 1 .. MaxBlocks |-> <<>>]
<1>1. t \in Texts
  BY DEF Texts
<1>2. \A i \in DOMAIN answer : t[i] = <<>>
  BY BlockFacts
<1>3. Nothing = [texts |-> t, blocks |-> {}, usage |-> 0]
  BY Zenon DEF Nothing
<1> HIDE DEF t
<1>4. Nothing \in Held0 /\ Nothing.texts = t /\ Nothing.blocks = {}
  BY <1>1, <1>3 DEF Held0
<1> QED
  BY <1>2, <1>4 DEF RHeld

LEMMA MStepType ==
  ASSUME AnswerType, NEW a \in Held0, NEW e \in EventSet
  PROVE  AggregateSSE(a, e) \in Held0
<1> DEFINE i == e.index
           p == e.piece
<1>0. /\ a.texts \in Texts /\ a.blocks \in SUBSET DOMAIN answer /\ a.usage \in Nat
      /\ a = Acc(a.texts, a.blocks, a.usage)
  BY DEF Held0, Acc
<1>1. /\ p \in Seq(Piece) /\ <<>> \in Seq(Piece)
      /\ e.type \in {"start", "delta"} => i \in DOMAIN answer /\ i \in 1 .. MaxBlocks
  BY EventType
<1>2. Tokens \in Nat
  BY DEF Tokens, AnswerType
<1>3. CASE e.type = "message_start"
  BY <1>0, <1>3 DEF AggregateSSE, Held0
<1>4. CASE e.type = "start"
  <2> DEFINE u == [a.texts EXCEPT ![i] = <<>>]
  <2>1. u \in Texts
    BY <1>0, <1>1, <1>4, Updated DEF Texts
  <2>2. AggregateSSE(a, e) = [a EXCEPT !.texts = u, !.blocks = a.blocks \cup {i}]
    BY <1>4 DEF AggregateSSE
  <2> HIDE DEF u
  <2>3. i \in DOMAIN answer
    BY <1>1, <1>4
  <2> QED
    BY <1>0, <2>1, <2>2, <2>3 DEF Held0
<1>5. CASE e.type = "delta"
  <2> DEFINE q == a.texts[i] \o p
             u == [a.texts EXCEPT ![i] = q]
  <2>1. a.texts[i] \in Seq(Piece)
    BY <1>0, <1>1, <1>5 DEF Texts
  <2>2. q \in Seq(Piece)
    BY <1>1, <2>1
  <2>3. AggregateSSE(a, e) = [a EXCEPT !.texts = u]
    BY <1>5 DEF AggregateSSE
  <2> HIDE DEF q
  <2>4. u \in Texts
    BY <1>0, <1>1, <1>5, <2>2, Updated DEF Texts
  <2> HIDE DEF u
  <2> QED
    BY <1>0, <2>3, <2>4 DEF Held0
<1>6. CASE e.type = "message_delta"
  BY <1>0, <1>2, <1>6 DEF AggregateSSE, Held0
<1>7. CASE e.type \notin {"message_start", "start", "delta", "message_delta"}
  BY <1>7 DEF AggregateSSE
<1> QED
  BY <1>3, <1>4, <1>5, <1>6, <1>7

LEMMA RStepType ==
  ASSUME AnswerType, NEW a \in RHeld, NEW e \in EventSet
  PROVE  AggregateResponsesSSE(a, e) \in RHeld
<1> DEFINE i == e.index
           p == e.piece
<1>0. /\ a \in Held0 /\ a.texts \in Texts /\ a.blocks \in SUBSET DOMAIN answer /\ a.usage \in Nat
      /\ \A h \in DOMAIN answer :
           /\ h \in a.blocks => Made(h)
           /\ answer[h].type # "text" => a.texts[h] = IF h \in a.blocks THEN answer[h].text ELSE <<>>
  BY DEF RHeld, Held0
<1>1. /\ p \in Seq(Piece) /\ <<>> \in Seq(Piece) /\ EventOK(e)
      /\ e.type \in {"start", "delta", "done"} => i \in DOMAIN answer /\ i \in 1 .. MaxBlocks
  BY EventType
<1>2. Tokens \in Nat
  BY DEF Tokens, AnswerType
<1>b. \A h \in DOMAIN answer : h \in 1 .. MaxBlocks
  BY BlockFacts
<1>3. CASE e.type = "delta" /\ answer[i].type = "text"
  <2> DEFINE q == a.texts[i] \o p
             u == [a.texts EXCEPT ![i] = q]
  <2>1. a.texts[i] \in Seq(Piece)
    BY <1>0, <1>1, <1>3 DEF Texts
  <2>2. q \in Seq(Piece)
    BY <1>1, <2>1
  <2>3. AggregateResponsesSSE(a, e) = [a EXCEPT !.texts = u]
    BY <1>3 DEF AggregateResponsesSSE
  <2> HIDE DEF q
  <2>4. u \in Texts /\ \A h \in 1 .. MaxBlocks : h # i => u[h] = a.texts[h]
    BY <1>0, <1>1, <1>3, <2>2, Updated DEF Texts
  <2> HIDE DEF u
  <2>5. AggregateResponsesSSE(a, e) \in Held0
    BY <1>0, <2>3, <2>4 DEF Held0
  <2>6. AggregateResponsesSSE(a, e).texts = u /\ AggregateResponsesSSE(a, e).blocks = a.blocks
    BY <1>0, <2>3 DEF Held0
  <2>7. \A h \in DOMAIN answer : answer[h].type # "text" => u[h] = a.texts[h]
    BY <1>3, <1>b, <2>4
  <2> QED
    BY <1>0, <2>5, <2>6, <2>7 DEF RHeld
<1>4. CASE e.type = "done" /\ answer[i].type \in {"text", "tool_use"} /\ p # <<>>
  <2> DEFINE u == [a.texts EXCEPT ![i] = p]
             B == a.blocks \cup {i}
  <2>0. p = answer[i].text /\ Made(i) /\ i \in DOMAIN answer /\ i \in 1 .. MaxBlocks
    BY <1>1, <1>4 DEF EventOK, Made
  <2>3. AggregateResponsesSSE(a, e) = [a EXCEPT !.texts = u, !.blocks = B]
    <3>1. AggregateResponsesSSE(a, e) = Held(a, i, p)
      BY <1>4, Zenon DEF AggregateResponsesSSE, Held
    <3>2. Held(a, i, p) = [a EXCEPT !.texts = u, !.blocks = B]
      BY <1>0 DEF Held, Held0
    <3> QED
      BY <3>1, <3>2, Zenon
  <2> HIDE DEF p
  <2>4. u \in Texts /\ u[i] = p /\ \A h \in 1 .. MaxBlocks : h # i => u[h] = a.texts[h]
    <3>1. a.texts \in Texts /\ p \in Seq(Piece) /\ i \in 1 .. MaxBlocks
      BY <1>0, <1>1, <2>0
    <3> HIDE DEF i
    <3> QED
      BY <3>1, Updated DEF Texts
  <2>b. B \in SUBSET DOMAIN answer
    BY <1>0, <2>0
  <2> HIDE DEF u
  <2>5. AggregateResponsesSSE(a, e) \in Held0
    BY <1>0, <2>3, <2>4, <2>b DEF Held0
  <2>6. AggregateResponsesSSE(a, e).texts = u /\ AggregateResponsesSSE(a, e).blocks = B
    BY <1>0, <2>3 DEF Held0
  <2>7. ASSUME NEW h \in DOMAIN answer
        PROVE  /\ h \in B => Made(h)
               /\ answer[h].type # "text" => u[h] = IF h \in B THEN answer[h].text ELSE <<>>
    BY <1>0, <1>b, <2>0, <2>4
  <2> QED
    BY <2>5, <2>6, <2>7 DEF RHeld
<1>5. CASE e.type = "completed"
  <2>1. AggregateResponsesSSE(a, e) = [a EXCEPT !.usage = a.usage + Tokens]
    BY <1>5 DEF AggregateResponsesSSE
  <2>2. [a EXCEPT !.usage = a.usage + Tokens] \in Held0
    BY <1>0, <1>2 DEF Held0
  <2>3. /\ [a EXCEPT !.usage = a.usage + Tokens].texts = a.texts
        /\ [a EXCEPT !.usage = a.usage + Tokens].blocks = a.blocks
    BY <1>0 DEF Held0
  <2> QED
    BY <1>0, <2>1, <2>2, <2>3 DEF RHeld
<1>6. CASE /\ ~(e.type = "delta" /\ answer[i].type = "text")
           /\ ~(e.type = "done" /\ answer[i].type \in {"text", "tool_use"} /\ p # <<>>)
           /\ e.type # "completed"
  <2>1. AggregateResponsesSSE(a, e) = a
    BY <1>6, Zenon DEF AggregateResponsesSSE
  <2> QED
    BY <2>1
<1> QED
  BY <1>3, <1>4, <1>5, <1>6

LEMMA FoldsType ==
  ASSUME AnswerType, NEW w \in Seq(EventSet)
  PROVE  MFold(Nothing, w) \in Held0 /\ RFold(Nothing, w) \in RHeld
<1>1. M!Fold(Nothing, w) \in Held0
  BY NothingType, MStepType, M!FoldType
<1>2. R!Fold(Nothing, w) \in RHeld
  BY NothingType, RStepType, R!FoldType
<1> QED
  BY <1>1, <1>2, MFoldIs, RFoldIs

LEMMA BlockOfType ==
  ASSUME AnswerType, NEW i \in DOMAIN answer, NEW t \in Seq(Piece)
  PROVE  BlockOf(answer[i].type, t, i) \in Block /\ BlockOf(answer[i].type, t, i).type = answer[i].type
<1>1. i \in Nat /\ answer[i].type \in {"text", "thinking", "tool_use"}
  BY BlockFacts
<1>2. Id(i) \in Nat
  BY <1>1, StreamAssumption DEF Id, AnswerType
<1>3. Input(t) \in Seq(Piece)
  <2>1. Whole \in Seq(Piece) /\ <<>> \in Seq(Piece)
    BY WholeType
  <2> QED
    BY <2>1 DEF Input
<1>4. CASE answer[i].type = "tool_use"
  BY <1>2, <1>3, <1>4 DEF BlockOf, ToolUse, Block, BlockType
<1>5. CASE answer[i].type # "tool_use"
  BY <1>1, <1>5 DEF BlockOf, Block, BlockType
<1> QED
  BY <1>4, <1>5

LEMMA ContentType ==
  ASSUME AnswerType, NEW texts \in Texts, NEW J
  PROVE  /\ Content(texts, J) \in Seq(Block)
         /\ DOMAIN Content(texts, J) = DOMAIN Only(Indices, J)
         /\ \A k \in DOMAIN Content(texts, J) :
              /\ Only(Indices, J)[k] \in DOMAIN answer \cap J
              /\ Content(texts, J)[k] =
                   BlockOf(answer[Only(Indices, J)[k]].type, texts[Only(Indices, J)[k]], Only(Indices, J)[k])
<1> DEFINE u == Only(Indices, J)
           c == [k \in DOMAIN u |-> BlockOf(answer[u[k]].type, texts[u[k]], u[k])]
<1>1. u \in Seq(DOMAIN answer \cap J)
  BY IndicesType, OnlyType
<1>2. Content(texts, J) = c
  BY Zenon DEF Content
<1> HIDE DEF u
<1>3. \A k \in DOMAIN u : u[k] \in DOMAIN answer \cap J
  BY <1>1
<1>4. \A i \in DOMAIN answer : texts[i] \in Seq(Piece)
  BY BlockFacts DEF Texts
<1>5. \A k \in DOMAIN u : BlockOf(answer[u[k]].type, texts[u[k]], u[k]) \in Block
  BY <1>3, <1>4, BlockOfType
<1>6. c \in Seq(Block) /\ DOMAIN c = DOMAIN u
  BY <1>1, <1>5
<1>7. \A k \in DOMAIN u : c[k] = BlockOf(answer[u[k]].type, texts[u[k]], u[k])
  BY Zenon
<1> HIDE DEF c
<1> QED
  BY <1>2, <1>3, <1>6, <1>7 DEF u

LEMMA AggregateType ==
  ASSUME AnswerType, NEW w \in Seq(EventSet)
  PROVE  Aggregate(w).content \in Seq(Block) /\ Aggregate(w).usage \in Nat
<1> DEFINE acc == IF api = "anthropic" THEN MFold(Nothing, w) ELSE RFold(Nothing, w)
<1>1. acc \in Held0
  BY FoldsType DEF RHeld
<1>2. /\ Aggregate(w).content = Content(acc.texts, acc.blocks \cup Recovered(acc))
      /\ Aggregate(w).usage = acc.usage
  BY AggregateIs
<1> HIDE DEF acc
<1>3. acc.texts \in Texts /\ acc.usage \in Nat
  BY <1>1 DEF Held0
<1> QED
  BY <1>2, <1>3, ContentType

(* However much of an answer has come, its calls are calls that were meant.*)
LEMMA CallsWhole ==
  ASSUME AnswerType, api = "responses", NEW w \in Seq(EventSet),
         NEW m, m.content = Aggregate(w).content
  PROVE  Range(ToolUses(m)) \subseteq Range(Meant)
<1> DEFINE acc == RFold(Nothing, w)
           t == acc.texts
           J == acc.blocks \cup Recovered(acc)
           c == Content(t, J)
           u == Only(Indices, J)
           v == Only(Indices, Kept)
<1>1. acc \in RHeld
  BY FoldsType
<1>2. m.content = c
  BY AggregateIs
<1> HIDE DEF acc
<1>3. /\ acc.texts \in Texts /\ acc.blocks \in SUBSET DOMAIN answer
      /\ \A i \in DOMAIN answer :
           /\ i \in acc.blocks => Made(i)
           /\ answer[i].type # "text" => t[i] = IF i \in acc.blocks THEN answer[i].text ELSE <<>>
  BY <1>1 DEF RHeld, Held0
<1>4. /\ c \in Seq(Block) /\ DOMAIN c = DOMAIN u
      /\ \A k \in DOMAIN c : u[k] \in DOMAIN answer \cap J /\ c[k] = BlockOf(answer[u[k]].type, t[u[k]], u[k])
  BY <1>3, ContentType
<1>5. Range(ToolUses(m)) \subseteq {b \in Range(c) : b.type = "tool_use"}
  <2>1. ToolUses(m) = Only(c, {b \in Range(c) : b.type = "tool_use"})
    BY <1>2, Zenon DEF ToolUses, Select
  <2> HIDE DEF c
  <2>2. Range(Only(c, {b \in Range(c) : b.type = "tool_use"})) = Range(c) \cap {b \in Range(c) : b.type = "tool_use"}
    BY <1>4, OnlyRange
  <2> QED
    BY <2>1, <2>2
<1>6. \A i \in Kept : \E k \in DOMAIN v : v[k] = i
  <2>1. Range(v) = Range(Indices) \cap Kept
    BY IndicesType, OnlyRange
  <2> HIDE DEF v
  <2>2. Kept \subseteq Range(Indices)
    BY DEF Kept
  <2> QED
    BY <2>1, <2>2 DEF Range
<1>7. Meant = [k \in DOMAIN v |-> BlockOf(answer[v[k]].type, answer[v[k]].text, v[k])]
  BY MeantIs, Zenon DEF MeantOf
<1> HIDE DEF v, u, c
<1>8. SUFFICES ASSUME NEW k \in DOMAIN c, c[k].type = "tool_use"  PROVE c[k] \in Range(Meant)
  BY <1>5 DEF Range
<1> DEFINE i == u[k]
<1>9. i \in DOMAIN answer /\ i \in J /\ c[k] = BlockOf(answer[i].type, t[i], i)
  BY <1>4
<1> HIDE DEF i
<1>10. answer[i].type = "tool_use"
  <2>1. t[i] \in Seq(Piece)
    BY <1>3, <1>9, BlockFacts DEF Texts
  <2> QED
    BY <1>8, <1>9, <2>1, BlockOfType
<1>11. i \in acc.blocks
  <2>1. Blank(<<>>)
    BY DEF Blank
  <2>2. i \in Recovered(acc) => ~Blank(t[i])
    BY DEF Recovered
  <2>3. i \notin acc.blocks => Blank(t[i])
    BY <1>3, <1>9, <1>10, <2>1
  <2> QED
    BY <1>9, <2>2, <2>3
<1>12. t[i] = answer[i].text /\ Made(i)
  BY <1>3, <1>9, <1>10, <1>11
<1>13. i \in Kept
  BY <1>9, <1>12, IndicesType DEF Kept, Counts, Made
<1>14. PICK h \in DOMAIN v : v[h] = i
  BY <1>6, <1>13
<1>15. Meant[h] = BlockOf(answer[i].type, answer[i].text, i) /\ h \in DOMAIN Meant
  BY <1>7, <1>14
<1> QED
  BY <1>9, <1>12, <1>15 DEF Range

-----------------------------------------------------------------------------
(* The state of a conversation.                                            *)
StreamInv ==
  /\ AnswerType
  /\ arrived \in 0 .. Len(Events)
  /\ pc \in {"sending", "waiting"} => arrived = 0
  /\ history \in Seq(Message) /\ Len(history) >= 1
  /\ AnswerFaithful

LEMMA Said ==
  ASSUME NEW h \in Seq(Message), NEW m \in Message
  PROVE  /\ Add(h, m) \in Seq(Message) /\ Len(Add(h, m)) = Len(h) + 1 /\ Len(Add(h, m)) >= 1
         /\ Last(Add(h, m)) = m
<1>1. Add(h, m) \in Seq(Message) /\ Len(Add(h, m)) = Len(h) + 1 /\ Add(h, m)[Len(h) + 1] = m
  BY AddType
<1>2. Len(h) \in Nat
  OBVIOUS
<1> QED
  BY <1>1, <1>2 DEF Last

LEMMA LastType ==
  ASSUME NEW h \in Seq(Message), Len(h) >= 1
  PROVE  Last(h) \in Message
<1>1. Len(h) \in 1 .. Len(h)
  OBVIOUS
<1> QED
  BY <1>1, ElementOfSeq DEF Last

LEMMA TwoSaid ==
  ASSUME NEW h \in Seq(Message), NEW x \in Message, NEW y \in Message
  PROVE  h \o <<x, y>> = Add(Add(h, x), y)
BY DEF Add

LEMMA UserText ==
  ASSUME NEW t \in Seq(Piece)
  PROVE  NewUserText(t) \in Message
<1>1. Text(t) \in Block
  BY DEF Text, Block, BlockType
<1>2. <<Text(t)>> \in Seq(Block)
  BY <1>1
<1> QED
  BY <1>2 DEF NewUserText, Message, Role

LEMMA Words == <<"prompt">> \in Seq(Piece) /\ <<"nudge">> \in Seq(Piece) /\ <<"reminder">> \in Seq(Piece) /\ <<"r">> \in Seq(Piece)
BY DEF Piece

Results(m) ==
  LET uses == ToolUses(m)
  IN  [role |-> "user", content |-> [k \in DOMAIN uses |-> ToolResult(uses[k].id)]]

LEMMA UsesType ==
  ASSUME NEW m \in Message
  PROVE  /\ ToolUses(m) \in Seq(Block)
         /\ Results(m) \in Message
<1>1. m.content \in Seq(Block)
  BY DEF Message
<1> DEFINE uses == ToolUses(m)
           results == [k \in DOMAIN uses |-> ToolResult(uses[k].id)]
<1>2. uses \in Seq(Block)
  BY <1>1, OnlySeq, Zenon DEF ToolUses, Select
<1> HIDE DEF uses
<1>3. \A k \in DOMAIN uses : uses[k].id \in Nat
  <2>1. \A k \in DOMAIN uses : uses[k] \in Block
    BY <1>2
  <2> QED
    BY <2>1 DEF Block
<1>4. \A n \in Nat : ToolResult(n) \in Block
  BY Words DEF ToolResult, Block, BlockType
<1>5. results \in Seq(Block)
  BY <1>2, <1>3, <1>4
<1>6. Results(m) = [role |-> "user", content |-> results]
  BY Zenon DEF Results, uses
<1> HIDE DEF results
<1> QED
  BY <1>2, <1>5, <1>6 DEF uses, Message, Role

LEMMA StreamInit == Init => StreamInv
<1> SUFFICES ASSUME Init  PROVE StreamInv
  OBVIOUS
<1>1. AnswerType
  BY StreamAssumption DEF Init, AnswerType
<1>2. arrived = 0 /\ Len(Events) \in Nat
  BY <1>1, EventsAre DEF Init
<1>3. history \in Seq(Message) /\ Len(history) >= 1
  <2>1. history = <<NewUserText(<<"prompt">>)>> /\ NewUserText(<<"prompt">>) \in Message
    BY Words, UserText DEF Init
  <2> DEFINE m == NewUserText(<<"prompt">>)
  <2>2. history = <<m>> /\ m \in Message
    BY <2>1
  <2> HIDE DEF m
  <2> QED
    BY <2>2
<1>4. pc = "ready" /\ AnswerFaithful
  BY DEF Init, AnswerFaithful
<1> QED
  BY <1>1, <1>2, <1>3, <1>4 DEF StreamInv

LEMMA Same ==
  ASSUME AnswerType, UNCHANGED <<api, calls, answer, arrived>>
  PROVE  AnswerType' /\ Events' = Events /\ arrived' = arrived
BY DEF AnswerType, AnswerBlock, Events

LEMMA SameMeant ==
  /\ Meant = MeantOf(Kept)
  /\ UNCHANGED <<api, calls, answer>> => Meant' = Meant /\ Tokens' = Tokens
<1>1. Meant = MeantOf(Kept)
  BY MeantIs
<1>2. (Meant = MeantOf(Kept))'
  BY <1>1, PTL
<1>3. ASSUME UNCHANGED <<api, calls, answer>>  PROVE Meant' = Meant /\ Tokens' = Tokens
  <2>1. Indices' = Indices /\ Tokens' = Tokens
    BY <1>3 DEF Indices, Tokens
  <2>2. \A b : Counts(b)' <=> Counts(b)
    BY <1>3 DEF Counts
  <2>3. Kept' = Kept
    BY <1>3, <2>1, <2>2 DEF Kept
  <2>4. \A t, x, i : BlockOf(t, x, i)' = BlockOf(t, x, i)
    BY <1>3 DEF BlockOf, Id
  <2>5. MeantOf(Kept)' = MeantOf(Kept)
    BY <1>3, <2>1, <2>3, <2>4 DEF MeantOf
  <2> QED
    BY <1>1, <1>2, <2>1, <2>5
<1> QED
  BY <1>1, <1>3

LEMMA AnswerEnds ==
  ASSUME AnswerType, arrived \in 0 .. Len(Events),
         NEW m, m.content = Aggregate(SubSeq(Events, 1, arrived)).content
  PROVE  /\ arrived = Len(Events) =>
              m.content = Meant /\ Aggregate(SubSeq(Events, 1, arrived)).usage = Tokens
         /\ api = "responses" => Range(ToolUses(m)) \subseteq Range(Meant)
<1> DEFINE w == SubSeq(Events, 1, arrived)
<1>1. Events \in Seq(EventSet)
  BY EventsAre
<1>2. w \in Seq(EventSet) /\ (arrived = Len(Events) => w = Events)
  BY <1>1, Prefix
<1>3. api = "anthropic" \/ api = "responses"
  BY DEF AnswerType
<1> HIDE DEF w
<1>4. Aggregate(Events).content = Meant /\ Aggregate(Events).usage = Tokens
  BY <1>3, MessagesComplete, ResponsesComplete
<1>5. m.content = Aggregate(w).content
  BY DEF w
<1>6. api = "responses" => Range(ToolUses(m)) \subseteq Range(Meant)
  BY <1>2, <1>5, CallsWhole
<1> QED
  BY <1>2, <1>4, <1>5, <1>6 DEF w

LEMMA StreamNext == StreamInv /\ [Next]_vars => StreamInv'
<1>1. AnswerType => Len(Events) \in Nat
  BY EventsAre
<1>2. AnswerType' => (Len(Events) \in Nat)'
  BY <1>1, PTL
<1> SUFFICES ASSUME StreamInv, [Next]_vars  PROVE StreamInv'
  OBVIOUS
<1> USE DEF StreamInv
<1>3. pc' # "answered" => AnswerFaithful'
  BY DEF AnswerFaithful
<1>4. ASSUME UNCHANGED <<api, history, calls, answer, arrived, usage>>,
             pc' \in {"sending", "waiting"} => pc \in {"sending", "waiting"},
             pc' = "answered" => pc = "answered"
      PROVE  StreamInv'
  <2>1. AnswerType' /\ Events' = Events
    BY <1>4 DEF AnswerType, AnswerBlock, Events
  <2>2. AnswerFaithful'
    <3>1. Meant' = Meant /\ Tokens' = Tokens
      BY <1>4, SameMeant
    <3> QED
      BY <1>4, <2>1, <3>1, Zenon DEF AnswerFaithful
  <2> QED
    BY <1>4, <2>1, <2>2
<1>5. CASE StartCall
  <2>1. CASE cancelled \/ calls = MaxCalls
    BY <1>4, <1>5, <2>1 DEF StartCall, stream
  <2>2. CASE ~(cancelled \/ calls = MaxCalls)
    <3>1. AnswerType'
      BY <1>5, <2>2, StreamAssumption DEF StartCall, AnswerType
    <3> QED
      BY <1>2, <1>3, <1>5, <2>2, <3>1 DEF StartCall
  <2> QED
    BY <2>1, <2>2
<1>6. CASE Accepted
  <2>1. AnswerType'
    <3>1. PICK n \in 0 .. MaxBlocks : answer' \in [1 .. n -> AnswerBlock]
      BY <1>6, StreamAssumption DEF Accepted, BoundedSeq, SeqOf
    <3>2. api' = api /\ calls' = calls /\ AnswerBlock' = AnswerBlock
      BY <1>6 DEF Accepted, AnswerBlock
    <3> QED
      BY <3>1, <3>2, StreamAssumption DEF AnswerType
  <2>2. arrived' = 0 /\ pc' = "streaming" /\ history' = history
    BY <1>6 DEF Accepted
  <2> QED
    BY <1>2, <1>3, <2>1, <2>2
<1>7. CASE EventArrives
  <2>1. AnswerType' /\ Events' = Events
    BY <1>7 DEF EventArrives, AnswerType, AnswerBlock, Events
  <2>2. arrived' = arrived + 1 /\ arrived < Len(Events) /\ pc' = "streaming" /\ history' = history
    BY <1>7 DEF EventArrives
  <2> QED
    BY <1>1, <1>3, <2>1, <2>2
<1>8. CASE StreamEnds
  <2> DEFINE r == Aggregate(SubSeq(Events, 1, arrived))
             m == [role |-> "assistant", content |-> r.content]
  <2>1. /\ UNCHANGED <<api, calls, answer, arrived>> /\ pc' = "answered"
        /\ history' = Add(history, m) /\ usage' = r.usage
    BY <1>8, Zenon DEF StreamEnds, stream, Add
  <2>2. AnswerType' /\ Events' = Events
    BY <2>1 DEF AnswerType, AnswerBlock, Events
  <2>3. SubSeq(Events, 1, arrived) \in Seq(EventSet)
    BY EventsAre, Prefix
  <2>4. r.content \in Seq(Block)
    BY <2>3, AggregateType
  <2>5. m \in Message
    BY <2>4 DEF Message, Role
  <2>6. Meant' = Meant /\ Tokens' = Tokens
    BY <2>1, SameMeant
  <2>9. /\ arrived = Len(Events) => m.content = Meant /\ r.usage = Tokens
        /\ api = "responses" => Range(ToolUses(m)) \subseteq Range(Meant)
    <3>1. m.content = r.content
      OBVIOUS
    <3> HIDE DEF m
    <3> QED
      BY <3>1, AnswerEnds
  <2> HIDE DEF m
  <2>7. history' \in Seq(Message) /\ Len(history') >= 1 /\ Last(history') = m
    <3>1. /\ Add(history, m) \in Seq(Message) /\ Len(Add(history, m)) >= 1
          /\ Last(Add(history, m)) = m
      BY <2>5, Said
    <3> QED
      BY <2>1, <3>1, Zenon
  <2> HIDE DEF r
  <2>8. AnswerFaithful'
    BY <2>1, <2>2, <2>6, <2>7, <2>9, Zenon DEF AnswerFaithful
  <2> QED
    BY <1>1, <2>1, <2>2, <2>7, <2>8
<1>9. CASE LoopGoesOn
  <2> DEFINE m == Last(history)
             x == Results(m)
             y == NewUserText(<<"nudge">>)
             z == NewUserText(<<"reminder">>)
  <2>1. m \in Message /\ x \in Message /\ y \in Message /\ z \in Message
    <3>1. m \in Message
      BY LastType
    <3> HIDE DEF m
    <3> QED
      BY <3>1, UsesType, UserText, Words
  <2>2. /\ UNCHANGED <<api, calls, answer, arrived>>
        /\ pc' \in {"ready", "ended"}
        /\ \/ history' = history
           \/ history' = Append(history, x)
           \/ history' = history \o <<x, y>>
           \/ history' = Append(history, z)
    BY <1>9, Zenon DEF LoopGoesOn, Results, stream
  <2> HIDE DEF m, x, y, z
  <2>3. \/ history' = history
        \/ history' = Add(history, x)
        \/ history' = Add(Add(history, x), y)
        \/ history' = Add(history, z)
    <3>1. history \o <<x, y>> = Add(Add(history, x), y)
      BY <2>1, TwoSaid
    <3> QED
      BY <2>2, <3>1, Zenon DEF Add
  <2>4. history' \in Seq(Message) /\ Len(history') >= 1
    <3>1. /\ Add(history, x) \in Seq(Message) /\ Len(Add(history, x)) >= 1
          /\ Add(history, z) \in Seq(Message) /\ Len(Add(history, z)) >= 1
      BY <2>1, Said
    <3>2. Add(Add(history, x), y) \in Seq(Message) /\ Len(Add(Add(history, x), y)) >= 1
      BY <2>1, <3>1, Said
    <3>3. history \in Seq(Message) /\ Len(history) >= 1
      OBVIOUS
    <3> QED
      BY <2>3, <3>1, <3>2, <3>3, Zenon
  <2>5. AnswerType' /\ Events' = Events /\ arrived' = arrived
    BY <2>2, Same
  <2> QED
    BY <1>3, <2>2, <2>4, <2>5
<1>10. CASE ConnectionFails \/ TransientStatus
  BY <1>4, <1>10 DEF ConnectionFails, TransientStatus, Retry, stream
<1>11. CASE PermanentStatus \/ WaitCancelled \/ WaitEnds \/ StreamFails
  BY <1>4, <1>11 DEF PermanentStatus, WaitCancelled, WaitEnds, StreamFails, stream
<1>12. CASE Interrupt \/ Terminated \/ UNCHANGED vars
  BY <1>4, <1>12 DEF Interrupt, Terminated, vars, stream
<1> QED
  BY <1>5, <1>6, <1>7, <1>8, <1>9, <1>10, <1>11, <1>12 DEF Next, Request

LEMMA StreamInvariance == FairSpec => []StreamInv
BY StreamInit, StreamNext, PTL DEF FairSpec

(* A conversation is a sequence of messages; doWithRetry makes at most     *)
(* maxAttempts attempts and never waits longer than maxBackoff, whatever a *)
(* server asks for; and of the events of an answer no more arrive than     *)
(* there are.                                                              *)
THEOREM StreamTypeOK == FairSpec => []TypeOK
<1>1. PauseInv /\ StreamInv => TypeOK
  BY DEF PauseInv, PauseTypeInv, StreamInv, TypeOK
<1> QED
  BY <1>1, PauseInvariance, StreamInvariance, PTL

(* A stream that came to its end is the message the provider meant, block  *)
(* by block and with its count of tokens, for answers of any length whose  *)
(* blocks are sent one after another; and of a stream that broke off the   *)
(* Responses client takes no call that is not whole (aggregateSSE,         *)
(* aggregateResponsesSSE).                                                 *)
THEOREM StreamAnswerFaithful == FairSpec => []AnswerFaithful
<1>1. StreamInv => AnswerFaithful
  BY DEF StreamInv
<1> QED
  BY <1>1, StreamInvariance, PTL

-----------------------------------------------------------------------------
(* Requests, message by message.                                           *)
C == INSTANCE SequenceFolds WITH Op <- Converted

LEMMA ConvertIs ==
  /\ \A h : ConvertMessages(h) = C!Fold(<<>>, h)
  /\ \A u, w : Add(u, w) = C!Add(u, w)
<1>1. \A h : ConvertMessages(h) = C!Fold(<<>>, h)
  BY Zenon DEF ConvertMessages, C!Fold, C!FoldLeft, C!MapThenFoldSet, C!Max, FoldLeft, MapThenFoldSet, Max
<1>2. \A u, w : Add(u, w) = C!Add(u, w)
  BY Zenon DEF Add, C!Add
<1> QED
  BY <1>1, <1>2

LEMMA ConvertEmpty == ConvertMessages(<<>>) = <<>>
BY ConvertIs, C!FoldEmpty, Zenon

LEMMA ConvertAdd ==
  ASSUME NEW h \in Seq(Message), NEW m \in Message
  PROVE  ConvertMessages(Add(h, m)) = Converted(ConvertMessages(h), m)
<1>1. C!Fold(<<>>, C!Add(h, m)) = Converted(C!Fold(<<>>, h), m)
  BY C!FoldAdd
<1> QED
  BY <1>1, ConvertIs, Zenon

(* What is sent of a message, and of its blocks of one type.               *)
SentBlocks == {b \in Block : Sent(b)}

SentOf(type) == {b \in SentBlocks : b.type = type}

Part(m) == Only(m.content, SentBlocks)

LEMMA PartType ==
  ASSUME NEW m \in Message
  PROVE  /\ m.role \in Role /\ m.content \in Seq(Block)
         /\ Part(m) \in Seq(SentBlocks) /\ Part(m) \in Seq(Block)
         /\ Select(m.content, Sent) = Part(m)
<1>1. m.role \in Role /\ m.content \in Seq(Block)
  BY DEF Message
<1> DEFINE c == m.content
<1>2. Range(c) \subseteq Block
  BY <1>1, RangeType
<1> HIDE DEF c
<1>3. {b \in Range(c) : Sent(b)} = {b \in Range(c) : b \in SentBlocks}
  BY <1>2 DEF SentBlocks
<1>4. Only(c, {b \in Range(c) : Sent(b)}) = Only(c, SentBlocks)
  BY <1>1, <1>3, OnlyTest DEF c
<1>5. Block \cap SentBlocks = SentBlocks
  BY DEF SentBlocks
<1>6. Only(c, SentBlocks) \in Seq(SentBlocks) /\ Only(c, SentBlocks) \in Seq(Block)
  <2>1. Only(c, SentBlocks) \in Seq(Block \cap SentBlocks) /\ Only(c, SentBlocks) \in Seq(Block)
    BY <1>1, OnlyType, OnlySeq DEF c
  <2> QED
    BY <1>5, <2>1
<1> QED
  BY <1>1, <1>4, <1>6, Zenon DEF Select, Part, c

LEMMA OfTypeIs ==
  ASSUME NEW m \in Message, NEW type
  PROVE  /\ OfType(m, type) = Only(m.content, SentOf(type))
         /\ OfType(m, type) \in Seq(SentOf(type)) /\ OfType(m, type) \in Seq(Block)
<1>1. m.content \in Seq(Block)
  BY DEF Message
<1> DEFINE c == m.content
           K == SentOf(type)
<1>2. Range(c) \subseteq Block
  BY <1>1, RangeType
<1> HIDE DEF c
<1>3. {b \in Range(c) : Sent(b) /\ b.type = type} = {b \in Range(c) : b \in K}
  BY <1>2 DEF SentBlocks, SentOf
<1>4. Only(c, {b \in Range(c) : Sent(b) /\ b.type = type}) = Only(c, K)
  BY <1>1, <1>3, OnlyTest DEF c
<1>5. Block \cap K = K
  BY DEF SentBlocks, SentOf
<1>6. Only(c, K) \in Seq(K) /\ Only(c, K) \in Seq(Block)
  <2>1. Only(c, K) \in Seq(Block \cap K) /\ Only(c, K) \in Seq(Block)
    BY <1>1, OnlyType, OnlySeq DEF c
  <2> QED
    BY <1>5, <2>1
<1> QED
  BY <1>4, <1>6, Zenon DEF OfType, Select, c

(* A message that goes behind the others, or into the last.                *)
Extended(w, c) ==
  Add(SubSeq(w, 1, Len(w) - 1), [role |-> Last(w).role, content |-> Cat(Last(w).content, c)])

LEMMA ConvertedIs ==
  ASSUME NEW w \in Seq(Message), NEW m \in Message
  PROVE  /\ Len(Part(m)) = 0 => Converted(w, m) = w
         /\ Len(Part(m)) > 0 /\ Len(w) > 0 /\ Last(w).role = m.role => Converted(w, m) = Extended(w, Part(m))
         /\ Len(Part(m)) > 0 /\ (Len(w) = 0 \/ Last(w).role # m.role) =>
              Converted(w, m) = Add(w, [role |-> m.role, content |-> Part(m)])
<1> DEFINE p == Part(m)
<1>1. Select(m.content, Sent) = p /\ p \in Seq(Block)
  BY PartType
<1>2. Converted(w, m) =
        IF p = <<>> THEN w
        ELSE IF w # <<>> /\ Last(w).role = m.role
             THEN Front(w) \o <<[role |-> m.role, content |-> Last(w).content \o p]>>
        ELSE Append(w, [role |-> m.role, content |-> p])
  BY <1>1, Zenon DEF Converted, Merges
<1> HIDE DEF p
<1>3. (p = <<>> <=> Len(p) = 0) /\ (w = <<>> <=> Len(w) = 0) /\ Len(p) \in Nat /\ Len(w) \in Nat
  BY <1>1
<1>4. ASSUME Len(w) > 0, Last(w).role = m.role
      PROVE  Front(w) \o <<[role |-> m.role, content |-> Last(w).content \o p]>> = Extended(w, p)
  <2> DEFINE x == [role |-> Last(w).role, content |-> Last(w).content \o p]
             f == SubSeq(w, 1, Len(w) - 1)
  <2>1. Len(w) - 1 \in 0 .. Len(w)
    BY <1>3, <1>4
  <2>2. f \in Seq(Message)
    BY <2>1, Prefix
  <2> HIDE DEF x, f
  <2>3. f \o <<x>> = Add(f, x)
    BY <2>2 DEF Add
  <2> QED
    BY <1>4, <2>3, Zenon DEF Extended, Front, Cat, x, f
<1>5. /\ Len(p) = 0 => Converted(w, m) = w
      /\ Len(p) > 0 /\ Len(w) > 0 /\ Last(w).role = m.role =>
           Converted(w, m) = Front(w) \o <<[role |-> m.role, content |-> Last(w).content \o p]>>
      /\ Len(p) > 0 /\ (Len(w) = 0 \/ Last(w).role # m.role) =>
           Converted(w, m) = Append(w, [role |-> m.role, content |-> p])
  <2> DEFINE x == Front(w) \o <<[role |-> m.role, content |-> Last(w).content \o p]>>
             y == Append(w, [role |-> m.role, content |-> p])
             A == p = <<>>
             B == w = <<>>
  <2>1. Converted(w, m) = IF A THEN w ELSE IF ~B /\ Last(w).role = m.role THEN x ELSE y
    BY <1>2, Zenon
  <2>2. (A <=> Len(p) = 0) /\ (B <=> Len(w) = 0)
    BY <1>3
  <2> HIDE DEF x, y, A, B
  <2>3. /\ Len(p) = 0 => Converted(w, m) = w
        /\ Len(p) > 0 /\ Len(w) > 0 /\ Last(w).role = m.role => Converted(w, m) = x
        /\ Len(p) > 0 /\ (Len(w) = 0 \/ Last(w).role # m.role) => Converted(w, m) = y
    BY <1>3, <2>1, <2>2
  <2> QED
    BY <2>3, Zenon DEF x, y
<1> QED
  BY <1>4, <1>5, Zenon DEF p, Add

LEMMA ExtendedType ==
  ASSUME NEW w \in Seq(Message), Len(w) > 0, NEW c \in Seq(Block)
  PROVE  /\ SubSeq(w, 1, Len(w) - 1) \in Seq(Message) /\ Last(w) \in Message
         /\ [role |-> Last(w).role, content |-> Cat(Last(w).content, c)] \in Message
         /\ w = Add(SubSeq(w, 1, Len(w) - 1), Last(w))
         /\ Extended(w, c) \in Seq(Message) /\ Len(Extended(w, c)) = Len(w)
         /\ \A i \in 1 .. (Len(w) - 1) : Extended(w, c)[i] = w[i]
         /\ Extended(w, c)[Len(w)] = [role |-> Last(w).role, content |-> Cat(Last(w).content, c)]
<1> DEFINE n == Len(w) - 1
           f == SubSeq(w, 1, n)
           x == Last(w)
           y == [role |-> x.role, content |-> Cat(x.content, c)]
<1>1. n \in 0 .. Len(w) /\ n \in 0 .. (Len(w) - 1) /\ n + 1 = Len(w) /\ Len(w) \in 1 .. Len(w) /\ n \in Nat
  OBVIOUS
<1>2. f \in Seq(Message) /\ Len(f) = n /\ SubSeq(w, 1, n + 1) = Add(f, w[n + 1]) /\ SubSeq(w, 1, Len(w)) = w
  BY <1>1, Prefix
<1>3. x \in Message /\ x = w[Len(w)]
  BY <1>1, ElementOfSeq DEF Last
<1>4. \A i \in 1 .. n : f[i] = w[i]
  BY <1>1
<1>5. w = Add(f, x)
  BY <1>1, <1>2, <1>3
<1>6. y \in Message
  <2>1. x.role \in Role /\ x.content \in Seq(Block)
    BY <1>3 DEF Message
  <2>2. Cat(x.content, c) \in Seq(Block)
    BY <2>1, CatType
  <2> QED
    BY <2>1, <2>2 DEF Message
<1> HIDE DEF f, y
<1>7. /\ Add(f, y) \in Seq(Message) /\ Len(Add(f, y)) = n + 1 /\ Add(f, y)[n + 1] = y
      /\ \A i \in 1 .. n : Add(f, y)[i] = f[i]
  <2>1. /\ Add(f, y) \in Seq(Message) /\ Len(Add(f, y)) = Len(f) + 1 /\ Add(f, y)[Len(f) + 1] = y
        /\ \A i \in 1 .. Len(f) : Add(f, y)[i] = f[i]
    BY <1>2, <1>6, AddType
  <2> QED
    BY <1>2, <2>1
<1>8. Extended(w, c) = Add(f, y)
  BY Zenon DEF Extended, f, y
<1> QED
  BY <1>1, <1>2, <1>3, <1>4, <1>5, <1>6, <1>7, <1>8 DEF f, y

LEMMA ConvertedType ==
  ASSUME NEW w \in Seq(Message), NEW m \in Message
  PROVE  Converted(w, m) \in Seq(Message)
<1>1. Part(m) \in Seq(Block) /\ m.role \in Role
  BY PartType
<1>2. Len(Part(m)) \in Nat /\ Len(w) \in Nat
  BY <1>1
<1>3. [role |-> m.role, content |-> Part(m)] \in Message
  BY <1>1 DEF Message
<1>4. Add(w, [role |-> m.role, content |-> Part(m)]) \in Seq(Message)
  BY <1>3, AddType
<1>5. Len(w) > 0 => Extended(w, Part(m)) \in Seq(Message)
  BY <1>1, ExtendedType
<1> QED
  BY <1>2, <1>4, <1>5, ConvertedIs

(* All blocks of some messages.                                            *)
Contents(h) == [i \in DOMAIN h |-> h[i].content]

LEMMA ContentsAdd ==
  ASSUME NEW h \in Seq(Message), NEW m \in Message
  PROVE  /\ Contents(h) \in Seq(Seq(Block))
         /\ FlattenSeq(Contents(h)) \in Seq(Block)
         /\ FlattenSeq(Contents(Add(h, m))) = Cat(FlattenSeq(Contents(h)), m.content)
<1> DEFINE n == Len(h)
           v == Add(h, m)
           c == m.content
<1>1. /\ n \in Nat /\ DOMAIN h = 1 .. n /\ DOMAIN v = 1 .. (n + 1) /\ v[n + 1] = m
      /\ \A i \in 1 .. n : v[i] = h[i] /\ h[i].content \in Seq(Block)
  <2>1. n \in Nat /\ DOMAIN h = 1 .. n /\ DOMAIN v = 1 .. (n + 1) /\ v[n + 1] = m /\ \A i \in 1 .. n : v[i] = h[i]
    BY DEF Add
  <2>2. \A i \in 1 .. n : h[i] \in Message
    OBVIOUS
  <2>3. \A x \in Message : x.content \in Seq(Block)
    BY DEF Message
  <2> QED
    BY <2>1, <2>2, <2>3
<1>2. c \in Seq(Block)
  BY DEF Message
<1> HIDE DEF v, c, n
<1>3. Contents(h) \in Seq(Seq(Block)) /\ Len(Contents(h)) = n
  <2> DEFINE B == Seq(Block)
  <2>1. \A i \in 1 .. n : h[i].content \in B
    BY <1>1
  <2> HIDE DEF B
  <2>2. Contents(h) = [i \in 1 .. n |-> h[i].content]
    BY <1>1, Zenon DEF Contents
  <2>3. [i \in 1 .. n |-> h[i].content] \in Seq(B) /\ Len([i \in 1 .. n |-> h[i].content]) = n
    BY <1>1, <2>1
  <2> QED
    BY <2>2, <2>3, Zenon DEF B
<1>4. Contents(v) = Add(Contents(h), c)
  <2> DEFINE B == Seq(Block)
             u == Contents(h)
  <2>1. c \in B /\ u \in Seq(B) /\ Len(u) = n /\ c = m.content
    BY <1>2, <1>3 DEF c
  <2>2. \A i \in 1 .. n : u[i] = h[i].content
    BY <1>1 DEF Contents
  <2> HIDE DEF B, u
  <2>3. /\ Add(u, c) = [i \in 1 .. (n + 1) |-> Add(u, c)[i]] /\ Add(u, c)[n + 1] = c
        /\ \A i \in 1 .. n : Add(u, c)[i] = u[i]
    BY <1>1, <2>1 DEF Add
  <2>4. \A i \in 1 .. (n + 1) : i \in 1 .. n \/ i = n + 1
    BY <1>1
  <2>5. \A i \in 1 .. (n + 1) : Add(u, c)[i] = v[i].content
    BY <1>1, <2>1, <2>2, <2>3, <2>4
  <2>6. Contents(v) = [i \in 1 .. (n + 1) |-> v[i].content]
    BY <1>1, Zenon DEF Contents
  <2>7. [i \in 1 .. (n + 1) |-> v[i].content] = [i \in 1 .. (n + 1) |-> Add(u, c)[i]]
    BY <2>5
  <2> QED
    BY <2>3, <2>6, <2>7, Zenon DEF u
<1>5. FlattenSeq(Contents(h)) \in Seq(Block)
  BY <1>3, FlattenType
<1>6. FlattenSeq(Add(Contents(h), c)) = Cat(FlattenSeq(Contents(h)), c)
  BY <1>2, <1>3, FlattenAdd
<1> QED
  BY <1>3, <1>4, <1>5, <1>6, Zenon DEF v, c

LEMMA ContentsEmpty == FlattenSeq(Contents(<<>>)) = <<>>
<1>1. Contents(<<>>) = <<>>
  BY DEF Contents
<1> QED
  BY <1>1, FlattenEmpty, Zenon

(* What is said: the blocks that are sent, in their order.                 *)
SaidIn(h) == Only(FlattenSeq(Contents(h)), SentBlocks)

LEMMA SaidIs ==
  ASSUME NEW h \in Seq(Message)
  PROVE  Select(FlattenSeq([i \in DOMAIN h |-> h[i].content]), Sent) = SaidIn(h)
<1> DEFINE c == FlattenSeq(Contents(h))
<1>1. c \in Seq(Block)
  <2>1. \A i \in DOMAIN h : h[i].content \in Seq(Block)
    <3>1. \A i \in DOMAIN h : h[i] \in Message
      OBVIOUS
    <3>2. \A x \in Message : x.content \in Seq(Block)
      BY DEF Message
    <3> QED
      BY <3>1, <3>2
  <2>2. Contents(h) \in Seq(Seq(Block))
    <3> DEFINE B == Seq(Block)
    <3>1. \A i \in DOMAIN h : h[i].content \in B
      BY <2>1
    <3> HIDE DEF B
    <3>2. Contents(h) \in Seq(B)
      BY <3>1 DEF Contents
    <3> QED
      BY <3>2 DEF B
  <2> QED
    BY <2>2, FlattenType
<1>2. Range(c) \subseteq Block
  BY <1>1, RangeType
<1> HIDE DEF c
<1>3. {b \in Range(c) : Sent(b)} = {b \in Range(c) : b \in SentBlocks}
  BY <1>2 DEF SentBlocks
<1>4. Only(c, {b \in Range(c) : Sent(b)}) = Only(c, SentBlocks)
  BY <1>1, <1>3, OnlyTest
<1> QED
  BY <1>4, Zenon DEF Select, SaidIn, c, Contents

LEMMA SaidAdd ==
  ASSUME NEW h \in Seq(Message), NEW m \in Message
  PROVE  SaidIn(Add(h, m)) = Cat(SaidIn(h), Part(m)) /\ SaidIn(h) \in Seq(Block)
<1> DEFINE c == FlattenSeq(Contents(h))
<1>1. c \in Seq(Block) /\ FlattenSeq(Contents(Add(h, m))) = Cat(c, m.content) /\ m.content \in Seq(Block)
  BY ContentsAdd, PartType
<1> HIDE DEF c
<1>2. Only(Cat(c, m.content), SentBlocks) = Cat(Only(c, SentBlocks), Only(m.content, SentBlocks))
  BY <1>1, OnlyCat
<1>3. Only(c, SentBlocks) \in Seq(Block)
  BY <1>1, OnlySeq
<1> QED
  BY <1>1, <1>2, <1>3, Zenon DEF SaidIn, Part, c

(* Nothing that is said is lost or moved in a request.                     *)
LEMMA ConvertedKeeps ==
  ASSUME NEW w \in Seq(Message), NEW m \in Message
  PROVE  FlattenSeq(Contents(Converted(w, m))) = Cat(FlattenSeq(Contents(w)), Part(m))
<1> DEFINE c == FlattenSeq(Contents(w))
           p == Part(m)
<1>1. p \in Seq(Block) /\ m.role \in Role /\ c \in Seq(Block) /\ Len(p) \in Nat /\ Len(w) \in Nat
  BY PartType, ContentsAdd
<1>2. CASE Len(p) = 0
  <2>1. p = <<>>
    BY <1>1, <1>2
  <2>2. Cat(c, <<>>) = c
    BY <1>1, CatEmpty
  <2>3. Converted(w, m) = w
    BY <1>2, ConvertedIs
  <2> QED
    BY <2>1, <2>2, <2>3, Zenon
<1>3. CASE Len(p) > 0 /\ Len(w) > 0 /\ Last(w).role = m.role
  <2> DEFINE f == SubSeq(w, 1, Len(w) - 1)
             x == Last(w)
             y == [role |-> x.role, content |-> Cat(x.content, p)]
  <2>1. f \in Seq(Message) /\ x \in Message /\ y \in Message /\ w = Add(f, x)
    BY <1>1, <1>3, ExtendedType
  <2>2. Converted(w, m) = Add(f, y)
    BY <1>3, ConvertedIs DEF Extended
  <2>3. x.content \in Seq(Block) /\ y.content = Cat(x.content, p)
    BY <2>1 DEF Message
  <2> HIDE DEF f, y, x, p
  <2>4. /\ FlattenSeq(Contents(f)) \in Seq(Block)
        /\ FlattenSeq(Contents(Add(f, x))) = Cat(FlattenSeq(Contents(f)), x.content)
        /\ FlattenSeq(Contents(Add(f, y))) = Cat(FlattenSeq(Contents(f)), y.content)
    BY <2>1, ContentsAdd
  <2>5. Cat(Cat(FlattenSeq(Contents(f)), x.content), p) = Cat(FlattenSeq(Contents(f)), Cat(x.content, p))
    BY <1>1, <2>3, <2>4, CatAssociative
  <2> QED
    BY <2>1, <2>2, <2>3, <2>4, <2>5, Zenon DEF p, c
<1>4. CASE Len(p) > 0 /\ (Len(w) = 0 \/ Last(w).role # m.role)
  <2> DEFINE y == [role |-> m.role, content |-> p]
  <2>1. y \in Message /\ y.content = p
    BY <1>1 DEF Message
  <2>2. Converted(w, m) = Add(w, y)
    BY <1>4, ConvertedIs
  <2> HIDE DEF y, p
  <2>3. FlattenSeq(Contents(Add(w, y))) = Cat(FlattenSeq(Contents(w)), y.content)
    BY <2>1, ContentsAdd
  <2> QED
    BY <2>1, <2>2, <2>3, Zenon DEF p, c
<1> QED
  BY <1>1, <1>2, <1>3, <1>4

LEMMA ConvertKeeps ==
  ASSUME NEW h \in Seq(Message)
  PROVE  ConvertMessages(h) \in Seq(Message) /\ FlattenSeq(Contents(ConvertMessages(h))) = SaidIn(h)
<1> DEFINE P(v) == ConvertMessages(v) \in Seq(Message) /\ FlattenSeq(Contents(ConvertMessages(v))) = SaidIn(v)
           T == {v \in Seq(Message) : P(v)}
<1>1. <<>> \in T
  <2>1. <<>> \in Seq(Message)
    OBVIOUS
  <2>2. SaidIn(<<>>) = <<>>
    BY ContentsEmpty, OnlyEmpty, Zenon DEF SaidIn
  <2>3. P(<<>>)
    BY <2>1, <2>2, ConvertEmpty, ContentsEmpty, Zenon
  <2> QED
    BY <2>1, <2>3
<1>2. ASSUME NEW v \in Seq(Message), NEW m \in Message, v \in T  PROVE Add(v, m) \in T
  <2>0. P(v)
    BY <1>2
  <2> DEFINE w == ConvertMessages(v)
  <2>1. w \in Seq(Message) /\ FlattenSeq(Contents(w)) = SaidIn(v)
    BY <2>0
  <2>2. ConvertMessages(Add(v, m)) = Converted(w, m)
    BY ConvertAdd
  <2> HIDE DEF w
  <2>3. Converted(w, m) \in Seq(Message) /\ FlattenSeq(Contents(Converted(w, m))) = Cat(FlattenSeq(Contents(w)), Part(m))
    BY <2>1, ConvertedType, ConvertedKeeps
  <2>4. SaidIn(Add(v, m)) = Cat(SaidIn(v), Part(m))
    BY SaidAdd
  <2>5. P(Add(v, m))
    BY <2>1, <2>2, <2>3, <2>4, Zenon
  <2> HIDE DEF P
  <2> QED
    BY <2>5, AddType
<1> HIDE DEF T
<1>3. h \in T
  BY <1>1, <1>2, SeqInduct
<1> QED
  BY <1>3 DEF T



-----------------------------------------------------------------------------
(* Well-formed requests of the Messages API, pair by pair.                 *)
IdsOf(m, type) ==
  LET some == OfType(m, type)
  IN  [k \in DOMAIN some |-> some[k].id]

Follows(m, r) ==
  /\ m.role # r.role
  /\ m.role = "assistant" =>
       /\ IdsOf(m, "tool_use") = IdsOf(r, "tool_result")
       /\ \A k \in DOMAIN IdsOf(m, "tool_use") : r.content[k].type = "tool_result"

WireOK(w) ==
  /\ Len(w) >= 1 /\ w[1].role = "user" /\ w[Len(w)].role = "user"
  /\ \A i \in 1 .. (Len(w) - 1) : Follows(w[i], w[i + 1])

LEMMA WireIs ==
  ASSUME NEW w \in Seq(Message)
  PROVE  MessagesWellFormed(w) <=> WireOK(w)
<1>1. w # <<>> <=> Len(w) >= 1
  OBVIOUS
<1> QED
  BY <1>1, Zenon DEF MessagesWellFormed, WireOK, Follows, IdsOf, Last

(* A message with the blocks that are sent of m has the same calls and     *)
(* outputs as m.                                                           *)
LEMMA PartIds ==
  ASSUME NEW m \in Message, NEW type
  PROVE  /\ [role |-> m.role, content |-> Part(m)] \in Message
         /\ OfType([role |-> m.role, content |-> Part(m)], type) = OfType(m, type)
         /\ IdsOf([role |-> m.role, content |-> Part(m)], type) = IdsOf(m, type)
<1> DEFINE x == [role |-> m.role, content |-> Part(m)]
<1>1. x \in Message /\ x.content = Part(m)
  BY PartType DEF Message
<1> HIDE DEF x
<1>2. OfType(x, type) = Only(x.content, SentOf(type))
  BY <1>1, OfTypeIs
<1>3. OfType(m, type) = Only(m.content, SentOf(type)) /\ m.content \in Seq(Block)
  BY OfTypeIs, PartType
<1>4. Only(Only(m.content, SentBlocks), SentOf(type)) = Only(m.content, SentBlocks \cap SentOf(type))
  BY <1>3, OnlyOnly
<1>5. SentBlocks \cap SentOf(type) = SentOf(type)
  BY DEF SentOf
<1>6. OfType(x, type) = OfType(m, type)
  BY <1>1, <1>2, <1>3, <1>4, <1>5, Zenon DEF Part
<1> QED
  BY <1>1, <1>6, Zenon DEF IdsOf, x

(* More text behind an answered message leaves it answered.                *)
LEMMA FollowsMore ==
  ASSUME NEW m \in Message, NEW r \in Message, NEW p \in Seq(Block), Follows(m, r),
         Len(Only(p, SentOf("tool_result"))) = 0
  PROVE  Follows(m, [role |-> r.role, content |-> Cat(r.content, p)])
<1> DEFINE c == r.content
           x == [role |-> r.role, content |-> Cat(c, p)]
           K == SentOf("tool_result")
<1>1. c \in Seq(Block) /\ r.role \in Role
  BY DEF Message
<1>2. Cat(c, p) \in Seq(Block) /\ Len(c) \in Nat /\ \A i \in 1 .. Len(c) : Cat(c, p)[i] = c[i]
  <2> HIDE DEF c
  <2>1. Len(c) \in Nat
    BY <1>1
  <2> QED
    BY <1>1, <2>1, CatType
<1>3. x \in Message /\ x.role = r.role /\ x.content = Cat(c, p)
  BY <1>1, <1>2 DEF Message
<1> HIDE DEF x
<1>4. /\ OfType(x, "tool_result") = Only(Cat(c, p), K) /\ OfType(r, "tool_result") = Only(c, K)
  BY <1>3, OfTypeIs
<1>5. Only(Cat(c, p), K) = Cat(Only(c, K), Only(p, K)) /\ Only(c, K) \in Seq(Block) /\ Only(p, K) \in Seq(Block)
  BY <1>1, OnlyCat, OnlySeq
<1>6. Only(p, K) = <<>>
  BY <1>5
<1>7. Cat(Only(c, K), <<>>) = Only(c, K)
  BY <1>5, CatEmpty
<1>8. OfType(x, "tool_result") = OfType(r, "tool_result")
  BY <1>4, <1>5, <1>6, <1>7, Zenon
<1>9. IdsOf(x, "tool_result") = IdsOf(r, "tool_result")
  BY <1>8, Zenon DEF IdsOf
<1>10. Len(Only(c, K)) <= Len(c) /\ DOMAIN Only(c, K) = 1 .. Len(Only(c, K)) /\ Len(Only(c, K)) \in Nat
  BY <1>1, <1>5, OnlyLen
<1>11. DOMAIN IdsOf(r, "tool_result") = DOMAIN Only(c, K)
  BY <1>4, Zenon DEF IdsOf
<1>12. \A k \in DOMAIN Only(c, K) : Cat(c, p)[k] = c[k]
  <2> HIDE DEF c
  <2> QED
    BY <1>2, <1>10
<1> HIDE DEF c, K
<1>13. ASSUME m.role = "assistant"
       PROVE  /\ IdsOf(m, "tool_use") = IdsOf(x, "tool_result")
              /\ \A k \in DOMAIN IdsOf(m, "tool_use") : x.content[k].type = "tool_result"
  <2>1. IdsOf(m, "tool_use") = IdsOf(r, "tool_result") /\ \A k \in DOMAIN IdsOf(m, "tool_use") : c[k].type = "tool_result"
    BY <1>13, Zenon DEF Follows, c
  <2> QED
    BY <1>3, <1>9, <1>11, <1>12, <2>1, Zenon
<1> QED
  BY <1>3, <1>13, Zenon DEF Follows, x, c

-----------------------------------------------------------------------------
LEMMA WireExtended ==
  ASSUME NEW w \in Seq(Message), WireOK(w), NEW p \in Seq(Block), Len(Only(p, SentOf("tool_result"))) = 0
  PROVE  WireOK(Extended(w, p))
<1> DEFINE n == Len(w)
           x == [role |-> Last(w).role, content |-> Cat(Last(w).content, p)]
           v == Extended(w, p)
<1>1. n \in Nat /\ n >= 1
  BY DEF WireOK
<1>2. /\ x \in Message /\ v \in Seq(Message) /\ Len(v) = n /\ Last(w) \in Message
      /\ \A i \in 1 .. (n - 1) : v[i] = w[i]
      /\ v[n] = x
  BY <1>1, ExtendedType
<1>3. Last(w) = w[n] /\ x.role = w[n].role
  BY DEF Last
<1> HIDE DEF n, v
<1>4. w[1].role = "user" /\ w[n].role = "user" /\ \A i \in 1 .. (n - 1) : Follows(w[i], w[i + 1])
  BY DEF WireOK, n
<1>5. n - 1 >= 1 => Follows(w[n - 1], x)
  <2> SUFFICES ASSUME n - 1 >= 1  PROVE Follows(w[n - 1], x)
    OBVIOUS
  <2>1. n - 1 \in 1 .. (n - 1) /\ (n - 1) + 1 = n /\ n - 1 \in 1 .. Len(w)
    BY <1>1 DEF n
  <2>2. Follows(w[n - 1], w[n])
    BY <1>4, <2>1
  <2>3. w[n - 1] \in Message
    BY <2>1, ElementOfSeq
  <2> QED
    BY <1>2, <1>3, <2>2, <2>3, FollowsMore
<1> HIDE DEF x
<1>6. ASSUME NEW i \in 1 .. (n - 1)  PROVE Follows(v[i], v[i + 1])
  <2>1. CASE i = n - 1
    <3>1. v[i] = w[i] /\ v[i + 1] = x /\ n - 1 >= 1
      BY <1>1, <1>2, <2>1
    <3> QED
      BY <1>5, <2>1, <3>1
  <2>2. CASE i # n - 1
    <3>1. i + 1 \in 1 .. (n - 1)
      BY <1>1, <2>2
    <3> QED
      BY <1>2, <1>4, <3>1
  <2> QED
    BY <2>1, <2>2
<1>7. v[1].role = "user" /\ v[n].role = "user"
  <2>1. n = 1 \/ 1 \in 1 .. (n - 1)
    BY <1>1
  <2> QED
    BY <1>2, <1>3, <1>4, <2>1
<1> QED
  BY <1>1, <1>2, <1>6, <1>7 DEF WireOK, v

LEMMA WireAdded ==
  ASSUME NEW w \in Seq(Message), WireOK(w), NEW a \in Message, NEW r \in Message,
         a.role = "assistant", r.role = "user", Follows(a, r)
  PROVE  WireOK(Add(Add(w, a), r))
<1> DEFINE n == Len(w)
           v == Add(w, a)
           u == Add(v, r)
<1>1. n \in Nat /\ n >= 1
  BY DEF WireOK
<1>2. v \in Seq(Message) /\ Len(v) = n + 1 /\ v[n + 1] = a /\ \A i \in 1 .. n : v[i] = w[i]
  BY AddType
<1> HIDE DEF v
<1>3. u \in Seq(Message) /\ Len(u) = Len(v) + 1 /\ u[Len(v) + 1] = r /\ \A i \in 1 .. Len(v) : u[i] = v[i]
  <2>1. v \in Seq(Message)
    BY <1>2
  <2> QED
    BY <2>1, AddType
<1> HIDE DEF u, n
<1>4. /\ Len(u) = n + 2 /\ u[n + 2] = r /\ u[n + 1] = a /\ \A i \in 1 .. n : u[i] = w[i]
  BY <1>1, <1>2, <1>3
<1>5. w[1].role = "user" /\ w[n].role = "user" /\ \A i \in 1 .. (n - 1) : Follows(w[i], w[i + 1])
  BY DEF WireOK, n
<1>6. ASSUME NEW i \in 1 .. (n + 1)  PROVE Follows(u[i], u[i + 1])
  <2>1. CASE i = n + 1
    BY <1>1, <1>4, <2>1
  <2>2. CASE i = n
    <3>1. u[i] = w[n] /\ u[i + 1] = a
      BY <1>1, <1>4, <2>2
    <3> QED
      BY <1>5, <3>1 DEF Follows
  <2>3. CASE i # n /\ i # n + 1
    <3>1. i \in 1 .. (n - 1) /\ u[i] = w[i] /\ u[i + 1] = w[i + 1]
      BY <1>1, <1>4, <2>3
    <3> QED
      BY <1>5, <3>1
  <2> QED
    BY <2>1, <2>2, <2>3
<1> QED
  BY <1>1, <1>4, <1>5, <1>6 DEF WireOK, u, v

LEMMA WireText ==
  ASSUME NEW h \in Seq(Message), WireOK(ConvertMessages(h)), NEW r \in Message, r.role = "user",
         Len(OfType(r, "tool_result")) = 0
  PROVE  WireOK(ConvertMessages(Add(h, r)))
<1> DEFINE w == ConvertMessages(h)
           p == Part(r)
<1>1. w \in Seq(Message) /\ ConvertMessages(Add(h, r)) = Converted(w, r)
  BY ConvertKeeps, ConvertAdd
<1>2. p \in Seq(Block) /\ WireOK(w)
  BY PartType
<1>3. Len(Only(p, SentOf("tool_result"))) = 0
  <2> DEFINE x == [role |-> r.role, content |-> p]
  <2>1. x \in Message /\ OfType(x, "tool_result") = OfType(r, "tool_result") /\ x.content = p
    BY PartIds
  <2> HIDE DEF x
  <2>2. OfType(x, "tool_result") = Only(p, SentOf("tool_result"))
    BY <2>1, OfTypeIs
  <2> QED
    BY <2>1, <2>2, Zenon
<1> HIDE DEF w, p
<1>4. Len(p) \in Nat /\ Len(w) \in Nat /\ Len(w) >= 1 /\ Last(w).role = r.role
  BY <1>1, <1>2 DEF WireOK, Last
<1>5. WireOK(Extended(w, p))
  BY <1>1, <1>2, <1>3, WireExtended
<1>6. Converted(w, r) = w \/ Converted(w, r) = Extended(w, p)
  <2>1. /\ Len(p) = 0 => Converted(w, r) = w
        /\ Len(p) > 0 /\ Len(w) > 0 /\ Last(w).role = r.role => Converted(w, r) = Extended(w, p)
    BY <1>1, ConvertedIs DEF p
  <2> QED
    BY <1>4, <2>1
<1> QED
  BY <1>1, <1>2, <1>5, <1>6, Zenon

LEMMA WireRound ==
  ASSUME NEW h \in Seq(Message), WireOK(ConvertMessages(h)), NEW a \in Message, NEW r \in Message,
         a.role = "assistant", r.role = "user", Len(Part(r)) > 0,
         IdsOf(a, "tool_use") = IdsOf(r, "tool_result"),
         \A k \in DOMAIN IdsOf(a, "tool_use") : Part(r)[k].type = "tool_result",
         Len(Part(a)) = 0 => Len(OfType(r, "tool_result")) = 0
  PROVE  WireOK(ConvertMessages(Add(Add(h, a), r)))
<1> DEFINE w == ConvertMessages(h)
<1>1. w \in Seq(Message) /\ ConvertMessages(Add(h, a)) = Converted(w, a) /\ WireOK(w)
  BY ConvertKeeps, ConvertAdd
<1>2. Add(h, a) \in Seq(Message)
  BY AddType
<1>3. ConvertMessages(Add(Add(h, a), r)) = Converted(Converted(w, a), r)
  BY <1>1, <1>2, ConvertAdd
<1> HIDE DEF w
<1>4. Len(w) \in Nat /\ Len(w) >= 1 /\ Last(w).role = "user" /\ Len(Part(a)) \in Nat
  <2>1. Part(a) \in Seq(Block)
    BY PartType
  <2> QED
    BY <1>1, <2>1 DEF WireOK, Last
<1>5. CASE Len(Part(a)) = 0
  <2>1. Converted(w, a) = w
    BY <1>1, <1>5, ConvertedIs
  <2>2. WireOK(ConvertMessages(Add(h, a)))
    BY <1>1, <2>1, Zenon
  <2> QED
    BY <1>2, <1>5, <2>2, WireText
<1>6. CASE Len(Part(a)) > 0
  <2> DEFINE x == [role |-> a.role, content |-> Part(a)]
             y == [role |-> r.role, content |-> Part(r)]
             v == Add(w, x)
  <2>1. /\ x \in Message /\ y \in Message
        /\ IdsOf(x, "tool_use") = IdsOf(a, "tool_use") /\ IdsOf(y, "tool_result") = IdsOf(r, "tool_result")
        /\ x.role = "assistant" /\ y.role = "user" /\ y.content = Part(r)
    BY PartIds
  <2>2. Converted(w, a) = v
    BY <1>1, <1>4, <1>6, ConvertedIs
  <2> HIDE DEF x
  <2>3. v \in Seq(Message) /\ Len(v) >= 1 /\ Last(v) = x
    <3>1. v \in Seq(Message) /\ Len(v) = Len(w) + 1 /\ v[Len(w) + 1] = x
      BY <1>1, <2>1, AddType
    <3> QED
      BY <1>4, <3>1 DEF Last
  <2> HIDE DEF v
  <2>4. Converted(v, r) = Add(v, y)
    BY <2>1, <2>3, ConvertedIs
  <2> HIDE DEF y
  <2>5. Follows(x, y)
    BY <2>1 DEF Follows
  <2>6. WireOK(Add(Add(w, x), y))
    BY <1>1, <2>1, <2>5, WireAdded
  <2> QED
    BY <1>3, <2>2, <2>4, <2>6, Zenon DEF v
<1> QED
  BY <1>4, <1>5, <1>6

-----------------------------------------------------------------------------
(* The items of a request of the Responses API.                            *)
ItemSet == [type : {"message", "function_call", "function_call_output"}, role : Role, blocks : Seq(Block)]

CallItems == {x \in ItemSet : x.type = "function_call"}

OutputItems == {x \in ItemSet : x.type = "function_call_output"}

Calls(m) == Each(m, "tool_use", "function_call")

Outputs(m) == Each(m, "tool_result", "function_call_output")

LEMMA ItemType ==
  ASSUME NEW m \in Message, NEW type \in {"message", "function_call", "function_call_output"},
         NEW blocks \in Seq(Block)
  PROVE  /\ Item(type, m.role, blocks) \in ItemSet
         /\ Item(type, m.role, blocks).type = type /\ Item(type, m.role, blocks).blocks = blocks
BY PartType DEF Item, ItemSet

LEMMA EachType ==
  ASSUME NEW m \in Message, NEW type, NEW itemType \in {"message", "function_call", "function_call_output"}
  PROVE  /\ Each(m, type, itemType) \in Seq({x \in ItemSet : x.type = itemType})
         /\ Len(Each(m, type, itemType)) = Len(OfType(m, type))
         /\ \A k \in 1 .. Len(OfType(m, type)) : Each(m, type, itemType)[k].blocks = <<OfType(m, type)[k]>>
<1> DEFINE s == OfType(m, type)
           K == {x \in ItemSet : x.type = itemType}
           F(i) == Item(itemType, m.role, <<s[i]>>)
           e == [i \in DOMAIN s |-> F(i)]
<1>1. s \in Seq(Block)
  BY OfTypeIs
<1>2. Each(m, type, itemType) = e
  BY Zenon DEF Each
<1> HIDE DEF s
<1>3. ASSUME NEW i \in DOMAIN s
      PROVE  F(i) \in K /\ F(i).blocks = <<s[i]>>
  <2> DEFINE b == <<s[i]>>
  <2>1. b \in Seq(Block)
    BY <1>1
  <2> HIDE DEF b
  <2>2. Item(itemType, m.role, b) \in K /\ Item(itemType, m.role, b).blocks = b
    BY <2>1, ItemType
  <2> QED
    BY <2>2, Zenon DEF b
<1> HIDE DEF K, F
<1>4. e \in Seq(K) /\ Len(e) = Len(s) /\ DOMAIN s = 1 .. Len(s)
  <2>1. DOMAIN s = 1 .. Len(s) /\ Len(s) \in Nat
    BY <1>1
  <2>2. \A i \in DOMAIN s : F(i) \in K
    BY <1>3
  <2> QED
    BY <2>1, <2>2
<1>5. \A k \in DOMAIN s : e[k].blocks = <<s[k]>>
  BY <1>3
<1> HIDE DEF e
<1> QED
  BY <1>2, <1>4, <1>5 DEF s, K

LEMMA TextItemType ==
  ASSUME NEW m \in Message
  PROVE  /\ TextItem(m) = <<>> \/ \E x \in ItemSet : x.type = "message" /\ TextItem(m) = <<x>>
         /\ TextItem(m) \in Seq(ItemSet)
<1> DEFINE x == Item("message", m.role, OfType(m, "text"))
<1>1. x \in ItemSet /\ x.type = "message"
  BY OfTypeIs, ItemType
<1>2. TextItem(m) = <<>> \/ TextItem(m) = <<x>>
  BY Zenon DEF TextItem
<1> HIDE DEF x
<1>3. <<>> \in Seq(ItemSet) /\ <<x>> \in Seq(ItemSet)
  BY <1>1
<1> QED
  BY <1>1, <1>2, <1>3, Zenon

LEMMA ItemsType ==
  ASSUME NEW m \in Message
  PROVE  /\ Calls(m) \in Seq(CallItems) /\ Outputs(m) \in Seq(OutputItems)
         /\ Calls(m) \in Seq(ItemSet) /\ Outputs(m) \in Seq(ItemSet)
         /\ m.role = "user" => Items(m) = Cat(Outputs(m), TextItem(m))
         /\ m.role = "assistant" => Items(m) = Cat(TextItem(m), Calls(m))
         /\ Items(m) \in Seq(ItemSet)
<1>1. Calls(m) \in Seq(CallItems) /\ Outputs(m) \in Seq(OutputItems)
  BY EachType DEF Calls, Outputs, CallItems, OutputItems
<1>2. Calls(m) \in Seq(ItemSet) /\ Outputs(m) \in Seq(ItemSet)
  BY <1>1 DEF CallItems, OutputItems
<1>3. /\ m.role = "user" => Items(m) = Cat(Outputs(m), TextItem(m))
      /\ m.role = "assistant" => Items(m) = Cat(TextItem(m), Calls(m))
  BY Zenon DEF Items, Cat, Calls, Outputs
<1>4. m.role = "user" \/ m.role = "assistant"
  BY PartType DEF Role
<1>5. Cat(Outputs(m), TextItem(m)) \in Seq(ItemSet) /\ Cat(TextItem(m), Calls(m)) \in Seq(ItemSet)
  BY <1>2, TextItemType, CatType
<1> QED
  BY <1>1, <1>2, <1>3, <1>4, <1>5, Zenon

(* The items of all messages.                                              *)
ItemParts(h) == [i \in DOMAIN h |-> Items(h[i])]

(* a is u with c at its end.                                               *)
Added(a, u, c, B) ==
  a \in Seq(B) /\ Len(a) = Len(u) + 1 /\ a[Len(u) + 1] = c /\ \A i \in 1 .. Len(u) : a[i] = u[i]

LEMMA AddedType ==
  ASSUME NEW B, NEW u \in Seq(B), NEW c \in B
  PROVE  Added(Add(u, c), u, c, B)
BY AddType DEF Added

LEMMA ItemsAdd ==
  ASSUME NEW h \in Seq(Message), NEW m \in Message
  PROVE  /\ ToResponsesInput(h) \in Seq(ItemSet)
         /\ ToResponsesInput(Add(h, m)) = Cat(ToResponsesInput(h), Items(m))
<1> DEFINE n == Len(h)
           v == Add(h, m)
           c == Items(m)
           B == Seq(ItemSet)
           u == ItemParts(h)
<1>1. /\ n \in Nat /\ DOMAIN h = 1 .. n /\ DOMAIN v = 1 .. (n + 1) /\ v[n + 1] = m
      /\ \A i \in 1 .. n : v[i] = h[i] /\ h[i] \in Message
  <2>1. n \in Nat /\ DOMAIN h = 1 .. n /\ DOMAIN v = 1 .. (n + 1) /\ v[n + 1] = m /\ \A i \in 1 .. n : v[i] = h[i]
    BY DEF Add
  <2>2. \A i \in 1 .. n : h[i] \in Message
    OBVIOUS
  <2> QED
    BY <2>1, <2>2
<1>2. c \in B /\ \A i \in 1 .. n : Items(h[i]) \in B
  BY <1>1, ItemsType
<1>3. \A w : ToResponsesInput(w) = FlattenSeq(ItemParts(w))
  BY Zenon DEF ToResponsesInput, ItemParts
<1>4. /\ u = [i \in 1 .. n |-> Items(h[i])]
      /\ ItemParts(v) = [i \in 1 .. (n + 1) |-> Items(v[i])]
  BY <1>1, Zenon DEF ItemParts
<1> HIDE DEF v, c, n, B, u
<1>5. u \in Seq(B) /\ Len(u) = n /\ \A i \in 1 .. n : u[i] = Items(h[i])
  BY <1>1, <1>2, <1>4
<1>6. ItemParts(v) = Add(u, c)
  <2>0. c \in B /\ u \in Seq(B)
    BY <1>2, <1>5
  <2>1. c \in B /\ u \in Seq(B) /\ Len(u) = n /\ n \in Nat
    BY <1>1, <1>2, <1>5
  <2>3. /\ Add(u, c) = [i \in 1 .. (n + 1) |-> Add(u, c)[i]] /\ Add(u, c)[n + 1] = c
        /\ \A i \in 1 .. n : Add(u, c)[i] = u[i]
    <3> DEFINE a == Add(u, c)
    <3>1. Added(a, u, c, B)
      BY <2>0, AddedType, Zenon
    <3> HIDE DEF a
    <3>2. a \in Seq(B) /\ Len(a) = Len(u) + 1 /\ a[Len(u) + 1] = c /\ \A i \in 1 .. Len(u) : a[i] = u[i]
      BY <3>1 DEF Added
    <3>3. a = [i \in 1 .. Len(a) |-> a[i]]
      BY <3>2
    <3> QED
      BY <2>1, <3>2, <3>3, Zenon DEF a
  <2>4. \A i \in 1 .. (n + 1) : i \in 1 .. n \/ i = n + 1
    BY <1>1
  <2>5. \A i \in 1 .. (n + 1) : Add(u, c)[i] = Items(v[i])
    <3>1. Items(v[n + 1]) = c
      BY <1>1, Zenon DEF c
    <3>2. \A i \in 1 .. n : Add(u, c)[i] = Items(v[i])
      BY <1>1, <1>5, <2>3
    <3> QED
      BY <2>3, <2>4, <3>1, <3>2, Zenon
  <2>7. [i \in 1 .. (n + 1) |-> Items(v[i])] = [i \in 1 .. (n + 1) |-> Add(u, c)[i]]
    BY <2>5
  <2> QED
    BY <1>4, <2>3, <2>7, Zenon
<1>7. FlattenSeq(u) \in Seq(ItemSet)
  BY <1>5, FlattenType DEF B
<1>8. FlattenSeq(Add(u, c)) = Cat(FlattenSeq(u), c)
  BY <1>2, <1>5, FlattenAdd DEF B
<1> QED
  BY <1>3, <1>6, <1>7, <1>8, Zenon DEF u, v, c

-----------------------------------------------------------------------------
(* Well-formed requests of the Responses API.                              *)
IdAt(u, i) == u[i].blocks[1].id

IsCall(u, i) == u[i].type = "function_call"

IsOutput(u, i) == u[i].type = "function_call_output"

ItemsOK(u) ==
  /\ \A i \in DOMAIN u : IsCall(u, i) =>
       \E o \in DOMAIN u : /\ IsOutput(u, o) /\ i < o /\ IdAt(u, i) = IdAt(u, o)
                           /\ \A j \in i .. o : u[j].type # "message"
  /\ \A o, p \in DOMAIN u : IsOutput(u, o) /\ IsOutput(u, p) /\ IdAt(u, o) = IdAt(u, p) => o = p
  /\ Count(u, CallItems) = Count(u, OutputItems)

Numbered(u, n) == \A o \in DOMAIN u : IsOutput(u, o) => IdAt(u, o) \in 0 .. n

LEMMA ItemsAre ==
  ASSUME NEW u \in Seq(ItemSet), ItemsOK(u)
  PROVE  ResponsesWellFormed(u)
<1>1. \A i \in DOMAIN u : u[i] \in ItemSet
  OBVIOUS
<1>2. /\ {i \in DOMAIN u : u[i].type = "function_call"} = {i \in DOMAIN u : u[i] \in CallItems}
      /\ {i \in DOMAIN u : u[i].type = "function_call_output"} = {i \in DOMAIN u : u[i] \in OutputItems}
  BY <1>1 DEF CallItems, OutputItems
<1>3. Cardinality({i \in DOMAIN u : u[i].type = "function_call"})
        = Cardinality({i \in DOMAIN u : u[i].type = "function_call_output"})
  BY <1>2, Zenon DEF ItemsOK, Count
<1>4. \A i \in {i \in DOMAIN u : u[i].type = "function_call"} :
        \E o \in {o \in DOMAIN u : u[o].type = "function_call_output"} :
           /\ i < o /\ u[i].blocks[1].id = u[o].blocks[1].id
           /\ \A j \in i .. o : u[j].type # "message"
  BY Zenon DEF ItemsOK, IsCall, IsOutput, IdAt
<1>5. \A o, p \in {i \in DOMAIN u : u[i].type = "function_call_output"} :
        u[o].blocks[1].id = u[p].blocks[1].id => o = p
  BY Zenon DEF ItemsOK, IsOutput, IdAt
<1> QED
  BY <1>3, <1>4, <1>5, Zenon DEF ResponsesWellFormed

LEMMA ItemsMessage ==
  ASSUME NEW u \in Seq(ItemSet), ItemsOK(u), NEW n, Numbered(u, n), NEW m \in Message
  PROVE  /\ Cat(u, TextItem(m)) \in Seq(ItemSet)
         /\ ItemsOK(Cat(u, TextItem(m))) /\ Numbered(Cat(u, TextItem(m)), n)
<1>1. CASE TextItem(m) = <<>>
  <2>1. Cat(u, <<>>) = u
    BY CatEmpty
  <2> QED
    BY <1>1, <2>1, Zenon
<1>2. ASSUME NEW x \in ItemSet, x.type = "message", TextItem(m) = <<x>>
      PROVE  /\ Cat(u, TextItem(m)) \in Seq(ItemSet)
             /\ ItemsOK(Cat(u, TextItem(m))) /\ Numbered(Cat(u, TextItem(m)), n)
  <2> DEFINE l == Len(u)
             v == Add(u, x)
  <2>1. Cat(u, TextItem(m)) = v
    <3>1. Add(u, x) = Cat(u, <<x>>)
      BY AddIsCat
    <3> QED
      BY <1>2, <3>1, Zenon
  <2>2. /\ v \in Seq(ItemSet) /\ DOMAIN v = 1 .. (l + 1) /\ DOMAIN u = 1 .. l /\ l \in Nat
        /\ v[l + 1] = x /\ \A i \in 1 .. l : v[i] = u[i]
    BY DEF Add
  <2>3. Count(v, CallItems) = Count(v, OutputItems)
    <3>1. x \notin CallItems /\ x \notin OutputItems
      BY <1>2 DEF CallItems, OutputItems
    <3>2. \A K : x \notin K => Count(v, K) = Count(u, K)
      BY CountAdd
    <3> QED
      BY <3>1, <3>2, Zenon DEF ItemsOK
  <2> HIDE DEF v, l
  <2>4. \A i \in 1 .. (l + 1) : i = l + 1 \/ i \in 1 .. l
    BY <2>2
  <2>5. ~IsCall(v, l + 1) /\ ~IsOutput(v, l + 1)
    BY <1>2, <2>2 DEF IsCall, IsOutput
  <2>6. \A i \in 1 .. l : (IsCall(v, i) <=> IsCall(u, i)) /\ (IsOutput(v, i) <=> IsOutput(u, i)) /\ IdAt(v, i) = IdAt(u, i)
    BY <2>2, Zenon DEF IsCall, IsOutput, IdAt
  <2>7. ASSUME NEW i \in DOMAIN v, IsCall(v, i)
        PROVE  \E o \in DOMAIN v : /\ IsOutput(v, o) /\ i < o /\ IdAt(v, i) = IdAt(v, o)
                                   /\ \A j \in i .. o : v[j].type # "message"
    <3>1. i \in 1 .. l /\ IsCall(u, i)
      BY <2>2, <2>4, <2>5, <2>6, <2>7
    <3>2. PICK o \in 1 .. l : /\ IsOutput(u, o) /\ i < o /\ IdAt(u, i) = IdAt(u, o)
                              /\ \A j \in i .. o : u[j].type # "message"
      BY <2>2, <3>1, Zenon DEF ItemsOK
    <3>3. o \in DOMAIN v /\ IsOutput(v, o) /\ IdAt(v, i) = IdAt(v, o)
      BY <2>2, <2>6, <3>1, <3>2
    <3>4. \A j \in i .. o : j \in 1 .. l
      BY <2>2, <3>1, <3>2
    <3>5. \A j \in i .. o : v[j].type # "message"
      BY <2>2, <3>2, <3>4, Zenon
    <3> QED
      BY <3>2, <3>3, <3>5
  <2>8. \A o \in DOMAIN v : IsOutput(v, o) => o \in DOMAIN u /\ IsOutput(u, o) /\ IdAt(v, o) = IdAt(u, o)
    BY <2>2, <2>4, <2>5, <2>6
  <2>9. \A o, p \in DOMAIN v : IsOutput(v, o) /\ IsOutput(v, p) /\ IdAt(v, o) = IdAt(v, p) => o = p
    BY <2>8, Zenon DEF ItemsOK
  <2>10. Numbered(v, n)
    BY <2>8, Zenon DEF Numbered
  <2>11. ItemsOK(v)
    BY <2>3, <2>7, <2>9 DEF ItemsOK
  <2> QED
    BY <2>1, <2>2, <2>10, <2>11, Zenon
<1> QED
  BY <1>1, <1>2, TextItemType

(* Calls C and their outputs O, in the same order and with ids that are    *)
(* not in use, leave a request well-formed.                                *)
Answered(C0, O, n, N) ==
  /\ Len(C0) = Len(O)
  /\ \A k \in 1 .. Len(O) : IdAt(C0, k) = IdAt(O, k) /\ IdAt(O, k) \in Nat /\ IdAt(O, k) > n /\ IdAt(O, k) <= N
  /\ \A k, l \in 1 .. Len(O) : IdAt(O, k) = IdAt(O, l) => k = l

LEMMA Indexing ==
  ASSUME NEW S, NEW u \in Seq(S), NEW w \in Seq(S), NEW t \in Seq(S)
  PROVE  /\ Cat(Cat(u, w), t) \in Seq(S)
         /\ Len(Cat(Cat(u, w), t)) = Len(u) + Len(w) + Len(t)
         /\ \A i \in 1 .. Len(u) : Cat(Cat(u, w), t)[i] = u[i]
         /\ \A i \in 1 .. Len(w) : Cat(Cat(u, w), t)[Len(u) + i] = w[i]
         /\ \A i \in 1 .. Len(t) : Cat(Cat(u, w), t)[Len(u) + Len(w) + i] = t[i]
<1> DEFINE n == Len(u)
           l == Len(w)
           a == Cat(u, w)
           v == Cat(a, t)
<1>1. n \in Nat /\ l \in Nat
  OBVIOUS
<1>2. a \in Seq(S) /\ Len(a) = Len(u) + Len(w) /\ (\A i \in 1 .. Len(u) : a[i] = u[i])
      /\ \A i \in 1 .. Len(w) : a[Len(u) + i] = w[i]
  BY DEF Cat
<1>2a. a \in Seq(S)
  BY <1>2
<1> HIDE DEF a, n, l
<1>3. v \in Seq(S) /\ Len(v) = Len(a) + Len(t) /\ (\A i \in 1 .. Len(a) : v[i] = a[i])
      /\ \A i \in 1 .. Len(t) : v[Len(a) + i] = t[i]
  BY <1>2a DEF Cat
<1> HIDE DEF v
<1>4. /\ Len(a) = n + l /\ Len(v) = n + l + Len(t)
      /\ \A i \in 1 .. n : i \in 1 .. (n + l)
      /\ \A i \in 1 .. l : n + i \in 1 .. (n + l)
  BY <1>1, <1>2, <1>3 DEF n, l
<1>5. /\ \A i \in 1 .. n : v[i] = a[i] /\ a[i] = u[i]
      /\ \A i \in 1 .. l : v[n + i] = a[n + i] /\ a[n + i] = w[i]
      /\ \A i \in 1 .. Len(t) : v[n + l + i] = t[i]
  BY <1>2, <1>3, <1>4, Zenon DEF n, l
<1> QED
  BY <1>3, <1>4, <1>5, Zenon DEF n, l, v, a

(* v is u, then c, then o.                                                 *)
Laid(v, u, c, o) ==
  /\ v \in Seq(ItemSet) /\ Len(v) = Len(u) + Len(c) + Len(o)
  /\ \A i \in 1 .. Len(u) : v[i] = u[i]
  /\ \A i \in 1 .. Len(c) : v[Len(u) + i] = c[i]
  /\ \A i \in 1 .. Len(o) : v[Len(u) + Len(c) + i] = o[i]

LEMMA ItemsLaid ==
  ASSUME NEW u \in Seq(ItemSet), NEW c \in Seq(ItemSet), NEW o \in Seq(ItemSet)
  PROVE  Laid(Cat(Cat(u, c), o), u, c, o)
<1> DEFINE v == Cat(Cat(u, c), o)
<1>1. v \in Seq(ItemSet) /\ Len(v) = Len(u) + Len(c) + Len(o)
  BY Indexing
<1>2. \A i \in 1 .. Len(u) : v[i] = u[i]
  BY Indexing
<1>3. \A i \in 1 .. Len(c) : v[Len(u) + i] = c[i]
  BY Indexing
<1>4. \A i \in 1 .. Len(o) : v[Len(u) + Len(c) + i] = o[i]
  BY Indexing
<1> HIDE DEF v
<1>5. Laid(v, u, c, o)
  BY <1>1, <1>2, <1>3, <1>4 DEF Laid
<1> QED
  BY <1>5 DEF v

LEMMA ItemsRound ==
  ASSUME NEW u \in Seq(ItemSet), ItemsOK(u), NEW n \in Nat, Numbered(u, n),
         NEW C0 \in Seq(CallItems), NEW O \in Seq(OutputItems), NEW N \in Nat, N >= n,
         Answered(C0, O, n, N)
  PROVE  /\ Cat(Cat(u, C0), O) \in Seq(ItemSet)
         /\ ItemsOK(Cat(Cat(u, C0), O)) /\ Numbered(Cat(Cat(u, C0), O), N)
<1> DEFINE p == Len(u)
           q == Len(O)
           v == Cat(Cat(u, C0), O)
<1>1. p \in Nat /\ q \in Nat /\ DOMAIN u = 1 .. p
  OBVIOUS
<1>2. C0 \in Seq(ItemSet) /\ O \in Seq(ItemSet)
  BY DEF CallItems, OutputItems
<1>3. Cat(u, C0) \in Seq(ItemSet)
  BY <1>2, CatType
<1>4. Count(v, CallItems) = Count(v, OutputItems)
  <2>1. \A K : Count(Cat(u, C0), K) = Count(u, K) + Count(C0, K)
    BY <1>2, CountCat
  <2>2. \A K : Count(v, K) = Count(Cat(u, C0), K) + Count(O, K)
    BY <1>2, <1>3, CountCat
  <2>3. CallItems \cap OutputItems = {}
    BY DEF CallItems, OutputItems
  <2>0. Len(C0) = q
    BY DEF Answered
  <2>4. Count(C0, CallItems) = Len(C0) /\ Count(C0, OutputItems) = 0
    BY <2>3, CountAll
  <2>5. Count(O, OutputItems) = Len(O) /\ Count(O, CallItems) = 0
    BY <2>3, CountAll
  <2>6. Count(u, CallItems) \in Nat /\ Count(u, CallItems) = Count(u, OutputItems)
    BY CountType DEF ItemsOK
  <2>7. /\ Count(v, CallItems) = (Count(u, CallItems) + Len(C0)) + 0
        /\ Count(v, OutputItems) = (Count(u, OutputItems) + 0) + Len(O)
    BY <2>1, <2>2, <2>4, <2>5, Zenon
  <2> DEFINE c == Count(u, CallItems)
             d == Count(v, CallItems)
             e == Count(v, OutputItems)
  <2>8. c \in Nat /\ d = (c + q) + 0 /\ e = (c + 0) + q
    BY <2>0, <2>6, <2>7, Zenon
  <2> HIDE DEF c, d, e, q
  <2>9. d = e
    BY <1>1, <2>8
  <2> QED
    BY <2>9, Zenon DEF d, e
<1>5. /\ v \in Seq(ItemSet) /\ Len(v) = p + q + q
      /\ \A i \in 1 .. p : v[i] = u[i]
      /\ \A i \in 1 .. q : v[p + i] = C0[i] /\ v[p + q + i] = O[i]
  <2>1. /\ v \in Seq(ItemSet) /\ Len(v) = p + Len(C0) + q
        /\ \A i \in 1 .. p : v[i] = u[i]
        /\ \A i \in 1 .. Len(C0) : v[p + i] = C0[i]
        /\ \A i \in 1 .. q : v[p + Len(C0) + i] = O[i]
    <3> HIDE DEF v, p, q
    <3>1. Laid(v, u, C0, O)
      BY <1>2, ItemsLaid, Zenon DEF v
    <3> QED
      BY <3>1, Zenon DEF Laid, p, q
  <2>2. Len(C0) = q
    BY DEF Answered
  <2> HIDE DEF v, p, q
  <2> QED
    BY <2>1, <2>2, Zenon
<1>6. \A i \in 1 .. q : C0[i].type = "function_call" /\ O[i].type = "function_call_output"
  BY DEF CallItems, OutputItems, Answered
<1> HIDE DEF v, p, q
<1>7. DOMAIN v = 1 .. (p + q + q)
  BY <1>5
<1>8. \A i \in 1 .. (p + q + q) :
        i \in 1 .. p \/ (\E k \in 1 .. q : i = p + k) \/ (\E k \in 1 .. q : i = p + q + k)
  <2> SUFFICES ASSUME NEW i \in 1 .. (p + q + q)
               PROVE i \in 1 .. p \/ (i - p \in 1 .. q /\ i = p + (i - p))
                       \/ (i - (p + q) \in 1 .. q /\ i = p + q + (i - (p + q)))
    OBVIOUS
  <2> QED
    BY <1>1
<1>9. \A i \in 1 .. p : (IsCall(v, i) <=> IsCall(u, i)) /\ (IsOutput(v, i) <=> IsOutput(u, i)) /\ IdAt(v, i) = IdAt(u, i)
  BY <1>5, Zenon DEF IsCall, IsOutput, IdAt
<1>10. \A k \in 1 .. q : /\ v[p + k].type = "function_call" /\ v[p + q + k].type = "function_call_output"
                         /\ IdAt(v, p + k) = IdAt(O, k) /\ IdAt(v, p + q + k) = IdAt(O, k)
  <2>1. \A k \in 1 .. q : IdAt(C0, k) = IdAt(O, k)
    BY DEF q, Answered
  <2> SUFFICES ASSUME NEW k \in 1 .. q
               PROVE  /\ v[p + k].type = "function_call" /\ v[p + q + k].type = "function_call_output"
                      /\ IdAt(v, p + k) = IdAt(O, k) /\ IdAt(v, p + q + k) = IdAt(O, k)
    OBVIOUS
  <2>2. v[p + k] = C0[k] /\ v[p + q + k] = O[k]
    BY <1>5
  <2>3. C0[k].type = "function_call" /\ O[k].type = "function_call_output"
    BY <1>6
  <2>4. IdAt(C0, k) = IdAt(O, k)
    BY <2>1
  <2> QED
    BY <2>2, <2>3, <2>4, Zenon DEF IdAt
<1>11. \A k \in 1 .. q : /\ p + k \in 1 .. (p + q + q) /\ p + q + k \in 1 .. (p + q + q)
                         /\ p + k < p + q + k
  BY <1>1
<1>12. ASSUME NEW i \in DOMAIN v, IsCall(v, i)
       PROVE  \E o \in DOMAIN v : /\ IsOutput(v, o) /\ i < o /\ IdAt(v, i) = IdAt(v, o)
                                  /\ \A j \in i .. o : v[j].type # "message"
  <2>1. CASE i \in 1 .. p
    <3>1. IsCall(u, i)
      BY <1>9, <1>12, <2>1
    <3>2. PICK o \in 1 .. p : /\ IsOutput(u, o) /\ i < o /\ IdAt(u, i) = IdAt(u, o)
                              /\ \A j \in i .. o : u[j].type # "message"
      BY <1>1, <2>1, <3>1, Zenon DEF ItemsOK
    <3>3. o \in DOMAIN v /\ IsOutput(v, o) /\ IdAt(v, i) = IdAt(v, o)
      BY <1>1, <1>7, <1>9, <2>1, <3>2
    <3>4. \A j \in i .. o : j \in 1 .. p
      BY <1>1, <2>1, <3>2
    <3>5. \A j \in i .. o : v[j].type # "message"
      BY <1>5, <3>2, <3>4, Zenon
    <3> QED
      BY <3>2, <3>3, <3>5
  <2>2. ASSUME NEW k \in 1 .. q, i = p + k
        PROVE  \E o \in DOMAIN v : /\ IsOutput(v, o) /\ i < o /\ IdAt(v, i) = IdAt(v, o)
                                   /\ \A j \in i .. o : v[j].type # "message"
    <3> DEFINE o == p + q + k
    <3>1. o \in DOMAIN v /\ i < o
      BY <1>7, <1>11, <2>2
    <3>2. IsOutput(v, o) /\ IdAt(v, i) = IdAt(v, o)
      BY <1>10, <2>2, Zenon DEF IsOutput
    <3>3. \A j \in i .. o : (\E l \in 1 .. q : j = p + l) \/ (\E l \in 1 .. q : j = p + q + l)
      <4> SUFFICES ASSUME NEW j \in i .. o
                   PROVE (j - p \in 1 .. q /\ j = p + (j - p)) \/ (j - (p + q) \in 1 .. q /\ j = p + q + (j - (p + q)))
        OBVIOUS
      <4> QED
        BY <1>1, <2>2
    <3>4. \A j \in i .. o : v[j].type = "function_call" \/ v[j].type = "function_call_output"
      <4> SUFFICES ASSUME NEW j \in i .. o
                   PROVE  v[j].type = "function_call" \/ v[j].type = "function_call_output"
        OBVIOUS
      <4>1. CASE \E l \in 1 .. q : j = p + l
        BY <1>10, <4>1
      <4>2. CASE \E l \in 1 .. q : j = p + q + l
        BY <1>10, <4>2
      <4> HIDE DEF o
      <4> QED
        BY <3>3, <4>1, <4>2
    <3>5. \A j \in i .. o : v[j].type # "message"
      BY <3>4
    <3> HIDE DEF o
    <3> QED
      BY <3>1, <3>2, <3>5
  <2>3. ASSUME NEW k \in 1 .. q, i = p + q + k  PROVE FALSE
    BY <1>10, <1>12, <2>3 DEF IsCall
  <2> QED
    BY <1>7, <1>8, <2>1, <2>2, <2>3
<1>13. ASSUME NEW o \in DOMAIN v, IsOutput(v, o)
       PROVE  \/ o \in 1 .. p /\ IsOutput(u, o) /\ IdAt(v, o) = IdAt(u, o)
              \/ \E k \in 1 .. q : o = p + q + k /\ IdAt(v, o) = IdAt(O, k)
  <2>1. ~ \E k \in 1 .. q : o = p + k
    <3> SUFFICES ASSUME NEW k \in 1 .. q, o = p + k  PROVE FALSE
      OBVIOUS
    <3> QED
      BY <1>10, <1>13 DEF IsOutput
  <2> QED
    BY <1>7, <1>8, <1>9, <1>10, <1>13, <2>1
<1>14. /\ \A k \in 1 .. q : IdAt(O, k) \in Nat /\ IdAt(O, k) > n /\ IdAt(O, k) <= N
       /\ \A k, l \in 1 .. q : IdAt(O, k) = IdAt(O, l) => k = l
       /\ \A o \in 1 .. p : IsOutput(u, o) => IdAt(u, o) <= n /\ IdAt(u, o) \in Nat
  BY <1>1 DEF Numbered, Answered, q
<1>15. ASSUME NEW o \in DOMAIN v, NEW r \in DOMAIN v, IsOutput(v, o), IsOutput(v, r), IdAt(v, o) = IdAt(v, r)
       PROVE  o = r
  <2>1. CASE o \in 1 .. p /\ IsOutput(u, o) /\ IdAt(v, o) = IdAt(u, o)
    <3>1. IdAt(u, o) <= n /\ IdAt(u, o) \in Nat
      BY <1>14, <2>1
    <3>2. ~ \E k \in 1 .. q : r = p + q + k /\ IdAt(v, r) = IdAt(O, k)
      <4> SUFFICES ASSUME NEW k \in 1 .. q, IdAt(v, r) = IdAt(O, k)  PROVE FALSE
        OBVIOUS
      <4>1. IdAt(O, k) > n /\ IdAt(O, k) \in Nat /\ IdAt(O, k) = IdAt(u, o)
        BY <1>14, <1>15, <2>1
      <4> QED
        BY <3>1, <4>1
    <3>3. r \in 1 .. p /\ IsOutput(u, r) /\ IdAt(v, r) = IdAt(u, r)
      BY <1>13, <1>15, <3>2
    <3> QED
      BY <1>1, <1>15, <2>1, <3>3, Zenon DEF ItemsOK
  <2>2. ASSUME NEW k \in 1 .. q, o = p + q + k, IdAt(v, o) = IdAt(O, k)  PROVE o = r
    <3>1. ~(r \in 1 .. p /\ IsOutput(u, r) /\ IdAt(v, r) = IdAt(u, r))
      <4> SUFFICES ASSUME r \in 1 .. p, IsOutput(u, r), IdAt(v, r) = IdAt(u, r)  PROVE FALSE
        OBVIOUS
      <4>1. IdAt(u, r) <= n /\ IdAt(u, r) \in Nat
        BY <1>14
      <4>2. IdAt(O, k) > n /\ IdAt(O, k) \in Nat /\ IdAt(O, k) = IdAt(u, r)
        BY <1>14, <1>15, <2>2
      <4> QED
        BY <4>1, <4>2
    <3>2. PICK l \in 1 .. q : r = p + q + l /\ IdAt(v, r) = IdAt(O, l)
      BY <1>13, <1>15, <3>1
    <3>3. k = l
      BY <1>14, <1>15, <2>2, <3>2
    <3> QED
      BY <2>2, <3>2, <3>3
  <2> QED
    BY <1>13, <1>15, <2>1, <2>2
<1>16. ASSUME NEW o \in DOMAIN v, IsOutput(v, o)
       PROVE  IdAt(v, o) \in 0 .. N
  <2>1. CASE o \in 1 .. p /\ IsOutput(u, o) /\ IdAt(v, o) = IdAt(u, o)
    BY <1>14, <2>1
  <2>2. ASSUME NEW k \in 1 .. q, IdAt(v, o) = IdAt(O, k)  PROVE IdAt(v, o) \in 0 .. N
    BY <1>14, <2>2
  <2> QED
    BY <1>13, <1>16, <2>1, <2>2
<1>17. ItemsOK(v)
  BY <1>4, <1>12, <1>15 DEF ItemsOK
<1>18. Numbered(v, N)
  BY <1>16, Zenon DEF Numbered
<1> QED
  BY <1>5, <1>17, <1>18, Zenon DEF v

-----------------------------------------------------------------------------
(* The blocks of items, one after the other.                               *)
Blocks(u) == [i \in DOMAIN u |-> u[i].blocks]

BlocksOf(u) == FlattenSeq(Blocks(u))

LEMMA BlocksType ==
  ASSUME NEW u \in Seq(ItemSet)
  PROVE  /\ Blocks(u) \in Seq(Seq(Block)) /\ Len(Blocks(u)) = Len(u)
         /\ \A i \in 1 .. Len(u) : Blocks(u)[i] = u[i].blocks
         /\ BlocksOf(u) \in Seq(Block)
<1> DEFINE B == Seq(Block)
           n == Len(u)
<1>1. n \in Nat /\ DOMAIN u = 1 .. n /\ \A i \in 1 .. n : u[i] \in ItemSet
  OBVIOUS
<1>2. \A x \in ItemSet : x.blocks \in B
  BY DEF ItemSet
<1> HIDE DEF B, n
<1>3. Blocks(u) = [i \in 1 .. n |-> u[i].blocks]
  BY <1>1, Zenon DEF Blocks
<1>4. \A i \in 1 .. n : u[i].blocks \in B
  BY <1>1, <1>2
<1> DEFINE b == Blocks(u)
<1>5. b \in Seq(B) /\ Len(b) = n /\ \A i \in 1 .. n : b[i] = u[i].blocks
  <2> DEFINE F(i) == u[i].blocks
  <2>1. \A i \in 1 .. n : F(i) \in B
    BY <1>4
  <2>2. b = [i \in 1 .. n |-> F(i)]
    BY <1>3
  <2> HIDE DEF F, b
  <2>3. b \in Seq(B) /\ Len(b) = n /\ \A i \in 1 .. n : b[i] = F(i)
    BY <1>1, <2>1, <2>2
  <2> QED
    BY <2>3, Zenon DEF F
<1>6. FlattenSeq(b) \in Seq(Block)
  BY <1>5, FlattenType DEF B
<1> QED
  BY <1>5, <1>6, Zenon DEF BlocksOf, B, n

LEMMA BlocksCat ==
  ASSUME NEW u \in Seq(ItemSet), NEW w \in Seq(ItemSet)
  PROVE  BlocksOf(Cat(u, w)) = Cat(BlocksOf(u), BlocksOf(w))
<1> DEFINE a == Cat(u, w)
           x == Blocks(a)
           y == Cat(Blocks(u), Blocks(w))
           n == Len(u)
           l == Len(w)
           B == Seq(Block)
<1>1. /\ a \in Seq(ItemSet) /\ Len(a) = n + l /\ n \in Nat /\ l \in Nat
      /\ (\A i \in 1 .. n : a[i] = u[i]) /\ \A i \in 1 .. l : a[n + i] = w[i]
  BY DEF Cat
<1>2. /\ Blocks(u) \in Seq(B) /\ Len(Blocks(u)) = n /\ \A i \in 1 .. n : Blocks(u)[i] = u[i].blocks
  BY BlocksType
<1>3. /\ Blocks(w) \in Seq(B) /\ Len(Blocks(w)) = l /\ \A i \in 1 .. l : Blocks(w)[i] = w[i].blocks
  BY BlocksType
<1> HIDE DEF a
<1>4. /\ x \in Seq(B) /\ Len(x) = Len(a) /\ \A i \in 1 .. Len(a) : x[i] = a[i].blocks
  BY <1>1, BlocksType
<1> HIDE DEF x, n, l, B
<1>5. /\ y \in Seq(B) /\ Len(y) = n + l
      /\ (\A i \in 1 .. n : y[i] = Blocks(u)[i]) /\ \A i \in 1 .. l : y[n + i] = Blocks(w)[i]
  <2> DEFINE r == Blocks(u)
             s == Blocks(w)
  <2>0. r \in Seq(B) /\ Len(r) = n /\ s \in Seq(B) /\ Len(s) = l
    BY <1>2, <1>3
  <2> HIDE DEF r, s
  <2>1. r \in Seq(B) /\ s \in Seq(B)
    BY <2>0
  <2>2. Cat(r, s) \in Seq(B) /\ Len(Cat(r, s)) = Len(r) + Len(s)
        /\ (\A i \in 1 .. Len(r) : Cat(r, s)[i] = r[i]) /\ \A i \in 1 .. Len(s) : Cat(r, s)[Len(r) + i] = s[i]
    BY <2>1 DEF Cat
  <2> QED
    BY <2>0, <2>2, Zenon DEF r, s, y
<1> HIDE DEF y
<1>6. \A i \in 1 .. (n + l) : x[i] = y[i]
  <2> SUFFICES ASSUME NEW i \in 1 .. (n + l)  PROVE x[i] = y[i]
    OBVIOUS
  <2>1. CASE i \in 1 .. n
    BY <1>1, <1>2, <1>4, <1>5, <2>1
  <2>2. CASE i \notin 1 .. n
    <3>1. PICK k \in 1 .. l : i = n + k
      <4>1. i - n \in 1 .. l /\ i = n + (i - n)
        BY <1>1, <2>2
      <4> QED
        BY <4>1
    <3>2. y[n + k] = w[k].blocks /\ a[n + k] = w[k]
      BY <1>1, <1>3, <1>5
    <3>3. x[i] = a[i].blocks
      BY <1>1, <1>4
    <3> QED
      BY <3>1, <3>2, <3>3
  <2> QED
    BY <2>1, <2>2
<1>7. x = y
  <2>1. Len(x) = Len(y) /\ \A i \in 1 .. Len(x) : x[i] = y[i]
    BY <1>1, <1>4, <1>5, <1>6
  <2>2. x \in Seq(B) /\ y \in Seq(B)
    BY <1>4, <1>5
  <2> QED
    BY <2>1, <2>2, SeqEqual
<1>8. FlattenSeq(Cat(Blocks(u), Blocks(w))) = Cat(FlattenSeq(Blocks(u)), FlattenSeq(Blocks(w)))
  BY <1>2, <1>3, FlattenCat DEF B
<1> QED
  BY <1>7, <1>8, Zenon DEF BlocksOf, x, y, a

LEMMA EachBlocks ==
  ASSUME NEW m \in Message, NEW type, NEW itemType \in {"message", "function_call", "function_call_output"}
  PROVE  BlocksOf(Each(m, type, itemType)) = OfType(m, type)
<1> DEFINE s == OfType(m, type)
           e == Each(m, type, itemType)
<1>1. s \in Seq(Block) /\ e = [i \in DOMAIN s |-> Item(itemType, m.role, <<s[i]>>)]
  BY OfTypeIs, Zenon DEF Each
<1> HIDE DEF s, e
<1>2. Blocks(e) = [i \in DOMAIN s |-> <<s[i]>>]
  <2>1. DOMAIN e = DOMAIN s /\ \A i \in DOMAIN s : e[i].blocks = <<s[i]>>
    <3>1. \A t, r, b : Item(t, r, b).blocks = b
      BY DEF Item
    <3> QED
      BY <1>1, <3>1, Zenon
  <2> QED
    BY <2>1, Zenon DEF Blocks
<1>3. FlattenSeq([i \in DOMAIN s |-> <<s[i]>>]) = s
  BY <1>1, FlattenOnes
<1> QED
  BY <1>2, <1>3, Zenon DEF BlocksOf, s, e

LEMMA TextBlocks ==
  ASSUME NEW m \in Message
  PROVE  BlocksOf(TextItem(m)) = OfType(m, "text")
<1> DEFINE s == OfType(m, "text")
           x == Item("message", m.role, s)
<1>1. TextItem(m) = IF s = <<>> THEN <<>> ELSE <<x>>
  BY Zenon DEF TextItem
<1>2. x.blocks = s
  BY DEF Item
<1> HIDE DEF x, s
<1>3. CASE s = <<>>
  <2>1. Blocks(<<>>) = <<>>
    BY DEF Blocks
  <2> QED
    BY <1>1, <1>3, <2>1, FlattenEmpty, Zenon DEF BlocksOf, s
<1>4. CASE s # <<>>
  <2>1. Blocks(<<x>>) = <<x.blocks>>
    BY DEF Blocks
  <2>2. FlattenSeq(<<s>>) = s
    BY FlattenOne
  <2> QED
    BY <1>1, <1>2, <1>4, <2>1, <2>2, Zenon DEF BlocksOf, s
<1> QED
  BY <1>3, <1>4

(* The blocks of a user are not calls, those of the model not outputs.     *)
Proper(m) ==
  \A b \in Range(m.content) :
     /\ m.role = "user" => b.type # "tool_use"
     /\ m.role = "assistant" => b.type # "tool_result"

(* Each block of a message that is sent is in its items, as often.         *)
LEMMA PartCount ==
  ASSUME NEW m \in Message, Proper(m), NEW b
  PROVE  Count(Part(m), {b}) = Count(BlocksOf(Items(m)), {b})
<1> DEFINE c == m.content
           k == Count(c, {b})
           N(type) == Count(OfType(m, type), {b})
<1>1. c \in Seq(Block) /\ (m.role = "user" \/ m.role = "assistant")
  BY PartType DEF Role
<1>2. k \in Nat
  BY <1>1, CountType
<1>3. Count(Part(m), {b}) = IF b \in SentBlocks THEN k ELSE 0
  BY <1>1, CountOnly DEF Part
<1>4. \A type : N(type) = IF b \in SentOf(type) THEN k ELSE 0
  <2> SUFFICES ASSUME NEW type  PROVE N(type) = IF b \in SentOf(type) THEN k ELSE 0
    OBVIOUS
  <2>1. OfType(m, type) = Only(c, SentOf(type))
    BY OfTypeIs
  <2>2. Count(Only(c, SentOf(type)), {b}) = IF b \in SentOf(type) THEN k ELSE 0
    BY <1>1, CountOnly
  <2> QED
    BY <2>1, <2>2, Zenon
<1>5. b \notin Range(c) => k = 0
  <2>1. c \in Seq(Range(c))
    BY <1>1, RangeType
  <2>2. b \notin Range(c) => Range(c) \cap {b} = {}
    OBVIOUS
  <2> HIDE DEF c
  <2> QED
    BY <2>1, <2>2, CountAll
<1>6. b \in SentBlocks => b.type \in {"text", "tool_use", "tool_result"}
  BY DEF SentBlocks, Sent
<1>7. \A type : b \in SentOf(type) <=> b \in SentBlocks /\ b.type = type
  BY DEF SentOf
<1>8. /\ Calls(m) \in Seq(ItemSet) /\ Outputs(m) \in Seq(ItemSet) /\ TextItem(m) \in Seq(ItemSet)
      /\ m.role = "user" => Items(m) = Cat(Outputs(m), TextItem(m))
      /\ m.role = "assistant" => Items(m) = Cat(TextItem(m), Calls(m))
  BY ItemsType, TextItemType
<1>9. /\ BlocksOf(Calls(m)) = OfType(m, "tool_use") /\ BlocksOf(Outputs(m)) = OfType(m, "tool_result")
      /\ BlocksOf(TextItem(m)) = OfType(m, "text")
  BY EachBlocks, TextBlocks DEF Calls, Outputs
<1>10. \A type : OfType(m, type) \in Seq(Block)
  BY OfTypeIs
<1>11. ASSUME NEW x, NEW y  PROVE Count(Cat(OfType(m, x), OfType(m, y)), {b}) = N(x) + N(y)
  <2>1. OfType(m, x) \in Seq(Block) /\ OfType(m, y) \in Seq(Block)
    BY <1>10
  <2> QED
    BY <2>1, CountCat
<1>12. CASE m.role = "user"
  <2>1. BlocksOf(Items(m)) = Cat(OfType(m, "tool_result"), OfType(m, "text"))
    <3>1. BlocksOf(Cat(Outputs(m), TextItem(m))) = Cat(BlocksOf(Outputs(m)), BlocksOf(TextItem(m)))
      BY <1>8, BlocksCat
    <3> QED
      BY <1>8, <1>9, <1>12, <3>1, Zenon
  <2>2. Count(BlocksOf(Items(m)), {b}) = N("tool_result") + N("text")
    BY <1>11, <2>1, Zenon
  <2>3. b \in Range(c) => b.type # "tool_use"
    BY <1>12 DEF Proper
  <2> HIDE DEF N, k, c
  <2> QED
    BY <1>2, <1>3, <1>4, <1>5, <1>6, <1>7, <2>2, <2>3
<1>13. CASE m.role = "assistant"
  <2>1. BlocksOf(Items(m)) = Cat(OfType(m, "text"), OfType(m, "tool_use"))
    <3>1. BlocksOf(Cat(TextItem(m), Calls(m))) = Cat(BlocksOf(TextItem(m)), BlocksOf(Calls(m)))
      BY <1>8, BlocksCat
    <3> QED
      BY <1>8, <1>9, <1>13, <3>1, Zenon
  <2>2. Count(BlocksOf(Items(m)), {b}) = N("text") + N("tool_use")
    BY <1>11, <2>1, Zenon
  <2>3. b \in Range(c) => b.type # "tool_result"
    BY <1>13 DEF Proper
  <2> HIDE DEF N, k, c
  <2> QED
    BY <1>2, <1>3, <1>4, <1>5, <1>6, <1>7, <2>2, <2>3
<1> QED
  BY <1>1, <1>12, <1>13

-----------------------------------------------------------------------------
(* What a conversation keeps, between the rounds.                          *)
SameCounts(h) == \A b \in Block : Count(SaidIn(h), {b}) = Count(BlocksOf(ToResponsesInput(h)), {b})

HistOK(h, n) ==
  /\ WireOK(ConvertMessages(h))
  /\ ItemsOK(ToResponsesInput(h)) /\ Numbered(ToResponsesInput(h), n)
  /\ SameCounts(h)

LEMMA CountsAdd ==
  ASSUME NEW h \in Seq(Message), SameCounts(h), NEW m \in Message, Proper(m)
  PROVE  SameCounts(Add(h, m))
<1> SUFFICES ASSUME NEW b \in Block
             PROVE  Count(SaidIn(Add(h, m)), {b}) = Count(BlocksOf(ToResponsesInput(Add(h, m))), {b})
  BY DEF SameCounts
<1> DEFINE u == ToResponsesInput(h)
           s == SaidIn(h)
<1>1. SaidIn(Add(h, m)) = Cat(s, Part(m)) /\ s \in Seq(Block) /\ Part(m) \in Seq(Block)
  BY SaidAdd, PartType
<1>2. u \in Seq(ItemSet) /\ ToResponsesInput(Add(h, m)) = Cat(u, Items(m)) /\ Items(m) \in Seq(ItemSet)
  BY ItemsAdd, ItemsType
<1>3. Count(s, {b}) = Count(BlocksOf(u), {b})
  BY DEF SameCounts
<1> HIDE DEF u, s
<1>4. BlocksOf(Cat(u, Items(m))) = Cat(BlocksOf(u), BlocksOf(Items(m)))
  BY <1>2, BlocksCat
<1>5. BlocksOf(u) \in Seq(Block) /\ BlocksOf(Items(m)) \in Seq(Block)
  BY <1>2, BlocksType
<1>6. Count(Cat(BlocksOf(u), BlocksOf(Items(m))), {b}) = Count(BlocksOf(u), {b}) + Count(BlocksOf(Items(m)), {b})
  BY <1>5, CountCat
<1>7. Count(Cat(s, Part(m)), {b}) = Count(s, {b}) + Count(Part(m), {b})
  BY <1>1, CountCat
<1>8. Count(Part(m), {b}) = Count(BlocksOf(Items(m)), {b})
  BY PartCount
<1> QED
  BY <1>1, <1>2, <1>3, <1>4, <1>6, <1>7, <1>8, Zenon

LEMMA HistText ==
  ASSUME NEW h \in Seq(Message), NEW n, HistOK(h, n), NEW r \in Message, r.role = "user", Proper(r),
         Len(OfType(r, "tool_result")) = 0
  PROVE  HistOK(Add(h, r), n)
<1>1. WireOK(ConvertMessages(Add(h, r)))
  BY WireText DEF HistOK
<1>2. SameCounts(Add(h, r))
  BY CountsAdd DEF HistOK
<1> DEFINE u == ToResponsesInput(h)
<1>3. /\ u \in Seq(ItemSet) /\ ToResponsesInput(Add(h, r)) = Cat(u, Items(r))
      /\ Items(r) = Cat(Outputs(r), TextItem(r)) /\ TextItem(r) \in Seq(ItemSet)
      /\ Outputs(r) \in Seq(ItemSet)
  BY ItemsAdd, ItemsType, TextItemType
<1>4. Outputs(r) = <<>>
  <2>1. Len(Outputs(r)) = 0
    BY EachType, Zenon DEF Outputs
  <2> QED
    BY <1>3, <2>1
<1>5. ItemsOK(u) /\ Numbered(u, n)
  BY DEF HistOK
<1> HIDE DEF u
<1>6. Cat(<<>>, TextItem(r)) = TextItem(r)
  BY <1>3, CatEmpty
<1>7. ItemsOK(Cat(u, TextItem(r))) /\ Numbered(Cat(u, TextItem(r)), n)
  BY <1>3, <1>5, ItemsMessage
<1> QED
  BY <1>1, <1>2, <1>3, <1>4, <1>6, <1>7, Zenon DEF HistOK

(* Ids that were not used before.                                          *)
NewIds(w, n, N) ==
  /\ \A k \in DOMAIN w : w[k] \in (n + 1) .. N
  /\ \A k, l \in DOMAIN w : w[k] = w[l] => k = l

LEMMA IdsType ==
  ASSUME NEW m \in Message, NEW type
  PROVE  /\ DOMAIN IdsOf(m, type) = 1 .. Len(OfType(m, type)) /\ Len(OfType(m, type)) \in Nat
         /\ \A k \in 1 .. Len(OfType(m, type)) : IdsOf(m, type)[k] = OfType(m, type)[k].id
<1> DEFINE s == OfType(m, type)
<1>1. s \in Seq(Block)
  BY OfTypeIs
<1>2. IdsOf(m, type) = [k \in DOMAIN s |-> s[k].id]
  BY Zenon DEF IdsOf
<1> HIDE DEF s
<1>3. DOMAIN s = 1 .. Len(s) /\ Len(s) \in Nat
  BY <1>1
<1> QED
  BY <1>2, <1>3, Zenon DEF s

LEMMA EachIds ==
  ASSUME NEW m \in Message, NEW type, NEW itemType \in {"message", "function_call", "function_call_output"}
  PROVE  \A k \in 1 .. Len(OfType(m, type)) : IdAt(Each(m, type, itemType), k) = IdsOf(m, type)[k]
<1> DEFINE s == OfType(m, type)
           e == Each(m, type, itemType)
<1>1. \A k \in 1 .. Len(s) : e[k].blocks = <<s[k]>> /\ IdsOf(m, type)[k] = s[k].id
  BY EachType, IdsType
<1> HIDE DEF s, e
<1>2. ASSUME NEW k \in 1 .. Len(s)  PROVE IdAt(e, k) = IdsOf(m, type)[k]
  <2> DEFINE x == s[k]
  <2>1. e[k].blocks = <<x>> /\ IdsOf(m, type)[k] = x.id
    BY <1>1
  <2> HIDE DEF x
  <2>2. <<x>>[1] = x
    OBVIOUS
  <2> QED
    BY <2>1, <2>2, Zenon DEF IdAt
<1> QED
  BY <1>2 DEF s, e

LEMMA HistRound ==
  ASSUME NEW h \in Seq(Message), NEW n \in Nat, HistOK(h, n), NEW N \in Nat, N >= n,
         NEW a \in Message, a.role = "assistant", Proper(a),
         NEW r \in Message, r.role = "user", Proper(r), Len(Part(r)) > 0,
         IdsOf(a, "tool_use") = IdsOf(r, "tool_result"), NewIds(IdsOf(a, "tool_use"), n, N),
         \A k \in DOMAIN IdsOf(a, "tool_use") : Part(r)[k].type = "tool_result"
  PROVE  HistOK(Add(Add(h, a), r), N)
<1> DEFINE g == Add(h, a)
           q == Len(OfType(a, "tool_use"))
<1>1. g \in Seq(Message)
  BY AddType
<1>2. q = Len(OfType(r, "tool_result")) /\ q \in Nat
  <2>1. 1 .. q = 1 .. Len(OfType(r, "tool_result")) /\ q \in Nat /\ Len(OfType(r, "tool_result")) \in Nat
    BY IdsType
  <2> HIDE DEF q
  <2> DEFINE p == Len(OfType(r, "tool_result"))
  <2>2. 1 .. q = 1 .. p /\ p \in Nat
    BY <2>1
  <2> HIDE DEF p
  <2>3. p = q
    <3>1. \A i : i \in 1 .. q <=> i \in 1 .. p
      BY <2>2
    <3> QED
      BY <2>1, <2>2, <3>1
  <2> QED
    BY <2>1, <2>3 DEF p
<1>3. Len(Part(a)) = 0 => Len(OfType(r, "tool_result")) = 0
  <2>1. Part(a) \in Seq(Block)
    BY PartType
  <2>2. OfType(a, "tool_use") = Only(Part(a), SentOf("tool_use"))
    <3> DEFINE x == [role |-> a.role, content |-> Part(a)]
    <3>1. x \in Message /\ OfType(x, "tool_use") = OfType(a, "tool_use") /\ x.content = Part(a)
      BY PartIds
    <3> HIDE DEF x
    <3>2. OfType(x, "tool_use") = Only(x.content, SentOf("tool_use"))
      BY <3>1, OfTypeIs
    <3> QED
      BY <3>1, <3>2, Zenon
  <2>3. q <= Len(Part(a))
    BY <2>1, <2>2, OnlyLen
  <2> HIDE DEF q
  <2> QED
    BY <1>2, <2>3
<1>4. WireOK(ConvertMessages(Add(g, r)))
  BY <1>3, WireRound DEF HistOK
<1>5. SameCounts(Add(g, r))
  <2>1. SameCounts(g)
    BY CountsAdd DEF HistOK
  <2> HIDE DEF g
  <2> QED
    BY <1>1, <2>1, CountsAdd
<1> DEFINE u == ToResponsesInput(h)
           c == Calls(a)
           o == Outputs(r)
           s == TextItem(a)
           t == TextItem(r)
<1>6. /\ u \in Seq(ItemSet) /\ s \in Seq(ItemSet) /\ t \in Seq(ItemSet)
      /\ c \in Seq(CallItems) /\ o \in Seq(OutputItems) /\ c \in Seq(ItemSet) /\ o \in Seq(ItemSet)
      /\ Items(a) = Cat(s, c) /\ Items(r) = Cat(o, t)
      /\ ToResponsesInput(g) = Cat(u, Items(a))
  BY ItemsAdd, ItemsType, TextItemType
<1>7. ToResponsesInput(Add(g, r)) = Cat(ToResponsesInput(g), Items(r))
  <2> HIDE DEF g
  <2> QED
    BY <1>1, ItemsAdd
<1>8. ItemsOK(u) /\ Numbered(u, n)
  BY DEF HistOK
<1>9. Answered(c, o, n, N)
  <2>1. Len(c) = q /\ Len(o) = q
    BY <1>2, EachType, Zenon DEF Calls, Outputs
  <2>2. \A k \in 1 .. q : IdAt(c, k) = IdsOf(a, "tool_use")[k] /\ IdAt(o, k) = IdsOf(a, "tool_use")[k]
    <3>1. \A k \in 1 .. q : IdAt(c, k) = IdsOf(a, "tool_use")[k]
      BY EachIds DEF Calls
    <3>2. \A k \in 1 .. Len(OfType(r, "tool_result")) : IdAt(o, k) = IdsOf(r, "tool_result")[k]
      BY EachIds DEF Outputs
    <3> QED
      BY <1>2, <3>1, <3>2, Zenon
  <2>3. DOMAIN IdsOf(a, "tool_use") = 1 .. q
    BY IdsType
  <2> HIDE DEF q, c, o
  <2>4. /\ \A k \in 1 .. q : IdAt(o, k) \in (n + 1) .. N
        /\ \A k, l \in 1 .. q : IdAt(o, k) = IdAt(o, l) => k = l
    BY <2>2, <2>3, Zenon DEF NewIds
  <2>5. \A k \in 1 .. q : IdAt(o, k) \in Nat /\ IdAt(o, k) > n /\ IdAt(o, k) <= N
    BY <2>4
  <2> QED
    BY <2>1, <2>2, <2>4, <2>5, Zenon DEF Answered
<1> HIDE DEF u, c, o, s, t, g, q
<1> DEFINE v == Cat(u, s)
           w == Cat(Cat(v, c), o)
<1>10. v \in Seq(ItemSet) /\ ItemsOK(v) /\ Numbered(v, n)
  BY <1>8, <1>6, ItemsMessage DEF s
<1> HIDE DEF v
<1>11. w \in Seq(ItemSet) /\ ItemsOK(w) /\ Numbered(w, N)
  BY <1>6, <1>9, <1>10, ItemsRound
<1> HIDE DEF w
<1>12. ItemsOK(Cat(w, t)) /\ Numbered(Cat(w, t), N)
  BY <1>11, ItemsMessage DEF t
<1>13. Cat(w, t) = ToResponsesInput(Add(g, r))
  <2>1. Cat(v, c) = Cat(u, Cat(s, c)) /\ Cat(v, c) \in Seq(ItemSet)
    <3>1. Cat(v, c) \in Seq(ItemSet)
      BY <1>6, <1>10, CatType
    <3> QED
      BY <1>6, <3>1, CatAssociative DEF v
  <2>2. Cat(Cat(Cat(v, c), o), t) = Cat(Cat(v, c), Cat(o, t))
    BY <1>6, <2>1, CatAssociative
  <2> QED
    BY <1>6, <1>7, <2>1, <2>2, Zenon DEF w
<1> QED
  BY <1>4, <1>5, <1>12, <1>13, Zenon DEF HistOK, g

-----------------------------------------------------------------------------
(* The messages of a conversation, one kind after the other.               *)
LEMMA TextSaid ==
  ASSUME NEW t \in {<<"prompt">>, <<"nudge">>, <<"reminder">>}
  PROVE  /\ NewUserText(t) \in Message /\ NewUserText(t).role = "user"
         /\ Proper(NewUserText(t)) /\ Len(Part(NewUserText(t))) > 0
         /\ OfType(NewUserText(t), "tool_result") = <<>>
<1> DEFINE m == NewUserText(t)
           b == Text(t)
<1>1. m \in Message
  BY Words, UserText
<1>2. m.role = "user" /\ m.content = <<b>>
  BY DEF NewUserText
<1>3. b.type = "text" /\ b.text = t /\ b \in Block
  BY Words DEF Text, Block, BlockType
<1>4. ~Blank(t)
  BY DEF Blank
<1>5. b \in SentBlocks
  BY <1>3, <1>4 DEF SentBlocks, Sent
<1> HIDE DEF m, b
<1> DEFINE c == <<b>>
<1>6. c \in Seq({b}) /\ Len(c) = 1 /\ Range(c) = {b}
  BY DEF Range
<1> HIDE DEF c
<1>7. Part(m) = c
  <2>1. {b} \subseteq SentBlocks /\ m.content = c
    BY <1>2, <1>5 DEF c
  <2>2. Only(c, SentBlocks) = c
    BY <1>6, <2>1, OnlyAll
  <2> QED
    BY <2>1, <2>2, Zenon DEF Part
<1>8. OfType(m, "tool_result") = <<>>
  <2>1. {b} \cap SentOf("tool_result") = {}
    BY <1>3 DEF SentOf
  <2>2. Only(c, SentOf("tool_result")) = <<>>
    BY <1>6, <2>1, OnlyNone
  <2>3. OfType(m, "tool_result") = Only(m.content, SentOf("tool_result"))
    BY <1>1, OfTypeIs
  <2> QED
    BY <1>2, <2>2, <2>3, Zenon DEF c
<1>9. Proper(m)
  BY <1>2, <1>3, <1>6 DEF Proper, c
<1> QED
  BY <1>1, <1>2, <1>6, <1>7, <1>8, <1>9 DEF m

LEMMA UsesAre ==
  ASSUME NEW m \in Message
  PROVE  ToolUses(m) = OfType(m, "tool_use")
<1> DEFINE c == m.content
           K == SentOf("tool_use")
<1>1. c \in Seq(Block) /\ OfType(m, "tool_use") = Only(c, K)
  BY PartType, OfTypeIs
<1>2. Range(c) \subseteq Block
  BY <1>1, RangeType
<1> HIDE DEF c
<1>3. {b \in Range(c) : b.type = "tool_use"} = {b \in Range(c) : b \in K}
  BY <1>2 DEF SentOf, SentBlocks, Sent
<1>4. Only(c, {b \in Range(c) : b.type = "tool_use"}) = Only(c, K)
  BY <1>1, <1>3, OnlyTest
<1> QED
  BY <1>1, <1>4, Zenon DEF ToolUses, Select, c

LEMMA ResultsAnswer ==
  ASSUME NEW m \in Message
  PROVE  /\ Results(m).role = "user" /\ Proper(Results(m))
         /\ Len(Part(Results(m))) = Len(ToolUses(m))
         /\ IdsOf(m, "tool_use") = IdsOf(Results(m), "tool_result")
         /\ \A k \in DOMAIN IdsOf(m, "tool_use") : Part(Results(m))[k].type = "tool_result"
<1> DEFINE r == Results(m)
           uses == ToolUses(m)
           K == SentOf("tool_result")
           F(k) == ToolResult(uses[k].id)
           c == [k \in DOMAIN uses |-> F(k)]
<1>1. uses \in Seq(Block) /\ r \in Message
  BY UsesType
<1>2. r = [role |-> "user", content |-> c]
  BY Zenon DEF Results
<1>3. r.role = "user" /\ r.content = c
  BY <1>2
<1>4. DOMAIN uses = 1 .. Len(uses) /\ Len(uses) \in Nat
  BY <1>1
<1>5. ASSUME NEW k \in DOMAIN uses
      PROVE  F(k) \in K /\ F(k).type = "tool_result" /\ F(k).id = uses[k].id
  <2>1. uses[k] \in Block
    BY <1>1
  <2> HIDE DEF uses
  <2>2. uses[k].id \in Nat
    BY <2>1 DEF Block
  <2>3. <<"r">> \in Seq(Piece)
    BY Words
  <2>4. F(k).type = "tool_result" /\ F(k).id = uses[k].id
    BY DEF ToolResult
  <2>5. F(k) \in Block
    BY <2>2, <2>3 DEF ToolResult, Block, BlockType
  <2> HIDE DEF F
  <2> QED
    BY <2>4, <2>5 DEF SentOf, SentBlocks, Sent
<1> HIDE DEF r, uses, K, F
<1>6. /\ c \in Seq(K) /\ Len(c) = Len(uses) /\ DOMAIN c = DOMAIN uses
      /\ \A k \in DOMAIN uses : c[k] = F(k)
  BY <1>4, <1>5
<1> HIDE DEF c
<1>7. K \subseteq SentBlocks
  BY DEF K, SentOf
<1>8. Part(r) = c
  <2>1. Only(c, SentBlocks) = c
    BY <1>6, <1>7, OnlyAll
  <2> QED
    BY <1>3, <2>1, Zenon DEF Part
<1>9. OfType(r, "tool_result") = c
  <2>1. Only(c, K) = c
    BY <1>6, OnlyAll
  <2>2. OfType(r, "tool_result") = Only(r.content, K)
    BY <1>1, OfTypeIs DEF K
  <2> QED
    BY <1>3, <2>1, <2>2, Zenon
<1>10. IdsOf(r, "tool_result") = IdsOf(m, "tool_use") /\ DOMAIN IdsOf(m, "tool_use") = DOMAIN uses
  <2>1. IdsOf(r, "tool_result") = [k \in DOMAIN c |-> c[k].id]
    BY <1>9, Zenon DEF IdsOf
  <2>2. IdsOf(m, "tool_use") = [k \in DOMAIN uses |-> uses[k].id]
    BY UsesAre, Zenon DEF IdsOf, uses
  <2>3. \A k \in DOMAIN uses : c[k].id = uses[k].id
    BY <1>5, <1>6
  <2> QED
    BY <1>6, <2>1, <2>2, <2>3
<1>11. Proper(r)
  <2>1. \A b \in Range(c) : b.type = "tool_result"
    BY <1>5, <1>6 DEF Range
  <2> QED
    BY <1>3, <2>1 DEF Proper
<1>12. \A k \in DOMAIN IdsOf(m, "tool_use") : Part(r)[k].type = "tool_result"
  BY <1>5, <1>6, <1>8, <1>10
<1> QED
  BY <1>3, <1>6, <1>8, <1>10, <1>11, <1>12, Zenon DEF r, uses

(* The ids of an answer are new ones, each used once.                      *)
Below(c) == c * (MaxBlocks + 1)

LEMMA BelowType ==
  ASSUME NEW c \in Nat
  PROVE  Below(c) \in Nat /\ Below(c + 1) = Below(c) + MaxBlocks + 1 /\ Below(c + 1) \in Nat
BY StreamAssumption DEF Below

AnswerOK(a, n, N) ==
  a.role = "assistant" /\ Proper(a) /\ NewIds(IdsOf(a, "tool_use"), n, N)

LEMMA AnswerIds ==
  ASSUME AnswerType, NEW texts \in Texts, NEW J,
         NEW m \in Message, m.role = "assistant", m.content = Content(texts, J)
  PROVE  AnswerOK(m, Below(calls), Below(calls + 1))
<1> DEFINE u == Only(Indices, J)
           c == m.content
           K == SentOf("tool_use")
           w == OfType(m, "tool_use")
           id == [b \in Block |-> b.id]
<1>1. /\ c \in Seq(Block) /\ DOMAIN c = DOMAIN u
      /\ \A k \in DOMAIN c : /\ u[k] \in DOMAIN answer
                             /\ c[k] = BlockOf(answer[u[k]].type, texts[u[k]], u[k])
  BY ContentType
<1>2. \A i, j \in DOMAIN u : u[i] = u[j] => i = j
  <2> DEFINE g == [i \in Nat |-> i]
             S == DOMAIN answer
  <2>1. Indices \in Seq(S) /\ (\A i \in S : Indices[i] = i) /\ Len(Indices) = Len(answer)
    BY IndicesType
  <2>2. S = 1 .. Len(answer) /\ Len(answer) \in Nat
    BY DEF AnswerType
  <2>3. DOMAIN Indices = S /\ S \subseteq Nat
    BY <2>1, <2>2
  <2> HIDE DEF S
  <2>4. Apart(Indices, J, g)
    <3> SUFFICES ASSUME NEW i \in S, NEW j \in S, g[Indices[i]] = g[Indices[j]]  PROVE i = j
      BY <2>3 DEF Apart
    <3> QED
      BY <2>1, <2>3
  <2> HIDE DEF g
  <2>5. \A i, j \in DOMAIN u : g[u[i]] = g[u[j]] => i = j
    BY <2>1, <2>4, OnlyApart
  <2> QED
    BY <2>5
<1> HIDE DEF u
<1>3. ASSUME NEW k \in DOMAIN c
      PROVE  /\ c[k].type \in {"text", "thinking", "tool_use"}
             /\ c[k].type = "tool_use" => c[k].id = Id(u[k])
             /\ u[k] \in 1 .. MaxBlocks
  <2> DEFINE i == u[k]
             t == texts[i]
  <2>1. i \in DOMAIN answer /\ c[k] = BlockOf(answer[i].type, t, i)
    BY <1>1
  <2>2. i \in 1 .. MaxBlocks /\ answer[i].type \in {"text", "thinking", "tool_use"}
    BY <2>1, BlockFacts
  <2>3. t \in Seq(Piece)
    BY <2>2 DEF Texts
  <2> HIDE DEF i, t, c
  <2>4. c[k].type = answer[i].type
    BY <2>1, <2>3, BlockOfType
  <2>5. answer[i].type = "tool_use" => c[k].id = Id(i)
    BY <2>1 DEF BlockOf, ToolUse
  <2> QED
    BY <2>2, <2>4, <2>5 DEF i
<1>4. w = Only(c, K) /\ w \in Seq(Block)
  BY OfTypeIs
<1> HIDE DEF c
<1>5. Range(w) = Range(c) \cap K
  BY <1>1, <1>4, OnlyRange
<1> HIDE DEF w
<1>6. \A b \in K : b \in Block /\ b.type = "tool_use"
  BY DEF SentOf, SentBlocks
<1>7. Below(calls) \in Nat /\ Below(calls + 1) = Below(calls) + MaxBlocks + 1 /\ \A i : Id(i) = Below(calls) + i
  BY BelowType DEF AnswerType, Id, Below
<1>8. MaxBlocks \in Nat
  BY StreamAssumption
<1> HIDE DEF K
<1>9. Apart(c, K, id)
  <2> SUFFICES ASSUME NEW i \in DOMAIN c, NEW j \in DOMAIN c, c[i] \in K, c[j] \in K, id[c[i]] = id[c[j]]
               PROVE  i = j
    BY DEF Apart
  <2>1. c[i].id = c[j].id
    BY <1>6
  <2>2. Below(calls) + u[i] = Below(calls) + u[j] /\ u[i] \in 1 .. MaxBlocks /\ u[j] \in 1 .. MaxBlocks
    BY <1>3, <1>6, <1>7, <2>1
  <2>3. u[i] = u[j]
    BY <1>7, <1>8, <2>2
  <2> QED
    BY <1>1, <1>2, <2>3
<1> HIDE DEF id
<1>10. \A i, j \in DOMAIN w : id[w[i]] = id[w[j]] => i = j
  BY <1>1, <1>4, <1>9, OnlyApart
<1>11. ASSUME NEW k \in DOMAIN w
       PROVE  w[k] \in Block /\ w[k].id \in (Below(calls) + 1) .. Below(calls + 1)
  <2>1. w[k] \in Range(c) /\ w[k] \in K
    BY <1>5 DEF Range
  <2>2. PICK h \in DOMAIN c : c[h] = w[k]
    BY <2>1 DEF Range
  <2>3. w[k].id = Below(calls) + u[h] /\ u[h] \in 1 .. MaxBlocks
    BY <1>3, <1>6, <1>7, <2>1, <2>2
  <2>4. w[k].id \in (Below(calls) + 1) .. Below(calls + 1)
    BY <1>7, <1>8, <2>3
  <2> QED
    BY <1>6, <2>1, <2>4
<1>12. IdsOf(m, "tool_use") = [k \in DOMAIN w |-> w[k].id]
  BY Zenon DEF IdsOf, w
<1>13. \A b \in Block : id[b] = b.id
  BY DEF id
<1>14. \A i, j \in DOMAIN w : w[i].id = w[j].id => i = j
  BY <1>10, <1>11, <1>13
<1>15. NewIds(IdsOf(m, "tool_use"), Below(calls), Below(calls + 1))
  BY <1>11, <1>12, <1>14 DEF NewIds
<1>16. Proper(m)
  <2>1. \A b \in Range(c) : b.type # "tool_result"
    BY <1>3 DEF Range
  <2> QED
    BY <2>1 DEF Proper, c
<1> QED
  BY <1>15, <1>16 DEF AnswerOK

-----------------------------------------------------------------------------
(* The conversation between two requests.                                  *)
WireInv ==
  /\ pc = "ready" => HistOK(history, Below(calls + 1))
  /\ pc \in {"sending", "waiting", "streaming"} => HistOK(history, Below(calls))
  /\ pc = "answered" =>
       \E h \in Seq(Message), a \in Message :
          /\ history = Add(h, a) /\ HistOK(h, Below(calls))
          /\ AnswerOK(a, Below(calls), Below(calls + 1))

LEMMA NewIdsNone ==
  ASSUME NEW m \in Message, NEW r \in Message, OfType(m, "tool_use") = <<>>, OfType(r, "tool_result") = <<>>
  PROVE  IdsOf(m, "tool_use") = IdsOf(r, "tool_result") /\ DOMAIN IdsOf(m, "tool_use") = {}
<1>1. DOMAIN <<>> = {}
  OBVIOUS
<1> QED
  BY <1>1, Zenon DEF IdsOf

LEMMA GoesOn ==
  ASSUME NEW h \in Seq(Message), NEW n \in Nat, HistOK(h, n), NEW N \in Nat, N >= n,
         NEW a \in Message, AnswerOK(a, n, N)
  PROVE  /\ Len(ToolUses(a)) > 0 =>
              /\ HistOK(Add(Add(h, a), Results(a)), N)
              /\ HistOK(Add(Add(Add(h, a), Results(a)), NewUserText(<<"nudge">>)), N)
         /\ Len(ToolUses(a)) = 0 => HistOK(Add(Add(h, a), NewUserText(<<"reminder">>)), N)
<1> DEFINE r == Results(a)
           x == NewUserText(<<"nudge">>)
           y == NewUserText(<<"reminder">>)
<1>1. a.role = "assistant" /\ Proper(a) /\ NewIds(IdsOf(a, "tool_use"), n, N)
  BY DEF AnswerOK
<1>2. /\ x \in Message /\ x.role = "user" /\ Proper(x) /\ Len(Part(x)) > 0 /\ OfType(x, "tool_result") = <<>>
      /\ y \in Message /\ y.role = "user" /\ Proper(y) /\ Len(Part(y)) > 0 /\ OfType(y, "tool_result") = <<>>
  BY TextSaid
<1>3. /\ r \in Message /\ r.role = "user" /\ Proper(r) /\ Len(Part(r)) = Len(ToolUses(a))
      /\ IdsOf(a, "tool_use") = IdsOf(r, "tool_result")
      /\ \A k \in DOMAIN IdsOf(a, "tool_use") : Part(r)[k].type = "tool_result"
  BY ResultsAnswer, UsesType
<1>4. Len(<<>>) = 0
  OBVIOUS
<1> HIDE DEF r, x, y
<1>5. ASSUME Len(ToolUses(a)) > 0
      PROVE  HistOK(Add(Add(h, a), r), N) /\ HistOK(Add(Add(Add(h, a), r), x), N)
  <2> DEFINE g == Add(Add(h, a), r)
  <2>1. HistOK(g, N)
    BY <1>1, <1>3, <1>5, HistRound
  <2>2. g \in Seq(Message)
    BY <1>3, AddType
  <2> HIDE DEF g
  <2>3. Len(OfType(x, "tool_result")) = 0
    BY <1>2, <1>4, Zenon
  <2>4. HistOK(Add(g, x), N)
    BY <1>2, <2>1, <2>2, <2>3, HistText
  <2> QED
    BY <2>1, <2>4 DEF g
<1>6. ASSUME Len(ToolUses(a)) = 0
      PROVE  HistOK(Add(Add(h, a), y), N)
  <2>1. OfType(a, "tool_use") = <<>>
    <3>1. ToolUses(a) \in Seq(Block) /\ ToolUses(a) = OfType(a, "tool_use")
      BY UsesType, UsesAre
    <3> QED
      BY <1>6, <3>1
  <2>2. IdsOf(a, "tool_use") = IdsOf(y, "tool_result") /\ DOMAIN IdsOf(a, "tool_use") = {}
    BY <1>2, <2>1, NewIdsNone
  <2>3. \A k \in DOMAIN IdsOf(a, "tool_use") : Part(y)[k].type = "tool_result"
    BY <2>2
  <2> QED
    BY <1>1, <1>2, <2>2, <2>3, HistRound
<1> QED
  BY <1>5, <1>6, Zenon DEF r, x, y

LEMMA FirstSaid ==
  ASSUME NEW n \in Nat
  PROVE  HistOK(<<NewUserText(<<"prompt">>)>>, n)
<1> DEFINE m == NewUserText(<<"prompt">>)
           e == <<>>
           p == Part(m)
           x == [role |-> m.role, content |-> p]
<1>1. m \in Message /\ m.role = "user" /\ Proper(m) /\ Len(p) > 0 /\ OfType(m, "tool_result") = <<>>
  BY TextSaid
<1>2. e \in Seq(Message) /\ e \in Seq(ItemSet) /\ Len(e) = 0
  OBVIOUS
<1>3. x \in Message /\ x.role = "user"
  BY <1>1, PartIds
<1> HIDE DEF m, p
<1>4. <<m>> = Add(<<>>, m)
  BY OneIsAdd
<1>5. WireOK(ConvertMessages(Add(<<>>, m)))
  <2>1. ConvertMessages(Add(e, m)) = Converted(ConvertMessages(e), m)
    BY <1>1, <1>2, ConvertAdd
  <2>2. Converted(e, m) = Add(e, x)
    <3> HIDE DEF e
    <3> QED
      BY <1>1, <1>2, ConvertedIs DEF p
  <2> HIDE DEF x
  <2>3. Len(Add(<<>>, x)) = 1 /\ Add(<<>>, x)[1] = x
    BY DEF Add
  <2> DEFINE w == Add(<<>>, x)
  <2>4. Len(w) = 1 /\ w[1] = x
    BY <2>3
  <2> HIDE DEF w
  <2>5. WireOK(w)
    BY <1>3, <2>4 DEF WireOK
  <2> QED
    BY <2>1, <2>2, <2>5, ConvertEmpty, Zenon DEF w
<1>6. ToResponsesInput(<<>>) = <<>>
  <2>1. ItemParts(<<>>) = <<>>
    BY DEF ItemParts
  <2> QED
    BY <2>1, FlattenEmpty, Zenon DEF ToResponsesInput, ItemParts
<1>7. SameCounts(<<>>)
  <2>1. SaidIn(<<>>) = <<>>
    BY ContentsEmpty, OnlyEmpty, Zenon DEF SaidIn
  <2>2. BlocksOf(<<>>) = <<>>
    <3>1. Blocks(<<>>) = <<>>
      BY DEF Blocks
    <3> QED
      BY <3>1, FlattenEmpty, Zenon DEF BlocksOf
  <2> QED
    BY <1>6, <2>1, <2>2, Zenon DEF SameCounts
<1>8. SameCounts(Add(<<>>, m))
  BY <1>1, <1>2, <1>7, CountsAdd
<1>9. ItemsOK(<<>>) /\ Numbered(<<>>, n)
  <2>1. Count(<<>>, CallItems) = Count(<<>>, OutputItems)
    BY CountEmpty, Zenon
  <2>2. DOMAIN <<>> = {}
    OBVIOUS
  <2> QED
    BY <2>1, <2>2, Zenon DEF ItemsOK, Numbered
<1>10. ToResponsesInput(Add(<<>>, m)) = Cat(<<>>, TextItem(m))
  <2>1. ToResponsesInput(Add(e, m)) = Cat(ToResponsesInput(e), Items(m))
    BY <1>1, <1>2, ItemsAdd
  <2>2. Outputs(m) \in Seq(ItemSet) /\ Len(Outputs(m)) = Len(OfType(m, "tool_result"))
    BY <1>1, ItemsType, EachType DEF Outputs
  <2>3. Outputs(m) = <<>>
    <3>1. Len(Outputs(m)) = 0
      BY <1>1, <1>2, <2>2, Zenon
    <3> QED
      BY <2>2, <3>1
  <2>4. Items(m) = Cat(Outputs(m), TextItem(m)) /\ TextItem(m) \in Seq(ItemSet)
    BY <1>1, ItemsType, TextItemType
  <2>5. Cat(<<>>, TextItem(m)) = TextItem(m)
    BY <2>4, CatEmpty
  <2> QED
    BY <1>6, <2>1, <2>3, <2>4, <2>5, Zenon
<1>11. ItemsOK(Cat(<<>>, TextItem(m))) /\ Numbered(Cat(<<>>, TextItem(m)), n)
  BY <1>1, <1>2, <1>9, ItemsMessage
<1> QED
  BY <1>4, <1>5, <1>8, <1>10, <1>11, Zenon DEF HistOK, m

LEMMA WireInit == Init => WireInv
<1> SUFFICES ASSUME Init  PROVE WireInv
  OBVIOUS
<1>1. pc = "ready" /\ calls = 0 /\ history = <<NewUserText(<<"prompt">>)>>
  BY DEF Init
<1>2. Below(calls + 1) \in Nat
  BY <1>1, BelowType
<1>3. HistOK(history, Below(calls + 1))
  BY <1>1, <1>2, FirstSaid, Zenon
<1> QED
  BY <1>1, <1>3 DEF WireInv

LEMMA WireNext == StreamInv /\ WireInv /\ [Next]_vars => WireInv'
<1> SUFFICES ASSUME StreamInv, WireInv, [Next]_vars  PROVE WireInv'
  OBVIOUS
<1>0. AnswerType /\ history \in Seq(Message) /\ calls \in Nat /\ arrived \in 0 .. Len(Events)
  BY DEF StreamInv, AnswerType
<1>1. Below(calls) \in Nat /\ Below(calls + 1) \in Nat /\ Below(calls + 1) >= Below(calls)
  <2>1. Below(calls) \in Nat /\ Below(calls + 1) = Below(calls) + MaxBlocks + 1 /\ Below(calls + 1) \in Nat /\ MaxBlocks \in Nat
    BY <1>0, BelowType, StreamAssumption
  <2> QED
    BY <2>1
<1>2. ASSUME UNCHANGED <<history, calls>>,
             pc' \in {"sending", "waiting", "streaming"} => pc \in {"sending", "waiting", "streaming"},
             pc' = "answered" => pc = "answered", pc' = "ready" => pc = "ready"
      PROVE  WireInv'
  BY <1>2, Zenon DEF WireInv
<1>3. CASE StartCall
  <2>1. CASE cancelled \/ calls = MaxCalls
    BY <1>2, <1>3, <2>1 DEF StartCall
  <2>2. CASE ~(cancelled \/ calls = MaxCalls)
    <3>1. pc = "ready" /\ pc' = "sending" /\ calls' = calls + 1 /\ history' = history
      BY <1>3, <2>2 DEF StartCall
    <3>2. HistOK(history', Below(calls'))
      BY <3>1, Zenon DEF WireInv
    <3>3. pc' # "ready" /\ pc' # "answered"
      BY <3>1
    <3> QED
      BY <3>2, <3>3, Zenon DEF WireInv
  <2> QED
    BY <2>1, <2>2
<1>4. CASE StreamEnds
  <2> DEFINE w == SubSeq(Events, 1, arrived)
             r == Aggregate(w)
             m == [role |-> "assistant", content |-> r.content]
  <2>1. /\ pc = "streaming" /\ UNCHANGED calls /\ pc' = "answered"
        /\ history' = Add(history, m)
    BY <1>4, Zenon DEF StreamEnds, Add
  <2>2. w \in Seq(EventSet)
    BY <1>0, EventsAre, Prefix
  <2> HIDE DEF w
  <2>3. r.content \in Seq(Block)
    BY <1>0, <2>2, AggregateType
  <2>4. m \in Message /\ m.role = "assistant" /\ m.content = r.content
    BY <2>3 DEF Message, Role
  <2> DEFINE acc == IF api = "anthropic" THEN MFold(Nothing, w) ELSE RFold(Nothing, w)
  <2>5. acc \in Held0
    BY <1>0, <2>2, FoldsType DEF RHeld
  <2>6. r.content = Content(acc.texts, acc.blocks \cup Recovered(acc))
    BY AggregateIs
  <2> HIDE DEF acc, r, m
  <2>7. acc.texts \in Texts
    BY <2>5 DEF Held0
  <2>8. AnswerOK(m, Below(calls), Below(calls + 1))
    BY <1>0, <2>4, <2>6, <2>7, AnswerIds
  <2>9. HistOK(history, Below(calls))
    BY <2>1 DEF WireInv
  <2>10. pc' # "ready" /\ pc' \notin {"sending", "waiting", "streaming"}
    BY <2>1
  <2>11. \E h \in Seq(Message), a \in Message :
            /\ history' = Add(h, a) /\ HistOK(h, Below(calls'))
            /\ AnswerOK(a, Below(calls'), Below(calls' + 1))
    BY <1>0, <2>1, <2>4, <2>8, <2>9, Zenon
  <2> QED
    BY <2>10, <2>11, Zenon DEF WireInv
<1>5. CASE LoopGoesOn
  <2>1. PICK h \in Seq(Message), a \in Message :
           /\ history = Add(h, a) /\ HistOK(h, Below(calls))
           /\ AnswerOK(a, Below(calls), Below(calls + 1))
    BY <1>5, Zenon DEF LoopGoesOn, WireInv
  <2>2. Last(history) = a
    <3>1. Last(Add(h, a)) = a
      BY Said
    <3> QED
      BY <2>1, <3>1, Zenon
  <2> DEFINE x == Results(a)
             y == NewUserText(<<"nudge">>)
             z == NewUserText(<<"reminder">>)
  <2>3. /\ UNCHANGED calls
        /\ \/ pc' = "ended"
           \/ /\ pc' = "ready" /\ ToolUses(a) # <<>>
              /\ history' = Append(history, x) \/ history' = history \o <<x, y>>
           \/ pc' = "ready" /\ ToolUses(a) = <<>> /\ history' = Append(history, z)
    BY <1>5, <2>2, Zenon DEF LoopGoesOn, Results
  <2>4. x \in Message /\ y \in Message /\ z \in Message
    BY UsesType, UserText, Words
  <2> DEFINE l == Len(ToolUses(a))
  <2>5. (ToolUses(a) = <<>> => l = 0) /\ (ToolUses(a) # <<>> => l > 0)
    <3>1. ToolUses(a) \in Seq(Block)
      BY UsesType
    <3> HIDE DEF x, y, z
    <3> QED
      BY <3>1
  <2>6. /\ l > 0 => /\ HistOK(Add(Add(h, a), x), Below(calls + 1))
                    /\ HistOK(Add(Add(Add(h, a), x), y), Below(calls + 1))
        /\ l = 0 => HistOK(Add(Add(h, a), z), Below(calls + 1))
    BY <1>1, <2>1, GoesOn
  <2> HIDE DEF x, y, z, l
  <2>7. history \o <<x, y>> = Add(Add(history, x), y)
    BY <1>0, <2>4, TwoSaid
  <2>8. CASE pc' = "ended"
    <3>1. pc' \notin {"ready", "answered", "sending", "waiting", "streaming"}
      BY <2>8
    <3> QED
      BY <3>1 DEF WireInv
  <2>9. CASE pc' = "ready"
    <3>1. HistOK(history', Below(calls + 1))
      <4>1. pc' # "ended"
        BY <2>9
      <4>2. \/ l > 0 /\ history' = Add(history, x)
            \/ l > 0 /\ history' = Add(Add(history, x), y)
            \/ l = 0 /\ history' = Add(history, z)
        BY <2>3, <2>5, <2>7, <4>1, Zenon DEF Add
      <4> QED
        BY <2>1, <2>6, <4>2, Zenon
    <3>2. pc' \notin {"answered", "sending", "waiting", "streaming"}
      BY <2>9
    <3>3. pc' # "answered" /\ pc' \notin {"sending", "waiting", "streaming"}
      BY <3>2
    <3>4. HistOK(history', Below(calls' + 1))
      BY <2>3, <3>1, Zenon
    <3> QED
      BY <3>3, <3>4, Zenon DEF WireInv
  <2> QED
    BY <2>3, <2>8, <2>9, Zenon
<1>6. CASE ConnectionFails \/ TransientStatus
  BY <1>2, <1>6 DEF ConnectionFails, TransientStatus, Retry
<1>7. CASE PermanentStatus \/ WaitCancelled \/ WaitEnds \/ StreamFails
  BY <1>2, <1>7 DEF PermanentStatus, WaitCancelled, WaitEnds, StreamFails
<1>8. CASE Accepted \/ EventArrives
  BY <1>2, <1>8 DEF Accepted, EventArrives
<1>9. CASE Interrupt \/ Terminated \/ UNCHANGED vars
  BY <1>2, <1>9 DEF Interrupt, Terminated, vars
<1> QED
  BY <1>3, <1>4, <1>5, <1>6, <1>7, <1>8, <1>9 DEF Next, Request

LEMMA HistSays ==
  ASSUME NEW h \in Seq(Message), NEW n, HistOK(h, n)
  PROVE  LET said == Select(FlattenSeq([i \in DOMAIN h |-> h[i].content]), Sent)
             wire == ConvertMessages(h)
             items == ToResponsesInput(h)
             ofItems == FlattenSeq([i \in DOMAIN items |-> items[i].blocks])
         IN  /\ MessagesWellFormed(wire) /\ ResponsesWellFormed(items)
             /\ FlattenSeq([i \in DOMAIN wire |-> wire[i].content]) = said
             /\ \A b \in Range(said) \cup Range(ofItems) :
                  Cardinality({i \in DOMAIN said : said[i] = b}) = Cardinality({i \in DOMAIN ofItems : ofItems[i] = b})
<1> DEFINE said == Select(FlattenSeq([i \in DOMAIN h |-> h[i].content]), Sent)
           wire == ConvertMessages(h)
           items == ToResponsesInput(h)
           ofItems == FlattenSeq([i \in DOMAIN items |-> items[i].blocks])
<1>1. said = SaidIn(h) /\ ofItems = BlocksOf(items) /\ FlattenSeq([i \in DOMAIN wire |-> wire[i].content]) = FlattenSeq(Contents(wire))
  BY SaidIs, Zenon DEF BlocksOf, Blocks, Contents
<1>2. wire \in Seq(Message) /\ FlattenSeq(Contents(wire)) = SaidIn(h)
  BY ConvertKeeps
<1>3. items \in Seq(ItemSet)
  BY ItemsAdd, TextSaid
<1>4. WireOK(wire) /\ ItemsOK(items) /\ SameCounts(h)
  BY DEF HistOK
<1>5. SaidIn(h) \in Seq(Block)
  BY SaidAdd, TextSaid
<1> HIDE DEF said, wire, ofItems
<1>6. BlocksOf(items) \in Seq(Block)
  BY <1>3, BlocksType
<1>7. MessagesWellFormed(wire)
  BY <1>2, <1>4, WireIs
<1>8. ResponsesWellFormed(items)
  BY <1>3, <1>4, ItemsAre
<1>9. Range(said) \cup Range(ofItems) \subseteq Block
  BY <1>1, <1>5, <1>6, RangeType
<1>10. ASSUME NEW b \in Block
       PROVE  Cardinality({i \in DOMAIN said : said[i] = b}) = Cardinality({i \in DOMAIN ofItems : ofItems[i] = b})
  <2>1. Count(said, {b}) = Count(ofItems, {b})
    BY <1>1, <1>4, Zenon DEF SameCounts
  <2>2. \A s : {i \in DOMAIN s : s[i] \in {b}} = {i \in DOMAIN s : s[i] = b}
    OBVIOUS
  <2> QED
    BY <2>1, <2>2, Zenon DEF Count
<1>11. \A b \in Range(said) \cup Range(ofItems) :
         Cardinality({i \in DOMAIN said : said[i] = b}) = Cardinality({i \in DOMAIN ofItems : ofItems[i] = b})
  BY <1>9, <1>10
<1>12. FlattenSeq([i \in DOMAIN wire |-> wire[i].content]) = said
  BY <1>1, <1>2, Zenon
<1> QED
  BY <1>7, <1>8, <1>11, <1>12, Zenon DEF said, wire, ofItems

(* Every request of a conversation, however long it grows and whatever the *)
(* answers are, is one that both providers take, and says all that was     *)
(* said.                                                                   *)
THEOREM StreamWireFaithful == FairSpec => []WireFaithful
<1>1. StreamInv /\ WireInv => WireFaithful
  <2> SUFFICES ASSUME StreamInv, WireInv, pc = "ready"  PROVE WireFaithful
    BY DEF WireFaithful
  <2>1. history \in Seq(Message) /\ HistOK(history, Below(calls + 1))
    BY DEF StreamInv, WireInv
  <2> QED
    BY <2>1, HistSays, Zenon DEF WireFaithful
<1>2. FairSpec => []WireInv
  BY StreamInvariance, WireInit, WireNext, PTL DEF FairSpec
<1> QED
  BY <1>1, <1>2, StreamInvariance, PTL

=============================================================================
