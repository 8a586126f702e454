-------------------------- MODULE AgentSenderProofs --------------------------
(***************************************************************************)
(* Proofs about AgentSender, for any number of messages, any batch size    *)
(* and any number of retries.                                              *)
(***************************************************************************)
EXTENDS AgentSender, SequenceTheorems, TLAPS

USE DEF input, sender, Msg

\* The select never waits with a full batch.
BatchInv == pc = "select" => Len(batch) < BatchSize

\* HTTP/3 is in use only while no fallback is recent, also within a request.
RestInv ==
    /\ useHTTP3 => rested
    /\ pc = "request" /\ protocol = "HTTP3" => useHTTP3

\* The requests made before the present one, over both protocols, bound the copies.
Tries == attempt + IF protocol = "HTTP1.1" THEN RetryAttempts + 1 ELSE 0

CopiesInv ==
    /\ CopiesBounded
    /\ pc = "encode" => copies = 0
    /\ pc = "request" => copies <= Tries

IInv == TypeOK /\ BatchInv /\ RestInv /\ CopiesInv /\ InOrder /\ SuccessReceived
-----------------------------------------------------------------------------
(* The way of the messages *)

\* What Send appends to the channel, it appends to what was accepted.
LEMMA OrderOfSend ==
    ASSUME TypeOK, InOrder, NEW m \in Msg
    PROVE  Append(accepted, m) = handled \o batch \o Append(batchCh, m)
<1> DEFINE done == handled \o batch
<1>1. done \in Seq(Msg) /\ batchCh \in Seq(Msg) /\ <<m>> \in Seq(Msg)
  BY ConcatProperties DEF TypeOK
<1>2. accepted = done \o batchCh /\ accepted \in Seq(Msg)
  BY DEF TypeOK, InOrder
<1>. HIDE DEF done
<1>3. Append(accepted, m) = (done \o batchCh) \o <<m>>
  BY <1>2, AppendIsConcat
<1>4. (done \o batchCh) \o <<m>> = done \o (batchCh \o <<m>>)
  BY <1>1, ConcatAssociative
<1>5. batchCh \o <<m>> = Append(batchCh, m)
  BY <1>1, AppendIsConcat
<1>. QED BY <1>3, <1>4, <1>5 DEF done

\* A message that leaves the channel joins the end of the batch.
LEMMA OrderOfTake ==
    ASSUME TypeOK, batchCh # <<>>
    PROVE  handled \o Append(batch, Head(batchCh)) \o Tail(batchCh)
              = handled \o batch \o batchCh
<1> DEFINE m == Head(batchCh)
<1> DEFINE rest == Tail(batchCh)
<1> DEFINE done == handled \o batch
<1>1. m \in Msg /\ rest \in Seq(Msg) /\ <<m>> \in Seq(Msg)
  <2>1. batchCh \in Seq(Msg)
    BY DEF TypeOK
  <2>2. m \in Msg /\ rest \in Seq(Msg)
    BY <2>1, HeadTailProperties
  <2>. QED BY <2>2
<1>2. handled \in Seq(Msg) /\ batch \in Seq(Msg) /\ done \in Seq(Msg)
  BY ConcatProperties DEF TypeOK
<1>3. batchCh = <<m>> \o rest
  <2>1. batchCh \in Seq(Msg)
    BY DEF TypeOK
  <2>. QED BY <2>1
<1>. HIDE DEF m, rest
<1>4. handled \o Append(batch, m) = done \o <<m>>
  <2>1. Append(batch, m) = batch \o <<m>>
    BY <1>1, <1>2, AppendIsConcat
  <2>. QED BY <1>1, <1>2, <2>1, ConcatAssociative
<1>. HIDE DEF done
<1>5. (done \o <<m>>) \o rest = done \o batchCh
  BY <1>1, <1>2, <1>3, ConcatAssociative
<1>. QED BY <1>4, <1>5 DEF m, rest, done

\* The end of a batch moves it, whole and in order, to what is handled.
LEMMA OrderOfEnd ==
    ASSUME TypeOK, InOrder, EndBatch
    PROVE  /\ InOrder'
           /\ handled' \in Seq(Msg) /\ batch' = <<>> /\ pc' \in {"select", "returned"}
<1>1. handled' \in Seq(Msg)
  BY ConcatProperties DEF TypeOK, EndBatch
<1>2. handled' \o batch' = handled'
  BY <1>1, ConcatEmptySeq DEF EndBatch
<1>. QED BY <1>1, <1>2 DEF InOrder, EndBatch

\* A request brings the receiver at most one more copy, and nothing but messages.
LEMMA RequestEffect ==
    ASSUME TypeOK, MaybeReceive \/ UNCHANGED <<copies, received>>
    PROVE  /\ copies' \in Nat /\ copies' <= copies + 1
           /\ received \subseteq received' /\ received' \subseteq Msg
<1>. HIDE DEF Msg
<1>1. InBatch \subseteq Msg
  <2>1. batch \in Seq(Msg)
    BY DEF TypeOK
  <2>2. \A i \in 1..Len(batch) : batch[i] \in Msg
    BY <2>1
  <2>. QED BY <2>2 DEF InBatch
<1>2. copies \in Nat /\ received \subseteq Msg
  BY DEF TypeOK
<1>3. \/ copies' = copies + 1 /\ received' = received \union InBatch
      \/ copies' = copies /\ received' = received
  BY DEF MaybeReceive, Receive
<1>. HIDE DEF InBatch
<1>. QED BY <1>1, <1>2, <1>3
-----------------------------------------------------------------------------
(* The invariant *)

LEMMA InitInv == Init => IInv
<1>1. Init => TypeOK
  <2>1. <<>> \in Seq(Msg) /\ Len(<<>>) = 0
    OBVIOUS
  <2>2. 0 \in 0..MaxMsg /\ 0 \in 0..RetryAttempts /\ 0 <= BatchSize /\ 0 <= 2 * BatchSize
    BY AgentSenderAssumption
  <2>3. Init => /\ batchCh = <<>> /\ batch = <<>> /\ accepted = <<>> /\ handled = <<>>
                /\ attempt = 0 /\ calls = 0 /\ copies = 0
                /\ received = {} /\ succeeded = {}
    BY DEF Init
  <2>4. Init => /\ stopping \in BOOLEAN /\ useHTTP3 \in BOOLEAN /\ rested \in BOOLEAN
                /\ last \in BOOLEAN /\ collecting \in BOOLEAN
                /\ pc = "select" /\ protocol = "HTTP3"
    BY DEF Init
  <2>. QED BY <2>1, <2>2, <2>3, <2>4 DEF TypeOK
<1>2. Init => InOrder
  BY ConcatEmptySeq DEF Init, InOrder
<1>. QED BY <1>1, <1>2, AgentSenderAssumption
       DEF Init, IInv, BatchInv, RestInv, CopiesInv, CopiesBounded, SuccessReceived

LEMMA NextInv == IInv /\ [Next]_vars => IInv'
<1>. SUFFICES ASSUME IInv, [Next]_vars PROVE IInv'
  OBVIOUS
<1>. USE AgentSenderAssumption
<1>0. TypeOK /\ BatchInv /\ RestInv /\ CopiesInv /\ InOrder /\ SuccessReceived
  BY DEF IInv
<1>1. CASE Send
  <2>1. UNCHANGED <<stopping, useHTTP3, rested, pc, batch, last, protocol, attempt, collecting,
                    copies, received, handled, succeeded>>
    BY <1>1 DEF Send
  <2>2. TypeOK'
    <3>1. /\ calls' \in 0..MaxMsg
          /\ batchCh' \in Seq(Msg) /\ Len(batchCh') <= 2 * BatchSize
          /\ accepted' \in Seq(Msg)
      <4>1. calls < MaxMsg /\ calls' = calls + 1 /\ calls + 1 \in Msg
        BY <1>0, <1>1 DEF Send, TypeOK
      <4>2. batchCh \in Seq(Msg) /\ accepted \in Seq(Msg) /\ Len(batchCh) <= 2 * BatchSize
        BY <1>0 DEF TypeOK
      <4>3. CASE Len(batchCh) < 2 * BatchSize
        <5>1. /\ batchCh' = Append(batchCh, calls + 1)
              /\ accepted' = Append(accepted, calls + 1)
          BY <1>1, <4>2, <4>3 DEF Send
        <5>. QED BY <1>0, <4>1, <4>2, <4>3, <5>1, AppendProperties DEF TypeOK
      <4>4. CASE UNCHANGED <<batchCh, accepted>>
        BY <1>0, <4>1, <4>2, <4>4 DEF TypeOK
      <4>. QED BY <1>1, <4>3, <4>4 DEF Send
    <3>. QED BY <1>0, <2>1, <3>1 DEF TypeOK
  <2>3. InOrder'
    <3>1. calls + 1 \in Msg
      BY <1>0, <1>1 DEF Send, TypeOK
    <3>2. \/ /\ batchCh' = Append(batchCh, calls + 1)
             /\ accepted' = Append(accepted, calls + 1)
          \/ UNCHANGED <<batchCh, accepted>>
      BY <1>1 DEF Send
    <3>. QED BY <1>0, <2>1, <3>1, <3>2, OrderOfSend DEF InOrder
  <2>. QED BY <1>0, <2>1, <2>2, <2>3
         DEF IInv, BatchInv, RestInv, CopiesInv, CopiesBounded, Tries, SuccessReceived
<1>2. CASE CollectorsStop \/ Close \/ FiveMinutesPass
  <2>1. TypeOK' /\ InOrder'
    BY <1>0, <1>2 DEF CollectorsStop, Close, FiveMinutesPass, TypeOK, InOrder
  <2>2. RestInv'
    BY <1>0, <1>2 DEF CollectorsStop, Close, FiveMinutesPass, RestInv
  <2>. QED BY <1>0, <1>2, <2>1, <2>2
         DEF CollectorsStop, Close, FiveMinutesPass, IInv, BatchInv, CopiesInv, CopiesBounded,
             Tries, SuccessReceived
<1>3. CASE TakeMessage
  <2>1. /\ batchCh # <<>> /\ pc = "select"
        /\ batchCh' = Tail(batchCh) /\ batch' = Append(batch, Head(batchCh))
        /\ UNCHANGED <<sender, protocol, attempt, collecting, calls, received, accepted,
                       handled, succeeded>>
    BY <1>3 DEF TakeMessage
  <2>2. /\ batchCh' \in Seq(Msg) /\ Len(batchCh') = Len(batchCh) - 1
        /\ batch' \in Seq(Msg) /\ Len(batch') = Len(batch) + 1
    BY <1>0, <2>1, HeadTailProperties, AppendProperties DEF TypeOK
  <2>3. \/ pc' = "encode" /\ last' = FALSE /\ copies' = 0
        \/ pc' = "select" /\ Len(batch') < BatchSize /\ UNCHANGED <<last, copies>>
    BY <1>0, <1>3, <2>1, <2>2 DEF TakeMessage, SendBatch, TypeOK
  <2>4. TypeOK'
    <3>1. Len(batch') <= BatchSize /\ Len(batchCh') <= 2 * BatchSize
      BY <1>0, <2>1, <2>2 DEF TypeOK, BatchInv
    <3>2. pc' \in {"select", "encode"} /\ copies' \in Nat
      BY <1>0, <2>3 DEF TypeOK
    <3>3. last' \in BOOLEAN
      BY <1>0, <2>3, Zenon DEF TypeOK
    <3>. QED BY <1>0, <2>1, <2>2, <3>1, <3>2, <3>3 DEF TypeOK
  <2>5. InOrder'
    BY <1>0, <2>1, OrderOfTake DEF InOrder
  <2>. QED BY <1>0, <2>1, <2>3, <2>4, <2>5
         DEF IInv, BatchInv, RestInv, CopiesInv, CopiesBounded, SuccessReceived
<1>4. CASE Tick \/ Stop
  <2>1. /\ UNCHANGED <<input, sender, batch, protocol, attempt, received, handled, succeeded>>
        /\ \/ pc' = "encode" /\ last' \in BOOLEAN /\ copies' = 0
           \/ pc' = "returned" /\ UNCHANGED <<last, copies>>
    BY <1>4 DEF Tick, Stop, SendBatch
  <2>2. TypeOK'
    BY <1>0, <2>1 DEF TypeOK
  <2>. QED BY <1>0, <2>1, <2>2
         DEF IInv, InOrder, BatchInv, RestInv, CopiesInv, CopiesBounded, SuccessReceived
<1>5. CASE Encode
  <2>0. pc = "encode" /\ copies = 0
    BY <1>0, <1>5 DEF Encode, CopiesInv
  <2>1. CASE EndBatch
    <3>1. /\ InOrder' /\ handled' \in Seq(Msg) /\ batch' = <<>>
          /\ pc' \in {"select", "returned"}
          /\ UNCHANGED <<input, stopping, useHTTP3, rested, last, protocol, attempt, copies,
                         received, succeeded>>
      BY <1>0, <1>5, <2>1, OrderOfEnd DEF Encode, EndBatch
    <3>2. TypeOK'
      BY <1>0, <3>1 DEF TypeOK
    <3>. QED BY <1>0, <3>1, <3>2
           DEF IInv, BatchInv, RestInv, CopiesInv, CopiesBounded, SuccessReceived
  <2>2. CASE ~EndBatch
    <3>1. /\ pc' = "request" /\ attempt' = 0
          /\ protocol' = IF useHTTP3 THEN "HTTP3" ELSE "HTTP1.1"
          /\ UNCHANGED <<input, sender, batch, last, handled, copies, received, succeeded>>
      BY <1>5, <2>2 DEF Encode
    <3>2. TypeOK' /\ InOrder'
      BY <1>0, <3>1 DEF TypeOK, InOrder
    <3>. QED BY <1>0, <2>0, <3>1, <3>2
           DEF IInv, BatchInv, RestInv, CopiesInv, CopiesBounded, Tries, SuccessReceived
  <2>. QED BY <2>1, <2>2
<1>6. CASE Succeed
  <2>1. /\ InOrder' /\ handled' \in Seq(Msg) /\ batch' = <<>>
        /\ pc' \in {"select", "returned"}
        /\ UNCHANGED <<input, stopping, rested, last, protocol, attempt>>
        /\ copies' = copies + 1 /\ useHTTP3' = (useHTTP3 \/ rested)
    BY <1>0, <1>6, OrderOfEnd DEF Succeed, Receive, EndBatch
  <2>2. /\ received' = received \union InBatch /\ succeeded' = succeeded \union InBatch
        /\ InBatch \subseteq Msg
    BY <1>0, <1>6 DEF Succeed, Receive, InBatch, TypeOK
  <2>3. copies <= Tries /\ Tries <= 2 * RetryAttempts + 1
    BY <1>0, <1>6 DEF Succeed, CopiesInv, Tries, TypeOK
  <2>4. TypeOK'
    <3>1. useHTTP3' \in BOOLEAN /\ rested' \in BOOLEAN /\ stopping' \in BOOLEAN
      BY <1>0, <2>1 DEF TypeOK
    <3>. QED BY <1>0, <2>1, <2>2, <3>1 DEF TypeOK
  <2>5. CopiesInv'
    BY <1>0, <2>1, <2>3 DEF CopiesInv, CopiesBounded, Tries, TypeOK
  <2>6. RestInv'
    BY <1>0, <2>1 DEF RestInv
  <2>. QED BY <1>0, <2>1, <2>2, <2>4, <2>5, <2>6 DEF IInv, BatchInv, SuccessReceived
<1>7. CASE Refuse \/ Unavailable \/ RetriesExhausted
  <2>1. /\ GiveUp /\ pc = "request" /\ copies <= Tries
        /\ copies' \in Nat
        /\ copies' <= copies + 1
        /\ received \subseteq received' /\ received' \subseteq Msg
    <3>1. MaybeReceive \/ UNCHANGED <<copies, received>>
      BY <1>7 DEF Refuse, Unavailable, RetriesExhausted
    <3>2. GiveUp /\ pc = "request"
      BY <1>7 DEF Refuse, Unavailable, RetriesExhausted
    <3>. QED BY <1>0, <3>1, <3>2, RequestEffect DEF CopiesInv
  <2>2. CASE protocol = "HTTP3"
    <3>1. /\ useHTTP3' = FALSE /\ rested' = FALSE
          /\ protocol' = "HTTP1.1" /\ attempt' = 0
          /\ UNCHANGED <<input, stopping, pc, batch, last, handled, succeeded>>
      BY <2>1, <2>2 DEF GiveUp
    <3>2. TypeOK' /\ InOrder'
      <4>1. useHTTP3' \in BOOLEAN /\ rested' \in BOOLEAN /\ stopping' \in BOOLEAN
        BY <1>0, <3>1 DEF TypeOK
      <4>2. protocol' \in {"HTTP3", "HTTP1.1"} /\ attempt' \in 0..RetryAttempts
        BY <3>1
      <4>3. TypeOK'
        BY <1>0, <2>1, <3>1, <4>1, <4>2 DEF TypeOK
      <4>. QED BY <1>0, <3>1, <4>3 DEF InOrder
    <3>3. copies' <= RetryAttempts + 1
      BY <1>0, <2>1, <2>2 DEF Tries, TypeOK
    <3>4. CopiesInv'
      BY <2>1, <3>1, <3>3 DEF CopiesInv, CopiesBounded, Tries
    <3>. QED BY <1>0, <2>1, <3>1, <3>2, <3>4 DEF IInv, BatchInv, RestInv, SuccessReceived
  <2>3. CASE protocol = "HTTP1.1"
    <3>1. EndBatch /\ UNCHANGED <<useHTTP3, rested, succeeded>>
      BY <2>1, <2>3 DEF GiveUp
    <3>2. /\ InOrder' /\ handled' \in Seq(Msg) /\ batch' = <<>>
          /\ pc' \in {"select", "returned"}
          /\ UNCHANGED <<input, stopping, last, protocol, attempt>>
      BY <1>0, <3>1, OrderOfEnd DEF EndBatch
    <3>3. TypeOK'
      BY <1>0, <2>1, <3>1, <3>2 DEF TypeOK
    <3>4. copies' <= 2 * (RetryAttempts + 1)
      BY <1>0, <2>1, <2>3 DEF Tries, TypeOK
    <3>. QED BY <1>0, <2>1, <3>1, <3>2, <3>3, <3>4
           DEF IInv, BatchInv, RestInv, CopiesInv, CopiesBounded, SuccessReceived
  <2>. QED BY <1>0, <2>2, <2>3 DEF TypeOK
<1>8. CASE Retry
  <2>1. /\ pc = "request" /\ attempt < RetryAttempts /\ attempt' = attempt + 1
        /\ UNCHANGED <<input, sender, pc, batch, last, protocol, handled, succeeded>>
        /\ copies <= Tries /\ copies' \in Nat /\ copies' <= copies + 1
        /\ received \subseteq received' /\ received' \subseteq Msg
    <3>1. /\ MaybeReceive
          /\ pc = "request" /\ attempt < RetryAttempts /\ attempt' = attempt + 1
          /\ UNCHANGED <<input, sender, pc, batch, last, protocol, handled, succeeded>>
      BY <1>8 DEF Retry
    <3>. QED BY <1>0, <3>1, RequestEffect DEF CopiesInv
  <2>2. TypeOK' /\ InOrder'
    BY <1>0, <2>1 DEF TypeOK, InOrder
  <2>3. CopiesInv'
    BY <1>0, <2>1, <2>2 DEF CopiesInv, CopiesBounded, Tries, TypeOK
  <2>. QED BY <1>0, <2>1, <2>2, <2>3 DEF IInv, BatchInv, RestInv, SuccessReceived
<1>9. CASE UNCHANGED vars
  BY <1>0, <1>9 DEF vars, IInv, TypeOK, BatchInv, RestInv, CopiesInv, CopiesBounded, Tries,
       InOrder, SuccessReceived
<1>. QED BY <1>1, <1>2, <1>3, <1>4, <1>5, <1>6, <1>7, <1>8, <1>9 DEF Next, Post
-----------------------------------------------------------------------------
(* Theorems *)

\* The inductive invariant holds in every reachable state.
THEOREM Correct == Spec => []IInv
<1>1. Init => IInv
  BY InitInv
<1>2. IInv /\ [Next]_vars => IInv'
  BY NextInv
<1>. QED BY <1>1, <1>2, PTL DEF Spec

\* Every variable keeps its type: the channel and the batch stay within their
\* sizes, the retries within their setting.
THEOREM TypeCorrect == Spec => []TypeOK
<1>1. IInv => TypeOK
  BY DEF IInv
<1>. QED BY <1>1, Correct, PTL

\* Every message that Send accepted is in one place, in the order of the calls.
THEOREM NothingLostOrReordered == Spec => []InOrder
<1>1. IInv => InOrder
  BY DEF IInv
<1>. QED BY <1>1, Correct, PTL

\* A message counted as a success has reached the receiver.
THEOREM SuccessIsReceipt == Spec => []SuccessReceived
<1>1. IInv => SuccessReceived
  BY DEF IInv
<1>. QED BY <1>1, Correct, PTL

\* A batch reaches the receiver once per attempt of either protocol at the most.
THEOREM AtMostOncePerAttempt == Spec => []CopiesBounded
<1>1. IInv => CopiesBounded
  BY DEF IInv, CopiesInv
<1>. QED BY <1>1, Correct, PTL

\* No request is made over HTTP/3 within five minutes of a fallback.
THEOREM HTTP3Rests == Spec => []HTTP3Rested
<1>1. IInv => HTTP3Rested
  BY DEF IInv, RestInv, HTTP3Rested
<1>. QED BY <1>1, Correct, PTL
=============================================================================
