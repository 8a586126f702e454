----------------------------- MODULE AgentSender -----------------------------
(***************************************************************************)
(* The sender of the node agent, k8s/daemonset/agent/internal/sender/      *)
(* http3.go: collectors put messages in a bounded channel, one goroutine   *)
(* gathers them in batches and posts each batch over HTTP/3, or over       *)
(* HTTP/1.1 when HTTP/3 fails, with retries; main.go closes the sender     *)
(* when its collectors have stopped, or 30 seconds after it told them to.  *)
(*                                                                         *)
(* Messages are numbered in the order of the calls of Send.                *)
(***************************************************************************)
EXTENDS Integers, Sequences, FiniteSets

CONSTANTS
    MaxMsg,          \* bound: calls of Send
    BatchSize,       \* BatchSize; the channel holds twice as many
    RetryAttempts    \* RetryAttempts

ASSUME AgentSenderAssumption ==
    /\ MaxMsg \in Nat
    /\ BatchSize \in Nat \ {0}
    /\ RetryAttempts \in Nat

VARIABLES
    (* the sender *)
    batchCh,         \* the channel
    stopping,        \* stopCh is closed
    useHTTP3,        \* the protocol the next batch starts with
    rested,          \* more than five minutes since lastFallback
    (* its goroutine *)
    pc,              \* at the select, in sendBatch, in a request, or returned
    batch,           \* the batch it gathers or sends
    last,            \* sendBatch was called by the stop case
    protocol,        \* the protocol of the request
    attempt,         \* retries it has made with that protocol
    (* the collectors and the receiver *)
    collecting,      \* collectors still run
    calls,           \* how much of MaxMsg is used up
    copies,          \* how often the receiver took the batch
    received,        \* messages it took
    (* history, which no action reads *)
    accepted,        \* messages Send took, in order
    handled,         \* messages of the batches sendBatch is done with, in order
    succeeded        \* those of them counted as "success"

input  == <<batchCh, collecting, calls, accepted>>
sender == <<stopping, useHTTP3, rested>>
vars   == <<batchCh, stopping, useHTTP3, rested, pc, batch, last, protocol, attempt,
            collecting, calls, copies, received, accepted, handled, succeeded>>

Msg == 1..MaxMsg
InBatch == {batch[i] : i \in 1..Len(batch)}
-----------------------------------------------------------------------------
(* The collectors *)

\* Send: a full channel drops the message, and Send says so.
Send ==
    /\ collecting
    /\ calls < MaxMsg
    /\ calls' = calls + 1
    /\ \/ /\ Len(batchCh) < 2 * BatchSize
          /\ batchCh' = Append(batchCh, calls + 1)
          /\ accepted' = Append(accepted, calls + 1)
       \/ /\ Len(batchCh) = 2 * BatchSize
          /\ UNCHANGED <<batchCh, accepted>>
    /\ UNCHANGED <<sender, pc, batch, last, protocol, attempt, collecting,
                   copies, received, handled, succeeded>>

\* wg.Wait of main returns within its 30 seconds.
CollectorsStop ==
    /\ collecting
    /\ ~stopping
    /\ collecting' = FALSE
    /\ UNCHANGED <<batchCh, sender, pc, batch, last, protocol, attempt, calls,
                   copies, received, accepted, handled, succeeded>>

\* main calls Close, when the collectors have stopped or the 30 seconds are over.
Close ==
    /\ ~stopping
    /\ stopping' = TRUE
    /\ UNCHANGED <<input, useHTTP3, rested, pc, batch, last, protocol, attempt,
                   copies, received, handled, succeeded>>

FiveMinutesPass ==
    /\ ~rested
    /\ rested' = TRUE
    /\ UNCHANGED <<input, stopping, useHTTP3, pc, batch, last, protocol, attempt,
                   copies, received, handled, succeeded>>
-----------------------------------------------------------------------------
(* batchProcessor *)

\* sendBatch is called.
SendBatch(isLast) ==
    /\ pc' = "encode"
    /\ last' = isLast
    /\ copies' = 0

\* case msg := <-s.batchCh
TakeMessage ==
    /\ pc = "select"
    /\ batchCh # <<>>
    /\ batchCh' = Tail(batchCh)
    /\ batch' = Append(batch, Head(batchCh))
    /\ IF Len(batch) + 1 >= BatchSize
       THEN SendBatch(FALSE)
       ELSE UNCHANGED <<pc, last, copies>>
    /\ UNCHANGED <<sender, protocol, attempt, collecting, calls, received, accepted,
                   handled, succeeded>>

\* A mutant of Tick: the timer flushes full batches only.
TickFull ==
    /\ pc = "select"
    /\ Len(batch) >= BatchSize
    /\ SendBatch(FALSE)
    /\ UNCHANGED <<input, sender, batch, protocol, attempt, received, handled, succeeded>>

\* case <-ticker.C
Tick ==
    /\ pc = "select"
    /\ batch # <<>>
    /\ SendBatch(FALSE)
    /\ UNCHANGED <<input, sender, batch, protocol, attempt, received, handled, succeeded>>

\* A mutant of Stop: the return is missing.
StopWithoutReturn ==
    /\ pc = "select"
    /\ stopping
    /\ IF batch # <<>>
       THEN SendBatch(FALSE)
       ELSE UNCHANGED <<pc, last, copies>>
    /\ UNCHANGED <<input, sender, batch, protocol, attempt, received, handled, succeeded>>

\* case <-s.stopCh
Stop ==
    /\ pc = "select"
    /\ stopping
    /\ IF batch # <<>>
       THEN SendBatch(TRUE)
       ELSE pc' = "returned" /\ UNCHANGED <<last, copies>>
    /\ UNCHANGED <<input, sender, batch, protocol, attempt, received, handled, succeeded>>
-----------------------------------------------------------------------------
(* sendBatch, sendWithFallback and sendWithProtocol *)

\* A mutant of EndBatch: the slice is not reset.
EndBatchKeeping ==
    /\ handled' = handled \o batch
    /\ pc' = IF last THEN "returned" ELSE "select"
    /\ UNCHANGED <<input, stopping, batch, last, protocol, attempt>>

\* sendBatch returns, to the loop or out of it.
EndBatch ==
    /\ handled' = handled \o batch
    /\ batch' = <<>>
    /\ pc' = IF last THEN "returned" ELSE "select"
    /\ UNCHANGED <<input, stopping, last, protocol, attempt>>

\* json.Marshal and gzip; a batch that does not marshal is dropped.
Encode ==
    /\ pc = "encode"
    /\ \/ /\ pc' = "request"
          /\ protocol' = IF useHTTP3 THEN "HTTP3" ELSE "HTTP1.1"
          /\ attempt' = 0
          /\ UNCHANGED <<input, stopping, batch, last, handled>>
       \/ EndBatch
    /\ UNCHANGED <<useHTTP3, rested, copies, received, succeeded>>

\* The receiver takes the batch once more.
Receive ==
    /\ copies' = copies + 1
    /\ received' = received \union InBatch

\* The error of a request tells nothing of what the receiver did with it.
MaybeReceive == Receive \/ UNCHANGED <<copies, received>>

\* A mutant of Succeed: HTTP/3 is tried again after every success of HTTP/1.1.
SucceedRestoring ==
    /\ pc = "request"
    /\ Receive
    /\ succeeded' = succeeded \union InBatch
    /\ useHTTP3' = TRUE
    /\ EndBatch
    /\ UNCHANGED rested

\* A status of 200 to 299.  HTTP/1.1 gives way to HTTP/3 again when the last
\* fallback is five minutes old.
Succeed ==
    /\ pc = "request"
    /\ Receive
    /\ succeeded' = succeeded \union InBatch
    /\ useHTTP3' = (useHTTP3 \/ rested)
    /\ EndBatch
    /\ UNCHANGED rested

\* sendWithProtocol returns an error: HTTP/3 is given up and HTTP/1.1 is tried,
\* or the batch has failed.
GiveUp ==
    \/ /\ protocol = "HTTP3"
       /\ useHTTP3' = FALSE
       /\ rested' = FALSE
       /\ protocol' = "HTTP1.1"
       /\ attempt' = 0
       /\ UNCHANGED <<input, stopping, pc, batch, last, handled, succeeded>>
    \/ /\ protocol = "HTTP1.1"
       /\ EndBatch
       /\ UNCHANGED <<useHTTP3, rested, succeeded>>

\* A status of 400 to 499 is not retried.
Refuse ==
    /\ pc = "request"
    /\ GiveUp
    /\ UNCHANGED <<copies, received>>

\* isHTTP3UnavailableError, which a timeout is too: not retried with HTTP/3.
Unavailable ==
    /\ pc = "request"
    /\ protocol = "HTTP3"
    /\ GiveUp
    /\ MaybeReceive

\* A mutant of Retry: the loop runs to RetryAttempts + 1.
RetryOnceMore ==
    /\ pc = "request"
    /\ attempt <= RetryAttempts
    /\ attempt' = attempt + 1
    /\ MaybeReceive
    /\ UNCHANGED <<input, sender, pc, batch, last, protocol, handled, succeeded>>

\* Any other error, or status: the request is made again.
Retry ==
    /\ pc = "request"
    /\ attempt < RetryAttempts
    /\ attempt' = attempt + 1
    /\ MaybeReceive
    /\ UNCHANGED <<input, sender, pc, batch, last, protocol, handled, succeeded>>

RetriesExhausted ==
    /\ pc = "request"
    /\ attempt = RetryAttempts
    /\ GiveUp
    /\ MaybeReceive
-----------------------------------------------------------------------------
Init ==
    /\ batchCh = <<>>
    /\ stopping = FALSE
    /\ useHTTP3 = TRUE
    /\ rested = TRUE
    /\ pc = "select"
    /\ batch = <<>>
    /\ last = FALSE
    /\ protocol = "HTTP3"
    /\ attempt = 0
    /\ collecting = TRUE
    /\ calls = 0
    /\ copies = 0
    /\ received = {}
    /\ accepted = <<>>
    /\ handled = <<>>
    /\ succeeded = {}

Post == Encode \/ Succeed \/ Refuse \/ Unavailable \/ Retry \/ RetriesExhausted

Next ==
    \/ Send \/ CollectorsStop \/ Close \/ FiveMinutesPass
    \/ TakeMessage \/ Tick \/ Stop
    \/ Post

Spec == Init /\ [][Next]_vars

\* Every request ends, by a reply or by its timeout; the select takes any case
\* that stays ready, and any case that is ready again and again, since Go picks
\* among the ready ones at random.
FairSpec ==
    /\ Spec
    /\ WF_vars(Post)
    /\ SF_vars(TakeMessage)
    /\ SF_vars(Tick)
    /\ SF_vars(Stop)
-----------------------------------------------------------------------------
(* Properties *)

TypeOK ==
    /\ batchCh \in Seq(Msg) /\ Len(batchCh) <= 2 * BatchSize
    /\ stopping \in BOOLEAN
    /\ useHTTP3 \in BOOLEAN
    /\ rested \in BOOLEAN
    /\ pc \in {"select", "encode", "request", "returned"}
    /\ batch \in Seq(Msg) /\ Len(batch) <= BatchSize
    /\ last \in BOOLEAN
    /\ protocol \in {"HTTP3", "HTTP1.1"}
    /\ attempt \in 0..RetryAttempts
    /\ collecting \in BOOLEAN
    /\ calls \in 0..MaxMsg
    /\ copies \in Nat
    /\ received \subseteq Msg
    /\ accepted \in Seq(Msg)
    /\ handled \in Seq(Msg)
    /\ succeeded \subseteq Msg

\* What Send accepted goes through the channel and the batches in order, every
\* message in one batch and in one place: nothing is lost, repeated or overtaken
\* between Send and the end of sendBatch, whatever the requests do.
InOrder == accepted = handled \o batch \o batchCh

\* A message is counted as a success only if the receiver took it, over either
\* protocol.
SuccessReceived == succeeded \subseteq received

\* The receiver gets a batch at most once per attempt that the retry settings
\* allow for each of the two protocols.
CopiesBounded == copies <= 2 * (RetryAttempts + 1)

\* HTTP/3 is left alone for five minutes after it failed: it is the protocol of
\* a request only when no fallback happened since.
HTTP3Rested == pc = "request" /\ protocol = "HTTP3" => rested

\* Once the collectors call no more, every message Send accepted is posted or
\* given up, the last ones by the timer that flushes a batch that does not fill;
\* unless the sender is closed first.
EventuallyHandled == <>[](handled = accepted \/ stopping)

\* Close returns, with the batch sent or given up, although collectors that main
\* did not wait for may still call Send.
CloseReturns == stopping ~> pc = "returned" /\ batch = <<>>
=============================================================================
