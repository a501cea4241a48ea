------------------------------ MODULE Streams ------------------------------
(***************************************************************************)
(* One network connection (src/common/CommAsioClient_impl.h, Link.cpp and  *)
(* the flush at the end of Connection::dispatch()): the negotiation of a   *)
(* codec, the two buffers of an asynchronous writer, and the end of it.    *)
(*                                                                         *)
(* Whatever is written on the stream is a number, counted up, so that the  *)
(* stream is intact if the other side receives 1, 2, 3 and so on.          *)
(*                                                                         *)
(* A socket takes the few bytes of a negotiation at once; the completion   *)
(* handler of such a write is queued before that of the read that is       *)
(* started next, but the main loop may start its next frame before it      *)
(* runs.  A later write takes as long as the other side lets it.           *)
(***************************************************************************)
EXTENDS Integers, Sequences

CONSTANT MaxWritten   \* bound: how many things are written on the stream

ASSUME StreamsAssumption == MaxWritten \in Nat

VARIABLES
    mNegotiate,    \* the negotiator: "progress", "failed" or "none"
    mCodec,        \* there is a codec and an encoder
    mActive,       \* m_active
    mWriteBuffer,  \* what was written and not sent
    mSendBuffer,   \* what is sent in the background
    mIsSending,
    mShouldSend,
    reading,       \* an asynchronous read is under way
    completions,   \* how much each negotiation write took whose handler has not run
    written,       \* how many things were written
    received,      \* what the other side received
    peerGone,      \* the socket is closed: the other side hung up, or this one closed it
    deadline,      \* the timer of the negotiation has not expired, or its handler not run
    cancelled,     \* the write under way was cancelled
    flushed,       \* how much had been written at the last flush() of a codec's stream
    overlapped     \* write() ran with the handler of a negotiation write outstanding

streamVars == <<mNegotiate, mCodec, mActive, mWriteBuffer, mSendBuffer, mIsSending, mShouldSend,
                reading, completions, written, received, peerGone, deadline, cancelled,
                flushed, overlapped>>

FromTo(a, b) == [i \in 1 .. (b - a + 1) |-> a + i - 1]

\* startNegotiation(): the negotiator's first poll() writes a greeting, which is sent,
\* and the first read is started.
StreamsInit ==
    /\ mNegotiate = "progress" /\ mCodec = FALSE /\ mActive = TRUE
    /\ mWriteBuffer = <<1>> /\ mSendBuffer = <<>>
    /\ mIsSending = FALSE /\ mShouldSend = FALSE
    /\ reading = TRUE /\ completions = <<1>>
    /\ written = 1 /\ received = <<1>>
    /\ peerGone = FALSE /\ deadline = TRUE /\ cancelled = FALSE /\ flushed = 0 /\ overlapped = FALSE

\* The n things that are written next.
Fresh(n) == FromTo(written + 1, written + n)

\* Mutant: what is flushed while a write is under way is left to the next flush.
WriteOut_Forgets(buffer) ==
    IF buffer = <<>> \/ mIsSending
    THEN mWriteBuffer' = buffer /\ UNCHANGED <<mSendBuffer, mIsSending, mShouldSend, cancelled, overlapped>>
    ELSE /\ mShouldSend' = FALSE
         /\ mWriteBuffer' = mSendBuffer
         /\ mSendBuffer' = buffer
         /\ mIsSending' = TRUE
         /\ cancelled' = FALSE
         /\ overlapped' = (overlapped \/ completions # <<>>)

\* write() with the given content of the write buffer: the buffers change places.
WriteOut(buffer) ==
    IF buffer = <<>>
    THEN mWriteBuffer' = buffer /\ UNCHANGED <<mSendBuffer, mIsSending, mShouldSend, cancelled, overlapped>>
    ELSE IF mIsSending
    THEN /\ mWriteBuffer' = buffer
         /\ mShouldSend' = TRUE
         /\ UNCHANGED <<mSendBuffer, mIsSending, cancelled, overlapped>>
    ELSE /\ mShouldSend' = FALSE
         /\ mWriteBuffer' = mSendBuffer
         /\ mSendBuffer' = buffer
         /\ mIsSending' = TRUE
         /\ cancelled' = FALSE
         /\ overlapped' = (overlapped \/ completions # <<>>)

\* The handler of a negotiation write.
NegotiateWritten ==
    /\ completions # <<>>
    /\ completions' = Tail(completions)
    /\ mWriteBuffer' = IF mActive
                       THEN SubSeq(mWriteBuffer, 1 + Head(completions), Len(mWriteBuffer))
                       ELSE mWriteBuffer
    /\ UNCHANGED <<mNegotiate, mCodec, mActive, mSendBuffer, mIsSending, mShouldSend, reading, written,
                   received, peerGone, cancelled, flushed, overlapped, deadline>>

\* negotiate_read(): the other side spoke, and the negotiator answers with n things
\* and goes on, negotiate_write() sending what there is, ...
NegotiateGoesOn(n) ==
    /\ mNegotiate = "progress" /\ reading /\ mActive /\ ~ peerGone
    /\ completions = <<>>
    /\ LET buffer == mWriteBuffer \o Fresh(n)
       IN  /\ mWriteBuffer' = buffer
           /\ received' = received \o buffer
           /\ completions' = IF buffer = <<>> THEN <<>> ELSE <<Len(buffer)>>
    /\ written' = written + n
    /\ UNCHANGED <<mNegotiate, mCodec, mActive, mSendBuffer, mIsSending, mShouldSend, reading, peerGone,
                   cancelled, flushed, overlapped, deadline>>

\* ... or is done: negotiate() begins the stream of the codec, and write() sends it, ...
NegotiateDone(n) ==
    /\ mNegotiate = "progress" /\ reading /\ mActive /\ ~ peerGone
    /\ completions = <<>>
    /\ mNegotiate' = "none" /\ mCodec' = TRUE
    /\ WriteOut(mWriteBuffer \o Fresh(n + 1))
    /\ written' = written + n + 1
    /\ flushed' = written'
    /\ UNCHANGED <<mActive, reading, completions, received, peerGone, deadline>>

\* ... or fails, or finds no codec: nothing is read any more.
NegotiateFails ==
    /\ mNegotiate = "progress" /\ reading /\ mActive /\ ~ peerGone
    /\ completions = <<>>
    /\ mNegotiate' \in {"failed", "none"}
    /\ reading' = FALSE
    /\ UNCHANGED <<mCodec, mActive, mWriteBuffer, mSendBuffer, mIsSending, mShouldSend, completions,
                   written, received, peerGone, cancelled, flushed, overlapped, deadline>>

\* do_read(): the other side spoke, and n answers are written.
DoRead(n) ==
    /\ mCodec /\ reading /\ ~ peerGone
    /\ reading' = mActive
    /\ mWriteBuffer' = mWriteBuffer \o Fresh(n)
    /\ written' = written + n
    /\ UNCHANGED <<mNegotiate, mCodec, mActive, mSendBuffer, mIsSending, mShouldSend, completions, received,
                   peerGone, cancelled, flushed, overlapped, deadline>>

\* The read ends with an error: the other side hung up, or it was cancelled.
ReadFails ==
    /\ reading /\ (peerGone \/ ~ mActive)
    /\ reading' = FALSE
    /\ mNegotiate' = "none"
    /\ UNCHANGED <<mCodec, mActive, mWriteBuffer, mSendBuffer, mIsSending, mShouldSend, completions, written,
                   received, peerGone, cancelled, flushed, overlapped, deadline>>

\* The handlers keep the connection alive; without them it is destroyed.
Alive == reading \/ mIsSending \/ completions # <<>> \/ deadline

\* Link::send(): nothing is written before there is an encoder.
Send ==
    /\ Alive /\ mCodec
    /\ mWriteBuffer' = Append(mWriteBuffer, written + 1)
    /\ written' = written + 1
    /\ UNCHANGED <<mNegotiate, mCodec, mActive, mSendBuffer, mIsSending, mShouldSend, reading, completions,
                   received, peerGone, cancelled, flushed, overlapped, deadline>>

\* Connection::dispatch() flushes every connection in every frame, whatever its state.
Flush ==
    /\ Alive
    /\ WriteOut(mWriteBuffer)
    /\ flushed' = IF mCodec THEN written ELSE flushed
    /\ UNCHANGED <<mNegotiate, mCodec, mActive, reading, completions, written, received, peerGone, deadline>>

\* The handler of a write: what was sent is removed, and what waits is sent.
Written ==
    /\ mIsSending /\ ~ peerGone
    /\ received' = received \o mSendBuffer
    /\ IF mShouldSend /\ mWriteBuffer # <<>>
       THEN /\ mSendBuffer' = mWriteBuffer
            /\ mWriteBuffer' = <<>>
            /\ mShouldSend' = FALSE
            /\ cancelled' = FALSE
            /\ overlapped' = (overlapped \/ completions # <<>>)
            /\ UNCHANGED mIsSending
       ELSE /\ mSendBuffer' = <<>>
            /\ mIsSending' = FALSE
            /\ UNCHANGED <<mWriteBuffer, mShouldSend, cancelled, overlapped>>
    /\ UNCHANGED <<mNegotiate, mCodec, mActive, reading, completions, written, peerGone, flushed, deadline>>

\* ... or of one that failed or was cancelled, some of it having been sent.
WriteFails ==
    /\ mIsSending /\ (peerGone \/ cancelled)
    /\ mIsSending' = FALSE
    /\ \E n \in 0 .. Len(mSendBuffer) :
          /\ received' = received \o SubSeq(mSendBuffer, 1, n)
          /\ mSendBuffer' = SubSeq(mSendBuffer, n + 1, Len(mSendBuffer))
    /\ UNCHANGED <<mNegotiate, mCodec, mActive, mWriteBuffer, mShouldSend, reading, completions, written,
                   peerGone, cancelled, flushed, overlapped, deadline>>

\* disconnect(): what is under way is cancelled.
Disconnect ==
    /\ Alive /\ mActive
    /\ mActive' = FALSE
    /\ mNegotiate' = "none"
    /\ cancelled' = mIsSending
    /\ UNCHANGED <<mCodec, mWriteBuffer, mSendBuffer, mIsSending, mShouldSend, reading, completions, written,
                   received, peerGone, flushed, overlapped, deadline>>

\* Ten seconds after the start, or cancelled: the socket is closed if the negotiator is
\* still there.
Deadline ==
    /\ deadline
    /\ deadline' = FALSE
    /\ peerGone' = (peerGone \/ mNegotiate # "none")
    /\ UNCHANGED <<mNegotiate, mCodec, mActive, mWriteBuffer, mSendBuffer, mIsSending, mShouldSend, reading,
                   completions, written, received, cancelled, flushed, overlapped>>

\* The other side hangs up.
HangUp ==
    /\ ~ peerGone
    /\ peerGone' = TRUE
    /\ UNCHANGED <<mNegotiate, mCodec, mActive, mWriteBuffer, mSendBuffer, mIsSending, mShouldSend, reading,
                   completions, written, received, deadline, cancelled, flushed, overlapped>>

StreamsNext ==
    \/ NegotiateWritten
    \/ \E n \in {0, 1} :
          /\ written + n < MaxWritten
          /\ NegotiateGoesOn(n) \/ NegotiateDone(n) \/ DoRead(n)
    \/ NegotiateFails \/ ReadFails
    \/ written < MaxWritten /\ Send
    \/ Flush \/ Written \/ WriteFails \/ Disconnect \/ Deadline \/ HangUp

StreamsSpec == StreamsInit /\ [][StreamsNext]_streamVars

-----------------------------------------------------------------------------

\* Both buffers in the order in which they are sent.
Unsent == (IF mIsSending THEN mSendBuffer ELSE <<>>) \o
          SubSeq(mWriteBuffer, 1 + (IF completions = <<>> THEN 0 ELSE Head(completions)), Len(mWriteBuffer))

\* While neither side has ended the connection, what was received, is being sent and
\* waits in the write buffer is what was written, in order, once and without a gap;
\* and with nothing being sent, all that was flushed has been received
\* (CommAsioClient_impl.h: write(), negotiate_write() and their handlers).  This is so
\* unless a frame's flush came between a negotiation write and its handler.
StreamIntact ==
    mActive /\ ~ peerGone /\ ~ overlapped =>
        /\ received \o Unsent = FromTo(1, written)
        /\ ~ mIsSending => Len(received) >= flushed
=============================================================================
