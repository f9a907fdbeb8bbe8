----------------------------- MODULE SerialLink -----------------------------
(***************************************************************************)
(* One direction of a serial link between two devices running this         *)
(* library: what the bytes of a packet go through between the sender's    *)
(* application and the receiver's data handler.                           *)
(*                                                                         *)
(*  - the sender's application fills its Packet (module Packet) with       *)
(*    clear(), setPayload() and id writes, and hands it to send(), which   *)
(*    copies it into mSendQueue;                                           *)
(*  - the sender's worker pops it and calls sendImpl (Uart and UsbJtag     *)
(*    share the code): write(span(buffer, size)) puts `n` bytes on the     *)
(*    line, n < size is ESP_FAIL, which handleSendError reports and drops; *)
(*  - the line delivers bytes in order into the receiver's UART hardware   *)
(*    FIFO; the driver's interrupt moves them into its RX ring buffer      *)
(*    (MAX_MTU bytes, uart.cpp:34).  Flow control is off (uart.h:24): a    *)
(*    byte arriving at a full FIFO overflows it and the FIFO is reset;     *)
(*  - the receiver's worker, in Uart::processReceivedData, reads what the  *)
(*    ring holds, up to MAX_MTU bytes, and passes it to its handler.       *)
(*                                                                         *)
(* The sender's rate limit, queue capacity and the receiver's own sends    *)
(* are modelled in Transport; here they only change timing, which the      *)
(* interleaving covers.  Submissions are numbered (`k`) to tell apart two  *)
(* packets with the same bytes.                                            *)
(***************************************************************************)
EXTENDS Naturals, Sequences, SequencesExt

CONSTANTS
    MaxMtu, Bytes, Ids, Null,  \* as in module Packet
    FifoCap,      \* the UART hardware RX FIFO, scaled down
    MaxSubmits,   \* bound: send() calls that the application makes
    MaxAttempts   \* bound: sendImpl calls (never reached without retries)

ASSUME FifoCap \in Nat \ {0} /\ MaxSubmits \in Nat /\ MaxAttempts \in Nat

\* uart_driver_install(mUartNum, MAX_MTU, MAX_MTU, ...): RX ring size.
RxCap == MaxMtu

VARIABLES
    appId, appSize, appBuf, appPayload,  \* the application's Packet
    submits,     \* send() calls accepted so far
    out,         \* sender mSendQueue: <<[k, data]>>, data = buffer[0..size)
    written,     \* history: every sendImpl call, [k, data, n]
    reported,    \* history: k of packets passed to the error handler
    line,        \* bytes written and not yet arrived at the receiver
    fifo,        \* receiver UART hardware RX FIFO
    ring,        \* receiver driver RX ring buffer
    bound,       \* receiver: mDataCallback set by bind()
    received,    \* history: the chunks passed to the receiver's handler
    arrived,     \* history: bytes taken off the line
    lost         \* history: positions (in the written stream) lost to overflow

appVars == <<appId, appSize, appBuf, appPayload>>
linkVars == <<submits, out, written, reported, line, fifo, ring, bound,
              received, arrived, lost>>
vars == <<appVars, linkVars>>

P == INSTANCE Packet WITH id <- appId, size <- appSize, buffer <- appBuf,
                          payload <- appPayload

Init ==
    /\ P!Init
    /\ submits = 0 /\ out = <<>> /\ written = <<>> /\ reported = {}
    /\ line = <<>> /\ fifo = <<>> /\ ring = <<>>
    /\ bound = FALSE /\ received = <<>> /\ arrived = 0 /\ lost = {}

-----------------------------------------------------------------------------
(* The sender.                                                             *)

\* clear(), setPayload(), packet.id = ... on the application's Packet.
AppPacketStep == P!Next /\ UNCHANGED linkVars

\* Transport::send(packet): an invalid packet is refused (ESP_ERR_INVALID_ARG,
\* nothing changes); a valid one is copied into mSendQueue.
Submit ==
    /\ submits < MaxSubmits
    /\ P!IsValid
    /\ submits' = submits + 1
    /\ out' = Append(out, [k |-> submits + 1, data |-> P!Wire])
    /\ UNCHANGED <<appVars, written, reported, line, fifo, ring, bound,
                   received, arrived, lost>>

\* Mutant: every error is treated as temporary and re-enqueued.
IsTemporaryAnyError(ret) == ret # "OK"

\* Transport::isTemporary: ESP_FAIL is not temporary.
IsTemporary(ret) == ret \in {"NO_MEM", "INVALID_STATE", "TIMEOUT"}

\* Mutant: only a write of 0 bytes counts as a failure.
WriteResultZeroOnly(n, data) == IF n = 0 THEN "FAIL" ELSE "OK"

\* sendImpl: written != packet.size is ESP_FAIL.
WriteResult(n, data) == IF n # Len(data) THEN "FAIL" ELSE "OK"

\* processSendQueue: pop, sendImpl, and on an error handleSendError: the
\* error handler is called, then the packet is re-enqueued if temporary.
\* write() returns the count of bytes the driver took, 0 to size (0 also
\* when the transport is not initialized).
SendImpl ==
    /\ out # <<>>
    /\ Len(written) < MaxAttempts
    /\ \E n \in 0..Len(Head(out).data) :
          LET h   == Head(out)
              ret == WriteResult(n, h.data)
          IN /\ line' = line \o SubSeq(h.data, 1, n)
             /\ written' = Append(written, [k |-> h.k, data |-> h.data, n |-> n])
             /\ reported' = IF ret = "OK" THEN reported ELSE reported \cup {h.k}
             /\ out' = IF ret # "OK" /\ IsTemporary(ret)
                       THEN Append(Tail(out), h) ELSE Tail(out)
    /\ UNCHANGED <<appVars, submits, fifo, ring, bound, received, arrived,
                   lost>>

-----------------------------------------------------------------------------
(* The line and the receiver's UART driver (ESP-IDF, not in this tree).    *)

\* The next byte reaches a FIFO with room.
Arrive ==
    /\ line # <<>> /\ Len(fifo) < FifoCap
    /\ fifo' = Append(fifo, Head(line))
    /\ line' = Tail(line)
    /\ arrived' = arrived + 1
    /\ UNCHANGED <<appVars, submits, out, written, reported, ring, bound,
                   received, lost>>

\* A byte reaches a full FIFO (the ring is full and nobody reads): with
\* flow control disabled the FIFO overflows and the driver resets it.
Overflow ==
    /\ line # <<>> /\ Len(fifo) = FifoCap
    /\ lost' = lost \cup (arrived - Len(fifo) + 1 .. arrived + 1)
    /\ fifo' = <<>>
    /\ line' = Tail(line)
    /\ arrived' = arrived + 1
    /\ UNCHANGED <<appVars, submits, out, written, reported, ring, bound,
                   received>>

\* The RX interrupt moves a FIFO byte into a ring with room.
IsrMove ==
    /\ fifo # <<>> /\ Len(ring) < RxCap
    /\ ring' = Append(ring, Head(fifo))
    /\ fifo' = Tail(fifo)
    /\ UNCHANGED <<appVars, submits, out, written, reported, line, bound,
                   received, arrived, lost>>

-----------------------------------------------------------------------------
(* The receiver.                                                           *)

\* Transport::bind on the receiver installs its data handler.
BindReceiver ==
    /\ ~bound
    /\ bound' = TRUE
    /\ UNCHANGED <<appVars, submits, out, written, reported, line, fifo, ring,
                   received, arrived, lost>>

\* Mutant: read() only returns once a whole MAX_MTU buffer is filled.
ProcessReceivedDataFullOnly ==
    /\ bound /\ Len(ring) >= MaxMtu
    /\ LET n == MaxMtu
       IN /\ received' = Append(received, SubSeq(ring, 1, n))
          /\ ring' = SubSeq(ring, n + 1, Len(ring))
    /\ UNCHANGED <<appVars, submits, out, written, reported, line, fifo,
                   bound, arrived, lost>>

\* Mutant: uart_flush_input() after the read, to resynchronise on the next
\* packet, discards the ring and the hardware FIFO.
ProcessReceivedDataFlush ==
    /\ bound /\ ring # <<>>
    /\ LET n == IF Len(ring) < MaxMtu THEN Len(ring) ELSE MaxMtu
       IN received' = Append(received, SubSeq(ring, 1, n))
    /\ ring' = <<>> /\ fifo' = <<>>
    /\ UNCHANGED <<appVars, submits, out, written, reported, line,
                   bound, arrived, lost>>

\* Uart::processReceivedData: return unless mDataCallback is set and
\* available() > 0; read(span(packet.buffer)) waits up to 100 ms for
\* MAX_MTU bytes and returns what the ring holds by then (the waiting is
\* the interleaving of Arrive and IsrMove before this step); the chunk,
\* as packet.size bytes, goes to mDataCallback->invoke.
ProcessReceivedData ==
    /\ bound /\ ring # <<>>
    /\ LET n == IF Len(ring) < MaxMtu THEN Len(ring) ELSE MaxMtu
       IN /\ received' = Append(received, SubSeq(ring, 1, n))
          /\ ring' = SubSeq(ring, n + 1, Len(ring))
    /\ UNCHANGED <<appVars, submits, out, written, reported, line, fifo,
                   bound, arrived, lost>>

-----------------------------------------------------------------------------
Next ==
    \/ AppPacketStep \/ Submit \/ SendImpl
    \/ Arrive \/ Overflow \/ IsrMove
    \/ BindReceiver \/ ProcessReceivedData

Spec == Init /\ [][Next]_vars

\* Both workers are FreeRTOS tasks whose loops keep running, the line keeps
\* clocking bytes out and the RX interrupt is served.  The applications'
\* calls (packet writes, send, bind) are not assumed to happen.
FairSpec ==
    /\ Spec
    /\ WF_vars(SendImpl) /\ WF_vars(Arrive) /\ WF_vars(Overflow)
    /\ WF_vars(IsrMove) /\ WF_vars(ProcessReceivedData)
-----------------------------------------------------------------------------
(* Properties.                                                             *)

TypeOK ==
    /\ P!TypeOK
    /\ submits \in 0..MaxSubmits
    /\ out \in Seq([k : 1..MaxSubmits, data : Seq(Bytes)])
    /\ Len(out) <= MaxSubmits
    /\ line \in Seq(Bytes) /\ fifo \in Seq(Bytes) /\ ring \in Seq(Bytes)
    /\ Len(fifo) <= FifoCap /\ Len(ring) <= RxCap
    /\ bound \in BOOLEAN /\ reported \subseteq 1..MaxSubmits

\* The application's Packet, as in module Packet: a valid packet holds
\* exactly the data of the last setPayload that returned true, which is
\* what send() copies and sendImpl writes.
PayloadIsLastWritten == P!PayloadIsLastWritten

\* The bytes sendImpl put on the line, in order: a prefix of each packet
\* for every sendImpl call.
Stream == FlattenSeq([i \in DOMAIN written |->
                         SubSeq(written[i].data, 1, written[i].n)])

\* The bytes of Stream that arrived and were not lost to an overflow.
Kept ==
    LET pos == SelectSeq([j \in 1..arrived |-> j], LAMBDA j : j \notin lost)
    IN  [i \in DOMAIN pos |-> Stream[pos[i]]]

\* Short writes in Uart/UsbJtag::sendImpl: a packet reaches the line at
\* most once, and only part of it does exactly when the sender's error
\* handler was told (ESP_FAIL, fatal, never re-enqueued).  A receiver thus
\* never sees a packet's prefix repeated by a retry, and a truncated packet
\* on the line is never reported as sent.
TruncatedPacketsReportedNotResent ==
    /\ IsInjective([i \in DOMAIN written |-> written[i].k])
    /\ \A i \in DOMAIN written :
          (written[i].n < Len(written[i].data)) = (written[i].k \in reported)

\* Uart::processReceivedData hands over whatever the ring holds, not one
\* packet: the chunks its handler gets, followed by what the driver still
\* holds, are exactly the bytes that were written, in order, minus those an
\* overflow dropped; no read loses, repeats or reorders a byte.
PeerStreamIsSentStream ==
    /\ FlattenSeq(received) \o ring \o fifo = Kept
    /\ line = SubSeq(Stream, arrived + 1, Len(Stream))

\* Once the receiver has bound a handler, every byte written is eventually
\* passed to it or lost: nothing stays in the line, FIFO or ring for ever
\* (a read returns what arrived within its timeout, not only a full buffer).
AllBytesSettle ==
    <>bound => <>[](line = <<>> /\ fifo = <<>> /\ ring = <<>>)

-----------------------------------------------------------------------------
(* Refinement: the link implements ByteStream.  What is in transit is the  *)
(* ring, then the FIFO, then the line; a sendImpl is Write, an overflow    *)
(* (the FIFO and the byte that met it) is Lose, processReceivedData is     *)
(* Read; packet writes, send(), Arrive, IsrMove and bind are stuttering.   *)
BS == INSTANCE ByteStream
        WITH sent <- Stream, inTransit <- ring \o fifo \o line, got <- received

\* Every behaviour of sender, line, driver and receiver is one of an
\* order-keeping byte stream that may lose runs of bytes and is read in
\* chunks: no step of the receiver's read path adds, repeats, reorders or
\* silently drops a byte.
SerialLinkRefinesByteStream == BS!Spec
=============================================================================
