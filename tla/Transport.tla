----------------------------- MODULE Transport -----------------------------
(***************************************************************************)
(* The channel-agnostic transport engine of src/src/transport.cpp (class   *)
(* net::Transport) together with the channel hooks that it calls through   *)
(* virtual dispatch: sendImpl() and processReceivedData() of the UART,     *)
(* USB-JTAG and BLE adapters.                                              *)
(*                                                                         *)
(* Actors:                                                                 *)
(*  - application threads Apps calling send, bind, start, stop, clearQueue *)
(*  - the single worker thread (mThread) running the loop installed by     *)
(*    start(): processSendQueue(); processReceivedData();                  *)
(*  - the environment: time passing, frames arriving on the link.          *)
(*                                                                         *)
(* Time is kept relative: sendDelay = max(0, mNextSendTime - now), in     *)
(* ticks of the rate-limit interval's unit.  Packets are model values;     *)
(* their bytes do not matter to the engine, only Packet::isValid() does.   *)
(***************************************************************************)
EXTENDS Naturals, Sequences, SequencesExt, Functions, FiniteSets

CONSTANTS
    Apps,            \* application threads calling the public API
    Worker,          \* the worker thread of mThread
    Packets,         \* valid packets (0 < size <= MAX_MTU), each sent at most once
    InvalidPacket,   \* a packet with size = 0: Packet::isValid() is FALSE
    DataHandlers,    \* PacketCallback objects that bind() may install
    ErrorHandlers,   \* PacketErrorFunction targets that bind() may install
    NoCallback,      \* an empty unique_ptr / std::function
    NoPacket,        \* nothing in flight
    QueueCap,        \* MAX_QUEUE_SIZE
    Interval,        \* SEND_INTERVAL_US, in ticks
    Adapters,        \* the subclasses the channel may be constructed as
    MaxArrivals,     \* bound: frames the link delivers in a behaviour
    MaxLinkFaults,   \* bound: recoverable link faults in a behaviour
    BindWhileRunning,\* whether callers may call bind() while the thread runs
    HandlerBinds     \* whether the receive handler may call bind()

ASSUME QueueCap \in Nat \ {0} /\ Interval \in Nat \ {0}
ASSUME Adapters \subseteq {"UART", "USB_JTAG", "BLE"}
ASSUME Worker \notin Apps /\ BindWhileRunning \in BOOLEAN
ASSUME HandlerBinds \in BOOLEAN

Callers == Apps \cup {Worker}

(* esp_err_t values that the engine distinguishes.                         *)
ErrorCodes == {"OK", "NO_MEM", "INVALID_STATE", "TIMEOUT", "FAIL"}

(* Mutant: every error counts as temporary, so ESP_FAIL is retried too.    *)
IsTemporaryAnyError(ret) == ret # "OK"

(* Transport::isTemporary (transport.cpp:125-130).                         *)
IsTemporary(ret) == ret \in {"NO_MEM", "INVALID_STATE", "TIMEOUT"}

(* Errors the link itself recovers from if retried (an environment        *)
(* assumption, bounded by MaxLinkFaults); ESP_FAIL is permanent.          *)
LinkRecoverable == {"NO_MEM", "INVALID_STATE", "TIMEOUT"}

VARIABLES
    adapter,        \* the subclass (Uart, UsbJtag, Ble) the object was built as
    sendQueue,      \* mSendQueue contents, head first
    threadState,    \* mThread.state(): "RUNNING" or "NOT_RUNNING"
    isInit,         \* mIsInitialized, set by the adapter constructor
    sendDelay,      \* max(0, mNextSendTime - now)
    dataCallback,   \* mDataCallback
    errorCallback,  \* mErrorCallback
    mutexOwner,     \* holder of mMutex (only send and bind take it)
    pending,        \* [Callers -> packet validated by send, not yet pushed]
    w,              \* worker: [pc, pkt, err, cb]
    appPc,          \* [Apps -> pc of the public call in progress]
    lastResult,     \* [Apps -> esp_err_t of the last send]
    inbound,        \* frames received by the driver, not yet read
    \* history variables, read only by properties and bounds
    arrivals, linkFaults, used, bound, freed, sinceSent,
    accepted, sent, retried, reported, dropped, lost, discarded,
    stale           \* packets queued or mid-send() when a stop() returned

vars == <<adapter, sendQueue, threadState, isInit, sendDelay, dataCallback,
          errorCallback, mutexOwner, pending, w, appPc, lastResult, inbound,
          arrivals, linkFaults, used, bound, freed, sinceSent,
          accepted, sent, retried, reported, dropped, lost, discarded,
          stale>>

history == <<arrivals, linkFaults, used, bound, freed, sinceSent,
             accepted, sent, retried, reported, dropped, lost, discarded,
             stale>>

(* The outcomes of one sendImpl() call.  Uart/UsbJtag::sendImpl compare   *)
(* the byte count write() returned with packet.size: a full write is      *)
(* ESP_OK, a short one (including 0 from a failed driver call) ESP_FAIL.  *)
(* BLE::sendImpl (ble.cpp, not in this tree) may return any code.         *)
WriteResult(written) == IF written = "full" THEN "OK" ELSE "FAIL"
SendImplResults ==
    IF adapter = "BLE" THEN ErrorCodes
    ELSE {WriteResult(n) : n \in {"full", "short"}}

-----------------------------------------------------------------------------
(* Transport::isInitialized (transport.cpp:99-102).                        *)
IsInitialized == isInit /\ threadState # "NOT_RUNNING"

(* Packet::isValid: only InvalidPacket has size 0.                         *)
IsValid(p) == p # InvalidPacket

Init ==
    /\ adapter \in Adapters        \* fixed for the object's lifetime
    /\ sendQueue = <<>>
    /\ threadState = "NOT_RUNNING"
    /\ isInit \in BOOLEAN          \* the adapter constructor may fail
    /\ sendDelay = 0               \* mNextSendTime = 0
    /\ dataCallback = NoCallback
    /\ errorCallback = NoCallback
    /\ mutexOwner = "none"
    /\ pending = [c \in Callers |-> NoPacket]
    /\ w = [pc |-> "idle", pkt |-> NoPacket, err |-> "OK", cb |-> NoCallback]
    /\ appPc = [a \in Apps |-> "idle"]
    /\ lastResult = [a \in Apps |-> "OK"]
    /\ inbound = 0
    /\ arrivals = 0 /\ linkFaults = 0
    /\ used = {} /\ bound = {} /\ freed = {}
    /\ sinceSent = Interval
    /\ accepted = <<>> /\ sent = <<>> /\ retried = {}
    /\ reported = {} /\ dropped = {} /\ lost = {} /\ discarded = {}
    /\ stale = {}

-----------------------------------------------------------------------------
(* Transport::send (transport.cpp:50-63), split at the point where another *)
(* thread can interleave: the lock is taken and the packet validated, then *)
(* mSendQueue.send(packet, 0) pushes it.  stop() takes no lock, and the    *)
(* worker pops without it, so both can run between the two steps.          *)
SetResult(c, r) ==
    IF c \in Apps THEN lastResult' = [lastResult EXCEPT ![c] = r]
    ELSE UNCHANGED lastResult

SendCheck(c, p) ==
    /\ mutexOwner = "none"
    /\ pending[c] = NoPacket
    /\ \/ /\ IsInitialized /\ IsValid(p)
          /\ pending' = [pending EXCEPT ![c] = p]
          /\ mutexOwner' = c
          /\ used' = used \cup {p}
          /\ UNCHANGED lastResult
       \/ /\ ~(IsInitialized /\ IsValid(p))
          /\ SetResult(c, "INVALID_ARG")
          /\ UNCHANGED <<pending, mutexOwner, used, stale>>
    /\ UNCHANGED <<sendQueue, accepted, stale>>

(* Mutant: the push ignores the capacity of mSendQueue.                   *)
SendPushIgnoresCap(c) ==
    /\ pending[c] # NoPacket
    /\ sendQueue' = Append(sendQueue, pending[c])
    /\ accepted' = Append(accepted, pending[c])
    /\ SetResult(c, "OK")
    /\ pending' = [pending EXCEPT ![c] = NoPacket]
    /\ mutexOwner' = "none"
    /\ UNCHANGED used

(* Mutant: the packet is pushed at the front (xQueueSendToFront).          *)
SendPushToFront(c) ==
    /\ pending[c] # NoPacket
    /\ \/ /\ Len(sendQueue) < QueueCap
          /\ sendQueue' = <<pending[c]>> \o sendQueue
          /\ accepted' = Append(accepted, pending[c])
          /\ SetResult(c, "OK")
       \/ /\ Len(sendQueue) >= QueueCap
          /\ SetResult(c, "INVALID_STATE")
          /\ UNCHANGED <<sendQueue, accepted, stale>>
    /\ pending' = [pending EXCEPT ![c] = NoPacket]
    /\ mutexOwner' = "none"
    /\ UNCHANGED used

SendPush(c) ==
    /\ pending[c] # NoPacket
    /\ \/ /\ Len(sendQueue) < QueueCap
          /\ sendQueue' = Append(sendQueue, pending[c])
          /\ accepted' = Append(accepted, pending[c])
          /\ SetResult(c, "OK")
       \/ /\ Len(sendQueue) >= QueueCap        \* drop-newest backpressure
          /\ SetResult(c, "INVALID_STATE")
          /\ UNCHANGED <<sendQueue, accepted, stale>>
    /\ pending' = [pending EXCEPT ![c] = NoPacket]
    /\ mutexOwner' = "none"
    /\ UNCHANGED used

AppIdle(a) == appPc[a] = "idle" /\ pending[a] = NoPacket

AppSend(a) ==
    /\ AppIdle(a)
    /\ \E p \in (Packets \ used) \cup {InvalidPacket} : SendCheck(a, p)
    /\ UNCHANGED <<adapter, threadState, isInit, sendDelay, dataCallback,
                   errorCallback, w, appPc, inbound, arrivals, linkFaults,
                   bound, freed, sinceSent, sent, retried, reported,
                   dropped, lost, discarded, stale>>

AppSendPush(a) ==
    /\ SendPush(a)
    /\ UNCHANGED <<adapter, threadState, isInit, sendDelay, dataCallback,
                   errorCallback, w, appPc, inbound, arrivals, linkFaults,
                   bound, freed, sinceSent, sent, retried, reported,
                   dropped, lost, discarded, stale>>

(* Transport::bind (transport.cpp:26-31): under mMutex, move-assigns both *)
(* members; the previous PacketCallback and error function are destroyed. *)
Rebind ==
    /\ \E d \in (DataHandlers \ bound) \cup {NoCallback},
          e \in (ErrorHandlers \ bound) \cup {NoCallback} :
          /\ dataCallback' = d
          /\ errorCallback' = e
          /\ bound' = bound \cup ({d, e} \ {NoCallback})
          /\ freed' = freed \cup ({dataCallback, errorCallback} \ {NoCallback})
    /\ UNCHANGED <<adapter, sendQueue, threadState, isInit, sendDelay, mutexOwner,
                   pending, w, appPc, lastResult, inbound, arrivals,
                   linkFaults, used, sinceSent, accepted, sent, retried,
                   reported, dropped, lost, discarded, stale>>

Bind(a) ==
    /\ AppIdle(a)
    /\ mutexOwner = "none"
    /\ BindWhileRunning \/ threadState = "NOT_RUNNING"
    /\ Rebind

(* Transport::start (transport.cpp:33-42): mThread.quickStart(loop).  On a *)
(* running thread it returns true and changes nothing.                     *)
Start(a) ==
    /\ AppIdle(a)
    /\ threadState = "NOT_RUNNING"
    /\ threadState' = "RUNNING"
    /\ w' = [w EXCEPT !.pc = "loop"]
    /\ UNCHANGED <<adapter, sendQueue, isInit, sendDelay, dataCallback, errorCallback,
                   mutexOwner, pending, appPc, lastResult, inbound, history>>

(* Transport::stop (transport.cpp:44-48), first line: mSendQueue.reset(),  *)
(* taken without mMutex.                                                   *)
StopReset(a) ==
    /\ AppIdle(a)
    /\ sendQueue' = <<>>
    /\ discarded' = discarded \cup Range(sendQueue)
    /\ appPc' = [appPc EXCEPT ![a] = "stopping"]
    /\ UNCHANGED <<adapter, threadState, isInit, sendDelay, dataCallback,
                   errorCallback, mutexOwner, pending, w, lastResult, inbound,
                   arrivals, linkFaults, used, bound, freed, sinceSent,
                   accepted, sent, retried, reported, dropped, lost, stale>>

(* Second line: mThread.stop().  The loop body runs to completion: the     *)
(* thread ends when the worker is back at the top of its loop.             *)
StopThread(a) ==
    /\ appPc[a] = "stopping"
    /\ threadState = "NOT_RUNNING" \/ w.pc = "loop"
    /\ threadState' = "NOT_RUNNING"
    /\ w' = [w EXCEPT !.pc = "idle"]
    /\ appPc' = [appPc EXCEPT ![a] = "idle"]
    /\ stale' = stale \cup ((Range(sendQueue) \cup Range(pending)) \ {NoPacket})
    /\ UNCHANGED <<adapter, sendQueue, isInit, sendDelay, dataCallback, errorCallback,
                   mutexOwner, pending, lastResult, inbound, arrivals,
                   linkFaults, used, bound, freed, sinceSent, accepted, sent,
                   retried, reported, dropped, lost, discarded>>

(* Transport::clearQueue (transport.cpp:114-123): receive(packet, 0) until *)
(* the queue is empty, one element per step, racing the worker's pops.    *)
ClearQueue(a) ==
    /\ AppIdle(a)
    /\ appPc' = [appPc EXCEPT ![a] = "clearing"]
    /\ UNCHANGED <<adapter, sendQueue, threadState, isInit, sendDelay, dataCallback,
                   errorCallback, mutexOwner, pending, w, lastResult, inbound,
                   history>>

ClearQueueStep(a) ==
    /\ appPc[a] = "clearing"
    /\ \/ /\ sendQueue # <<>>
          /\ sendQueue' = Tail(sendQueue)
          /\ discarded' = discarded \cup {Head(sendQueue)}
          /\ UNCHANGED appPc
       \/ /\ sendQueue = <<>>
          /\ appPc' = [appPc EXCEPT ![a] = "idle"]
          /\ UNCHANGED <<sendQueue, discarded, stale>>
    /\ UNCHANGED <<adapter, threadState, isInit, sendDelay, dataCallback,
                   errorCallback, mutexOwner, pending, w, lastResult, inbound,
                   arrivals, linkFaults, used, bound, freed, sinceSent,
                   accepted, sent, retried, reported, dropped, lost, stale>>

-----------------------------------------------------------------------------
(* The worker thread.  One loop iteration is processSendQueue() followed   *)
(* by processReceivedData(); w.pc = "loop" is the top of the loop.         *)
WorkerVars == <<w, sendQueue, sendDelay, linkFaults, sinceSent, sent,
                retried, reported, dropped, lost, inbound>>

(* Transport::processSendQueue (transport.cpp:65-81), up to sendImpl.      *)
ProcessSendQueue ==
    /\ w.pc = "loop"
    /\ \/ /\ sendDelay > 0 \/ sendQueue = <<>>   \* rate limited, or empty
          /\ w' = [w EXCEPT !.pc = "recv"]
          /\ UNCHANGED sendQueue
       \/ /\ sendDelay = 0 /\ sendQueue # <<>>    \* receive(packet, 0)
          /\ w' = [w EXCEPT !.pc = "impl", !.pkt = Head(sendQueue)]
          /\ sendQueue' = Tail(sendQueue)
    /\ UNCHANGED <<sendDelay, linkFaults, sinceSent, sent, retried, reported,
                   dropped, lost, inbound, stale>>

(* Mutants of SendImpl: the next send allowed one tick early, and the     *)
(* else dropped so that a success also goes through handleSendError.      *)
SendImplResult(ret) ==
    /\ ret \in LinkRecoverable => linkFaults < MaxLinkFaults
    /\ linkFaults' = IF ret \in LinkRecoverable THEN linkFaults + 1
                                                ELSE linkFaults

SendImplShortInterval ==
    /\ w.pc = "impl"
    /\ \E ret \in SendImplResults :
          /\ SendImplResult(ret)
          /\ \/ /\ ret = "OK"
                /\ sendDelay' = Interval - 1
                /\ sinceSent' = 0
                /\ sent' = Append(sent, w.pkt)
                /\ w' = [w EXCEPT !.pc = "recv", !.pkt = NoPacket]
             \/ /\ ret # "OK"
                /\ w' = [w EXCEPT !.pc = "error", !.err = ret]
                /\ UNCHANGED <<sendDelay, sinceSent, sent, stale>>
    /\ UNCHANGED <<sendQueue, retried, reported, dropped, lost, inbound, stale>>

SendImplMissingElse ==
    /\ w.pc = "impl"
    /\ \E ret \in SendImplResults :
          /\ SendImplResult(ret)
          /\ w' = [w EXCEPT !.pc = "error", !.err = ret]
          /\ \/ /\ ret = "OK"
                /\ sendDelay' = Interval
                /\ sinceSent' = 0
                /\ sent' = Append(sent, w.pkt)
             \/ /\ ret # "OK"
                /\ UNCHANGED <<sendDelay, sinceSent, sent, stale>>
    /\ UNCHANGED <<sendQueue, retried, reported, dropped, lost, inbound, stale>>

(* sendImpl(packet) and the branch on its result (transport.cpp:71-79).   *)
SendImpl ==
    /\ w.pc = "impl"
    /\ \E ret \in SendImplResults :
          /\ SendImplResult(ret)
          /\ \/ /\ ret = "OK"        \* mNextSendTime = now + SEND_INTERVAL_US
                /\ sendDelay' = Interval
                /\ sinceSent' = 0
                /\ sent' = Append(sent, w.pkt)
                /\ w' = [w EXCEPT !.pc = "recv", !.pkt = NoPacket]
             \/ /\ ret # "OK"
                /\ w' = [w EXCEPT !.pc = "error", !.err = ret]
                /\ UNCHANGED <<sendDelay, sinceSent, sent, stale>>
    /\ UNCHANGED <<sendQueue, retried, reported, dropped, lost, inbound, stale>>

(* Second half of Transport::handleSendError (transport.cpp:87-96): a      *)
(* temporary error re-enqueues with mSendQueue.send(packet, 0), whose     *)
(* result is ignored; any other error drops the packet.                   *)
RequeueOrDrop ==
    /\ w' = [w EXCEPT !.pc = "recv", !.pkt = NoPacket, !.cb = NoCallback]
    /\ \/ /\ IsTemporary(w.err) /\ Len(sendQueue) < QueueCap
          /\ sendQueue' = Append(sendQueue, w.pkt)
          /\ retried' = retried \cup {w.pkt}
          /\ UNCHANGED <<dropped, lost, stale>>
       \/ /\ IsTemporary(w.err) /\ Len(sendQueue) >= QueueCap
          /\ lost' = lost \cup {w.pkt}
          /\ UNCHANGED <<sendQueue, retried, dropped, stale>>
       \/ /\ ~IsTemporary(w.err)
          /\ dropped' = dropped \cup {w.pkt}
          /\ UNCHANGED <<sendQueue, retried, lost, stale>>

(* First line of handleSendError (transport.cpp:85): if (mErrorCallback)  *)
(* mErrorCallback(packet, err), read without mMutex, for every error.     *)
HandleSendError ==
    /\ w.pc = "error"
    /\ \/ /\ errorCallback # NoCallback
          /\ w' = [w EXCEPT !.pc = "errcb", !.cb = errorCallback]
          /\ reported' = reported \cup {<<w.pkt, w.err>>}
          /\ UNCHANGED <<sendQueue, retried, dropped, lost, stale>>
       \/ /\ errorCallback = NoCallback
          /\ RequeueOrDrop
          /\ UNCHANGED reported
    /\ UNCHANGED <<sendDelay, linkFaults, sinceSent, sent, inbound, stale>>

ErrorCallbackReturn ==
    /\ w.pc = "errcb"
    /\ RequeueOrDrop
    /\ UNCHANGED <<sendDelay, linkFaults, sinceSent, sent, reported, inbound, stale>>

(* processReceivedData(), the test that opens it.  Transport's default and *)
(* BLE do nothing (BLE receives through GATT events).  Uart returns unless *)
(* mDataCallback is set and available() > 0 (uart.cpp:145); UsbJtag only *)
(* tests mDataCallback (usb_jtag.cpp:100).  available() takes mMutex.     *)
Available == IF IsInitialized THEN inbound ELSE 0

ProcessReceivedData ==
    /\ w.pc = "recv"
    /\ \/ /\ adapter = "BLE"
          /\ w' = [w EXCEPT !.pc = "loop"]
       \/ /\ adapter = "UART"
          /\ mutexOwner = "none"
          /\ w' = [w EXCEPT !.pc = IF dataCallback = NoCallback \/ Available = 0
                                    THEN "loop" ELSE "read"]
       \/ /\ adapter = "USB_JTAG"
          /\ w' = [w EXCEPT !.pc = IF dataCallback = NoCallback
                                    THEN "loop" ELSE "read"]
    /\ UNCHANGED <<sendQueue, sendDelay, linkFaults, sinceSent, sent, retried,
                   reported, dropped, lost, inbound, stale>>

(* read(span(packet.buffer)) under mMutex, then if (packet.size > 0).  A  *)
(* read returns what one frame left in the driver, or 0 when nothing came *)
(* within the read timeout (uart.cpp:88-106, usb_jtag.cpp:44-62).         *)
ReadData ==
    /\ w.pc = "read"
    /\ mutexOwner = "none"
    /\ \/ /\ IsInitialized /\ inbound > 0
          /\ inbound' = inbound - 1
          /\ w' = [w EXCEPT !.pc = "invoke"]
       \/ /\ ~(IsInitialized /\ inbound > 0)
          /\ w' = [w EXCEPT !.pc = "loop"]
          /\ UNCHANGED inbound
    /\ UNCHANGED <<sendQueue, sendDelay, linkFaults, sinceSent, sent, retried,
                   reported, dropped, lost, stale>>

(* mDataCallback->invoke(packet, reply): mDataCallback is read again,     *)
(* without mMutex, after the test and the blocking read.                  *)
InvokeDataCallback ==
    /\ w.pc = "invoke"
    /\ w' = IF dataCallback = NoCallback
            THEN [w EXCEPT !.pc = "crashed"]             \* null dereference
            ELSE [w EXCEPT !.pc = "handler", !.cb = dataCallback]
    /\ UNCHANGED <<sendQueue, sendDelay, linkFaults, sinceSent, sent, retried,
                   reported, dropped, lost, inbound, stale>>

(* The receive handler may answer through the reply lambda, send(result). *)
HandlerReply ==
    /\ w.pc = "handler"
    /\ \/ \E p \in Packets \ used : SendCheck(Worker, p)
       \/ SendPush(Worker)
    /\ UNCHANGED <<w, sendDelay, linkFaults, sinceSent, sent, retried,
                   reported, dropped, lost, inbound, stale>>

(* The receive handler calls bind() on its own transport, from the worker *)
(* (mMutex is recursive): the running handler object is destroyed.       *)
HandlerBind ==
    /\ HandlerBinds
    /\ threadState = "RUNNING"
    /\ w.pc = "handler"
    /\ mutexOwner \in {"none", Worker}
    /\ Rebind

HandlerReturn ==
    /\ w.pc = "handler"
    /\ pending[Worker] = NoPacket
    /\ w' = [w EXCEPT !.pc = "loop", !.cb = NoCallback]
    /\ UNCHANGED <<sendQueue, sendDelay, linkFaults, sinceSent, sent, retried,
                   reported, dropped, lost, inbound, stale>>

WorkerStep ==
    /\ threadState = "RUNNING"
    /\ \/ ProcessSendQueue \/ SendImpl \/ HandleSendError
       \/ ErrorCallbackReturn \/ ProcessReceivedData \/ ReadData
       \/ InvokeDataCallback \/ HandlerReturn
    /\ UNCHANGED <<adapter, threadState, isInit, dataCallback, errorCallback,
                   mutexOwner, pending, appPc, lastResult, arrivals, used,
                   bound, freed, accepted, discarded, stale>>

WorkerReply ==
    /\ threadState = "RUNNING"
    /\ HandlerReply
    /\ UNCHANGED <<adapter, threadState, isInit, dataCallback, errorCallback, appPc,
                   arrivals, bound, freed, discarded, stale>>

-----------------------------------------------------------------------------
(* The environment: time passes (esp_timer_get_time advances) and frames   *)
(* arrive in the UART / USB-JTAG driver's receive buffer.                  *)
Tick ==
    /\ sendDelay > 0 \/ sinceSent < Interval
    /\ sendDelay' = IF sendDelay > 0 THEN sendDelay - 1 ELSE 0
    /\ sinceSent' = IF sinceSent < Interval THEN sinceSent + 1 ELSE Interval
    /\ UNCHANGED <<adapter, sendQueue, threadState, isInit, dataCallback, errorCallback,
                   mutexOwner, pending, w, appPc, lastResult, inbound,
                   arrivals, linkFaults, used, bound, freed, accepted, sent,
                   retried, reported, dropped, lost, discarded, stale>>

Arrive ==
    /\ adapter # "BLE"
    /\ arrivals < MaxArrivals
    /\ arrivals' = arrivals + 1
    /\ inbound' = inbound + 1
    /\ UNCHANGED <<adapter, sendQueue, threadState, isInit, sendDelay, dataCallback,
                   errorCallback, mutexOwner, pending, w, appPc, lastResult,
                   linkFaults, used, bound, freed, sinceSent, accepted, sent,
                   retried, reported, dropped, lost, discarded, stale>>

AppStep(a) ==
    \/ AppSend(a) \/ AppSendPush(a) \/ Bind(a) \/ Start(a)
    \/ StopReset(a) \/ StopThread(a) \/ ClearQueue(a) \/ ClearQueueStep(a)

Next ==
    \/ \E a \in Apps : AppStep(a)
    \/ WorkerStep \/ WorkerReply \/ HandlerBind
    \/ Tick \/ Arrive

Spec == Init /\ [][Next]_vars

(* The worker is a FreeRTOS task that the scheduler keeps running, time    *)
(* keeps passing, and a call that has started returns.  StopThread needs  *)
(* strong fairness: it waits for the worker to pass the top of its loop.  *)
FairSpec ==
    /\ Spec
    /\ WF_vars(WorkerStep) /\ WF_vars(WorkerReply) /\ WF_vars(Tick)
    /\ \A a \in Apps : /\ WF_vars(AppSendPush(a))
                       /\ WF_vars(ClearQueueStep(a))
                       /\ SF_vars(StopThread(a))

-----------------------------------------------------------------------------
(* Properties.                                                             *)

WorkerPcs == {"idle", "loop", "impl", "error", "errcb", "recv", "read",
              "invoke", "handler", "crashed"}

TypeOK ==
    /\ adapter \in Adapters
    /\ sendQueue \in BoundedSeq(Packets, QueueCap)
    /\ threadState \in {"RUNNING", "NOT_RUNNING"}
    /\ isInit \in BOOLEAN
    /\ sendDelay \in 0..Interval /\ sinceSent \in 0..Interval
    /\ dataCallback \in DataHandlers \cup {NoCallback}
    /\ errorCallback \in ErrorHandlers \cup {NoCallback}
    /\ mutexOwner \in Callers \cup {"none"}
    /\ pending \in [Callers -> Packets \cup {NoPacket}]
    /\ w.pc \in WorkerPcs /\ w.pkt \in Packets \cup {NoPacket}
    /\ w.err \in ErrorCodes
    /\ w.cb \in DataHandlers \cup ErrorHandlers \cup {NoCallback}
    /\ appPc \in [Apps -> {"idle", "stopping", "clearing"}]
    /\ lastResult \in [Apps -> {"OK", "INVALID_ARG", "INVALID_STATE"}]
    /\ inbound \in 0..MaxArrivals /\ linkFaults \in 0..MaxLinkFaults

InFlight == IF w.pkt # NoPacket THEN {w.pkt} ELSE {}

(* Every packet that send() accepted (returned ESP_OK for) is in exactly   *)
(* one place: queued once, in the worker's hands, transmitted once,        *)
(* dropped on a fatal error, lost on a failed re-enqueue, or discarded by  *)
(* stop()/clearQueue().  Catches a pop, re-enqueue or reset in the worker, *)
(* stop() or clearQueue() that duplicates or forgets a packet.             *)
Places == <<Range(sendQueue), InFlight, Range(sent), dropped, lost, discarded>>

PacketAccounting ==
    /\ IsInjective(sendQueue) /\ IsInjective(sent)
    /\ \A i, j \in DOMAIN Places : i # j => Places[i] \cap Places[j] = {}
    /\ UNION Range(Places) = Range(accepted)

(* Transmission keeps acceptance order for every packet that was never    *)
(* re-enqueued after a temporary error: only handleSendError's retry,     *)
(* which appends at the back of mSendQueue, may reorder.                  *)
IndexIn(s, x) == CHOOSE i \in DOMAIN s : s[i] = x

FifoUnlessRetried ==
    \A i, j \in DOMAIN sent :
        (i < j /\ sent[i] \notin retried /\ sent[j] \notin retried)
            => IndexIn(accepted, sent[i]) < IndexIn(accepted, sent[j])

(* Rate limiting in processSendQueue: a successful sendImpl happens only  *)
(* when at least SEND_INTERVAL_US has passed since the previous one.      *)
RateLimited ==
    [][Len(sent') > Len(sent) => sinceSent >= Interval]_vars

(* Every accepted packet is eventually transmitted, dropped, lost or      *)
(* discarded, unless the engine is stopped: the retry loop of             *)
(* handleSendError terminates when the link's temporary faults do.        *)
Settled(p) == p \in Range(sent) \cup dropped \cup lost \cup discarded

AcceptedPacketSettles ==
    \A p \in Packets :
        p \in Range(accepted) ~> (Settled(p) \/ threadState = "NOT_RUNNING")

(* spec.md 4.3 / 8: the error handler fires only for fatal outcomes; a    *)
(* transient failure is retried and "never dropped or reported".          *)
ErrorHandlerOnlyForFatal ==
    \A r \in reported : ~IsTemporary(r[2])

(* spec.md 8: a packet that met a transient failure is never dropped.     *)
TransientFailureNeverLost == lost = {}

(* bind() is thread-safe (spec.md 4.3): no handler object is running on   *)
(* the worker after bind() has destroyed it.                              *)
NoCallbackAfterFree ==
    w.pc \in {"handler", "errcb"} => w.cb \notin freed

(* processReceivedData never calls through an empty mDataCallback.        *)
NoNullCallbackCall == w.pc # "crashed"

(* spec.md 4.3: Stopped is terminal and stop() drains the queue (spec.md  *)
(* 8: "stop() followed by clearQueue() returns 0").  A packet              *)
(* still queued, or whose send() was still between its check and its push, *)
(* when stop() returned is never transmitted, whatever start() calls come  *)
(* later.                                                                  *)
NothingSentFromBeforeStop == Range(sent) \cap stale = {}

-----------------------------------------------------------------------------
(* Refinement: the engine implements TransportQueue. The abstract queue is *)
(* the packet in sendImpl / handleSendError followed by mSendQueue; a pop  *)
(* into the worker is a stuttering step, a requeue is Retry, a drop, loss, *)
(* clearQueue step or stop's reset is Discard or Flush.                    *)
AbsQueue == (IF w.pkt # NoPacket THEN <<w.pkt>> ELSE <<>>) \o sendQueue

TQ == INSTANCE TransportQueue
        WITH queue <- AbsQueue, delivered <- sent, admitted <- Range(accepted)

\* Every behaviour of the engine (send, the worker's pop, transmit, requeue
\* and drop, stop, clearQueue, replies from the handler) is a behaviour of
\* the lossy head-transmitting channel TransportQueue.
TransportRefinesQueue == TQ!Spec

=============================================================================
