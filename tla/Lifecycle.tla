------------------------------ MODULE Lifecycle ------------------------------
(***************************************************************************)
(* Construction and destruction of serial channels (Uart, UsbJtag), each   *)
(* composed with the worker thread that its Transport::start() runs.       *)
(*                                                                         *)
(* A channel object goes through the derived constructor (driver install,  *)
(* setInitialized), a life of start()/stop() calls by its owner, then the  *)
(* destructor chain ~Uart/~UsbJtag (driver delete if isInitialized())      *)
(* followed by ~Transport (mThread.stop(), then mDataCallback.reset()      *)
(* under mMutex). The worker keeps running until ~Transport stops it, so   *)
(* it can call into the driver and into the virtual hooks while the        *)
(* derived part is already destroyed.                                      *)
(*                                                                         *)
(* Channels on the same port share the ESP-IDF driver of that port: a      *)
(* second install on an installed port fails, and a delete removes the     *)
(* port's driver whoever uses it.                                          *)
(*                                                                         *)
(* The queue contents and the callbacks' effects are in Transport.tla;     *)
(* here a pop is a free choice and only the driver, the mutex, the thread  *)
(* and the object's phase are kept.                                        *)
(***************************************************************************)
EXTENDS Naturals

CONSTANTS
    Channels,   \* channel objects (model values)
    Port,       \* [Channels -> {"UART0", "UART1", "USB"}]
    NoChannel,  \* no driver installed on a port
    HasPins     \* Uarts are constructed with both rxPin and txPin

ASSUME HasPins \in BOOLEAN

Ports == {Port[c] : c \in Channels}

Adapter(c) == IF Port[c] = "USB" THEN "USB_JTAG" ELSE "UART"

VARIABLES
    ch,          \* per channel object: phase, isInit, thread, wpc, mutex, cb
    driverOwner  \* per port: the channel whose constructor installed the driver

vars == <<ch, driverOwner>>

Phases == {"constructing", "alive", "baseStop", "baseReset", "destroyed"}

\* Worker locations. "writing", "polling" and "reading" are inside a driver
\* call; "crashed" is the abort of a pure virtual call.
WorkerPcs == {"loop", "send", "writing", "recv", "polling", "read",
              "reading", "invoke", "crashed"}

InDriver == {"writing", "polling", "reading"}

\* The vtable is Transport's once ~Transport has begun.
DerivedGone(c) == ch[c].phase \in {"baseStop", "baseReset", "destroyed"}

Aborted == \E c \in Channels : ch[c].wpc = "crashed"

\* Transport::isInitialized()
IsInitialized(c) == ch[c].isInit /\ ch[c].thread # "NOT_RUNNING"

\* mMutex is a std::recursive_mutex: an owner and a lock depth.
LockFree(c, me) == ch[c].mutex.owner \in {"none", me}

Unlocked == [owner |-> "none", held |-> 0]

Lock(m, me) == [owner |-> me, held |-> m.held + 1]

Unlock(m) == IF m.held = 1 THEN Unlocked ELSE [m EXCEPT !.held = @ - 1]

Init ==
    \* bind() may or may not have been called before start()
    /\ \E bound \in [Channels -> BOOLEAN] :
          ch = [c \in Channels |->
                  [phase |-> "constructing", isInit |-> FALSE,
                   thread |-> "NOT_RUNNING", wpc |-> "loop",
                   mutex |-> Unlocked, cb |-> bound[c]]]
    /\ driverOwner = [p \in Ports |-> NoChannel]

\* One channel's fields change, the others' and the drivers stay.
Upd(c, r) == ch' = [ch EXCEPT ![c] = r] /\ UNCHANGED driverOwner

(***************************************************************************)
(* Constructors. Each ESP-IDF call may fail; the constructor then returns  *)
(* early with mIsInitialized false. An install fails on an installed port. *)
(***************************************************************************)
Constructed(c, ok) ==
    /\ ok => driverOwner[Port[c]] = NoChannel
    /\ ch' = [ch EXCEPT ![c].phase = "alive", ![c].isInit = ok]
    /\ driverOwner' = IF ok THEN [driverOwner EXCEPT ![Port[c]] = c]
                            ELSE driverOwner

\* uart_param_config, uart_set_pin (only with both pins), uart_driver_install
ConstructUart(c) ==
    /\ ch[c].phase = "constructing" /\ Adapter(c) = "UART"
    /\ \E failsAt \in {"param_config", "install", "none"}
                      \cup (IF HasPins THEN {"set_pin"} ELSE {}) :
          Constructed(c, failsAt = "none")

\* usb_serial_jtag_driver_install
ConstructUsbJtag(c) ==
    /\ ch[c].phase = "constructing" /\ Adapter(c) = "USB_JTAG"
    /\ \E ok \in BOOLEAN : Constructed(c, ok)

(***************************************************************************)
(* The owner's calls while the object is alive.                            *)
(***************************************************************************)
Start(c) ==
    /\ ch[c].phase = "alive" /\ ch[c].thread = "NOT_RUNNING"
    /\ Upd(c, [ch[c] EXCEPT !.thread = "RUNNING"])

\* mThread.stop() returns once the worker is back at the top of its loop.
ThreadStopped(c) == ch[c].thread = "NOT_RUNNING" \/ ch[c].wpc = "loop"

Stop(c) ==
    /\ ch[c].phase = "alive" /\ ThreadStopped(c)
    /\ Upd(c, [ch[c] EXCEPT !.thread = "NOT_RUNNING"])

(***************************************************************************)
(* The destructor chain, run by the owner's thread.                        *)
(***************************************************************************)
\* if (isInitialized()) delete the port's driver; no mutex is taken.
ReleaseDriver(c) ==
    /\ ch[c].phase = "alive"
    /\ ch' = [ch EXCEPT ![c].phase = "baseStop"]
    /\ driverOwner' = IF IsInitialized(c)
                         THEN [driverOwner EXCEPT ![Port[c]] = NoChannel]
                         ELSE driverOwner

\* ~Uart: uart_driver_delete
UartDtor(c) == Adapter(c) = "UART" /\ ReleaseDriver(c)

\* ~UsbJtag: usb_serial_jtag_driver_uninstall
UsbJtagDtor(c) == Adapter(c) = "USB_JTAG" /\ ReleaseDriver(c)

\* Mutant: ~Transport takes mMutex before it stops the thread.
BaseStopUnderLock(c) ==
    /\ ch[c].phase = "baseStop" /\ LockFree(c, "dtor")
    /\ Upd(c, IF ThreadStopped(c)
                 THEN [ch[c] EXCEPT !.mutex = [owner |-> "dtor", held |-> 1],
                                    !.thread = "NOT_RUNNING",
                                    !.phase = "baseReset"]
                 ELSE [ch[c] EXCEPT !.mutex = [owner |-> "dtor", held |-> 1]])

\* Mutant: ~Transport resets mDataCallback before it stops the thread.
BaseStopResetFirst(c) ==
    /\ ch[c].phase = "baseStop"
    /\ Upd(c, IF ThreadStopped(c)
                 THEN [ch[c] EXCEPT !.cb = FALSE, !.thread = "NOT_RUNNING",
                                    !.phase = "baseReset"]
                 ELSE [ch[c] EXCEPT !.cb = FALSE])

\* ~Transport: mThread.stop()
BaseStop(c) ==
    /\ ch[c].phase = "baseStop" /\ ThreadStopped(c)
    /\ Upd(c, [ch[c] EXCEPT !.thread = "NOT_RUNNING", !.phase = "baseReset"])

\* ~Transport: lock_guard(mMutex); mDataCallback.reset()
BaseReset(c) ==
    /\ ch[c].phase = "baseReset" /\ LockFree(c, "dtor")
    /\ Upd(c, [ch[c] EXCEPT !.phase = "destroyed", !.cb = FALSE])

(***************************************************************************)
(* The worker loop: processSendQueue(); processReceivedData();             *)
(***************************************************************************)
Goto(c, pc) == Upd(c, [ch[c] EXCEPT !.wpc = pc])

\* Moves to pc with mMutex in state m.
GotoWith(c, pc, m) == Upd(c, [ch[c] EXCEPT !.wpc = pc, !.mutex = m])

\* processSendQueue: a packet is popped (then sendImpl) or the tick ends.
ProcessSendQueue(c) ==
    /\ ch[c].wpc = "loop"
    /\ \E popped \in BOOLEAN : Goto(c, IF popped THEN "send" ELSE "recv")

\* The virtual sendImpl; once ~Transport runs it is the pure virtual one.
\* Uart/UsbJtag::write calls the driver only if isInitialized().
SendImpl(c) ==
    /\ ch[c].wpc = "send"
    /\ Goto(c, CASE DerivedGone(c)   -> "crashed"
                 [] IsInitialized(c) -> "writing"
                 [] OTHER            -> "recv")

WriteBytesReturn(c) == ch[c].wpc = "writing" /\ Goto(c, "recv")

\* The virtual processReceivedData; Transport's own is empty. UART tests
\* mDataCallback and available(), USB-JTAG only mDataCallback.
\* available() and read() lock mMutex and return 0 unless isInitialized().
ProcessReceivedData(c) ==
    /\ ch[c].wpc = "recv"
    /\ \/ /\ DerivedGone(c) \/ ~ch[c].cb
          /\ Goto(c, "loop")
       \/ /\ ~DerivedGone(c) /\ ch[c].cb /\ Adapter(c) = "USB_JTAG"
          /\ Goto(c, "read")
       \/ /\ ~DerivedGone(c) /\ ch[c].cb /\ Adapter(c) = "UART"
          /\ LockFree(c, "worker")
          /\ IF IsInitialized(c)
                THEN GotoWith(c, "polling", Lock(ch[c].mutex, "worker"))
                ELSE Goto(c, "loop")

\* Mutant: available()'s lock is not released when it returns.
AvailableKeepsLock(c) ==
    /\ ch[c].wpc = "polling"
    /\ \E avail \in BOOLEAN : Goto(c, IF avail THEN "read" ELSE "loop")

\* available(): uart_get_buffered_data_len returns, the lock is released.
Available(c) ==
    /\ ch[c].wpc = "polling"
    /\ \E avail \in BOOLEAN :
          GotoWith(c, IF avail THEN "read" ELSE "loop", Unlock(ch[c].mutex))

\* read(): if isInitialized(), block in the driver's read under mMutex.
Read(c) ==
    /\ ch[c].wpc = "read" /\ LockFree(c, "worker")
    /\ IF IsInitialized(c)
          THEN GotoWith(c, "reading", Lock(ch[c].mutex, "worker"))
          ELSE Goto(c, "loop")

\* The driver's read returns some bytes (then the callback runs) or none.
ReadBytesReturn(c) ==
    /\ ch[c].wpc = "reading"
    /\ \E size \in {0, 1} :
          GotoWith(c, IF size > 0 THEN "invoke" ELSE "loop",
                   Unlock(ch[c].mutex))

InvokeDataCallback(c) == ch[c].wpc = "invoke" /\ Goto(c, "loop")

WorkerStep(c) ==
    /\ ch[c].thread = "RUNNING"
    /\ \/ ProcessSendQueue(c) \/ SendImpl(c) \/ WriteBytesReturn(c)
       \/ ProcessReceivedData(c) \/ Available(c) \/ Read(c)
       \/ ReadBytesReturn(c) \/ InvokeDataCallback(c)

OwnerStep(c) ==
    \/ ConstructUart(c) \/ ConstructUsbJtag(c) \/ Start(c) \/ Stop(c)
    \/ UartDtor(c) \/ UsbJtagDtor(c) \/ BaseStop(c) \/ BaseReset(c)

\* A pure virtual call aborts the program: nothing moves after it.
Next == ~Aborted /\ \E c \in Channels : OwnerStep(c) \/ WorkerStep(c)

Spec == Init /\ [][Next]_vars

\* Each worker is a high-priority task that only waits on mMutex; a
\* destructor's thread keeps running. mThread.stop() needs the worker at
\* the top of its loop, which it reaches only now and then: strong fairness.
FairSpec ==
    /\ Spec
    /\ \A c \in Channels :
          /\ WF_vars(~Aborted /\ WorkerStep(c))
          /\ SF_vars(~Aborted /\ BaseStop(c))
          /\ WF_vars(~Aborted /\ BaseReset(c))

-----------------------------------------------------------------------------
TypeOK ==
    /\ ch \in [Channels -> [phase : Phases, isInit : BOOLEAN,
                            thread : {"RUNNING", "NOT_RUNNING"},
                            wpc : WorkerPcs,
                            mutex : [owner : {"none", "worker", "dtor"},
                                     held : 0..1],
                            cb : BOOLEAN]]
    /\ driverOwner \in [Ports -> Channels \cup {NoChannel}]

\* The worker never runs mDataCallback->invoke after ~Transport has
\* destroyed the handler: the destructor stops the thread before the reset.
CallbackOutlivesWorker ==
    \A c \in Channels : ch[c].wpc = "invoke" => ch[c].cb

\* Destroying an object terminates: once ~Transport begins, the thread is
\* stopped and the callback released, unless the program aborted.
DestructionCompletes ==
    \A c \in Channels :
        ch[c].phase = "baseStop" ~> (ch[c].phase = "destroyed" \/ Aborted)

\* The worker never uses a part of its object that the destructor chain has
\* already torn down: it is inside a driver call (write, available, read)
\* only on the driver its own channel installed and has not deleted, and it
\* never calls the pure virtual sendImpl of a half-destroyed object.
WorkerOutlivesAdapter ==
    /\ ~Aborted
    /\ \A c \in Channels : ch[c].wpc \in InDriver => driverOwner[Port[c]] = c

\* A destroyed object leaves no driver installed: ~Uart/~UsbJtag uninstall
\* what the constructor installed, so the port can be used again.
DriverReleasedOnDestroy ==
    \A c \in Channels :
        ch[c].phase = "destroyed" => driverOwner[Port[c]] # c

=============================================================================
