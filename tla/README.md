# TLA+ models of esp32-c3-nets-lib

This directory holds TLA+ models of the packet transport library in `src/`
and the TLC configurations that check them. The library moves fixed-format
packets (`net::Packet`) over UART, USB-Serial-JTAG and BLE through one engine,
`net::Transport`.

## 1. Inventory

### Components and their state

| Component | Source | State | Operations that change state |
|---|---|---|---|
| Packet | `include/net/packet.h` | `id`, `size`, `buffer[517]` | `setPayload`, `clear` (`isValid`, `headerInfo` are queries) |
| Bounded send queue | `BufferedQueue<Packet,16>` (external library) | FIFO of up to 16 packets | `send(p,0)` push, `receive(p,0)` pop, `reset()` |
| Transport engine | `src/transport.cpp`, `include/net/transport.h` | `mSendQueue`, `mThread` state, `mIsInitialized`, `mNextSendTime`, `mDataCallback`, `mErrorCallback`, `mMutex` | `bind`, `start`, `stop`, `send`, `clearQueue`; worker: `processSendQueue`, `handleSendError` |
| Worker thread | `esp32_c3::objects::Thread` (external) | RUNNING / NOT_RUNNING | `quickStart`, `stop` |
| UART adapter | `src/uart.cpp`, `include/net/uart.h` | driver handle, `mIsInitialized` | constructor, destructor, `sendImpl`/`write`, `processReceivedData`/`available`/`read` |
| USB-JTAG adapter | `src/usb_jtag.cpp`, `include/net/usb_jtag.h` | driver handle | constructor, destructor, `sendImpl`/`write`, `processReceivedData`/`read` |
| BLE adapter | `include/net/ble.h` only (no `.cpp` here) | config, connection list, GATT handles, MTU | `sendImpl`, GATT/GAP event handlers, advertising |

### How they interact

- Application threads call `send`, which validates under `mMutex`
  (`isInitialized()`, `packet.isValid()`) and pushes into `mSendQueue` with
  timeout 0 (full queue: `ESP_ERR_INVALID_STATE`).
- The worker thread runs the loop installed by `start()`:
  `processSendQueue(); processReceivedData();`. `processSendQueue` returns
  while `mNextSendTime > now`, otherwise pops one packet and calls the
  adapter's `sendImpl`. On success it sets `mNextSendTime = now + 20 ms`.
  On failure it calls `handleSendError`. That function calls `mErrorCallback` for
  every error. It then re-enqueues the packet if `isTemporary(err)` and drops it otherwise.
- `processReceivedData` is a virtual hook. UART tests `mDataCallback` and
  `available()`, reads, and calls `mDataCallback->invoke(packet, reply)`.
  USB-JTAG skips the `available()` test. BLE and the base class do nothing.
  The reply lambda calls `send` from the worker.
- `bind` replaces both callbacks under `mMutex`. The worker calls the callbacks
  *without* the mutex. `stop` resets the queue and then stops the thread,
  also without the mutex.

### What is hard here

- Concurrency: application threads against the worker. `send` locks, but `stop`,
  `processSendQueue`, `handleSendError` and the callback calls do not.
- Failure: `sendImpl` results are classified as transient (retry by re-enqueue)
  or fatal (drop). UART/USB short writes are fatal.
- Ordering: a retry goes to the back of the queue.
- Timing: the 20 ms rate limit. Retries are not rate limited and have no backoff.
- Lifecycle: start/stop/restart, and adapter destructors that depend on the thread state.

### Properties that make each component correct

- Queue and engine: every accepted packet is accounted for exactly once.
  Transmission is FIFO except for retries. Sends are rate limited. Every
  accepted packet eventually settles. A stopped engine holds nothing (spec 8).
  Transient failures are neither reported nor lost (spec 8).
- Callbacks: a handler is never called after `bind` destroyed it, and never
  through a null pointer.
- Engine as a whole: it implements a lossy channel that transmits from its head
  (`TransportQueue`). Nothing is sent from before a `stop()` (spec 4.3).
- Adapters and lifecycle:
  - the driver is uninstalled exactly when it was installed, and never while the worker still uses it;
  - no pure virtual call happens during destruction;
  - the destructor releases the handler only after the worker stopped, and it always completes.
- Packet: a valid packet transmits exactly the last payload that `setPayload`
  accepted. A failed call, or `clear`, never leaves a mix.
- Serial link: a packet that was written only in part is reported to the error handler and never
  written again. The receiver's handler gets the written bytes in order, except those
  that an RX overflow dropped. Once a handler is bound, no byte stays in the driver forever.
  As a whole, the link implements an order-keeping byte stream that may lose runs of
  bytes and is read in chunks (`ByteStream`).

## 2. Modules

### `Transport.tla` (written)

This is the engine plus the adapter hooks it calls. The variable `adapter` is the
object's dynamic type (`Uart`, `UsbJtag` or `Ble`). Init chooses it from the constant
set `Adapters`, and no step changes it. A run with several adapters checks each kind of
channel in one state space.

- State:
  - `sendQueue` is `mSendQueue`.
  - `threadState` is `mThread.state()`.
  - `isInit` is `mIsInitialized`, which Init chooses freely because the adapter constructor may fail.
  - `sendDelay` is `max(0, mNextSendTime - now)`.
  - `dataCallback` and `errorCallback` are the two callback members.
  - `mutexOwner` is `mMutex`.
  - `pending` holds a packet that a caller validated but has not pushed yet.
  - `w` is the worker's program counter, packet, error and the callback it runs.
  - History variables (`accepted`, `sent`, `retried`, `reported`, `dropped`,
    `lost`, `discarded`, `freed`, `sinceSent`) exist only for the properties.
- Actions (each maps to the lines listed in `PROJECT.json`):
  - Application threads:
    - `AppSend`/`SendCheck` and `AppSendPush`/`SendPush`: `send`, split where `stop` and the worker can interleave.
    - `Bind`, `Start`.
    - `StopReset` then `StopThread`: `stop`.
    - `ClearQueue` and `ClearQueueStep`: `clearQueue`, one pop per step.
  - Worker:
    - `ProcessSendQueue`: rate-limit test and pop.
    - `SendImpl`: the adapter call and the OK/else branch.
    - `HandleSendError`, `ErrorCallbackReturn` and `RequeueOrDrop`: `handleSendError`.
    - `ProcessReceivedData`, `ReadData`, `InvokeDataCallback`, `HandlerReply`/`WorkerReply` and `HandlerReturn`: the receive hook and its reply lambda.
  - Environment:
    - `Tick`: time passes.
    - `Arrive`: a frame reaches the driver.
- Abstractions:
  - Packets are model values, and `InvalidPacket` stands for `size = 0`.
  - Time is relative to `mNextSendTime`, so the state space stays finite without a time bound.
  - `sendImpl` of UART/USB yields `ESP_OK` (full write) or `ESP_FAIL` (short write).
  - BLE's `sendImpl` can return any code. Its source is not in this tree, so spec 4.4 is the source here.
  - `Thread::stop` is external. It ends the thread when the worker is back at the top of its loop (spec 5: a `sendImpl` in progress completes).

### `MC_Transport.tla`

Model values for threads, packets and handler objects, plus the symmetry set.

### `TransportQueue.tla`

This is the abstract specification of what the engine promises about the
packets given to `send()`. `queue` holds the admitted packets that were not yet
transmitted or discarded, `delivered` the transmitted ones and `admitted` every
packet ever accepted. The actions:
- `Accept` appends a new packet;
- `Deliver` transmits the head;
- `Retry` moves the head to the back;
- `Discard` drops any one packet, and `Flush` drops everything behind a prefix.

`Transport` refines it with this mapping:
- `queue <- AbsQueue`, the packet in the worker's hands followed by `mSendQueue`;
- `delivered <- sent`;
- `admitted <- Range(accepted)`.

`TransportRefinesQueue == TQ!Spec` is checked as a PROPERTY in both safety runs.
A pop into the worker is a stuttering step. A re-enqueue is `Retry`. A fatal drop
or a lost retry is `Discard`. A `clearQueue` step is `Discard` of the first queued
packet. `stop()`'s reset is `Flush`.

### `Lifecycle.tla`

This is the construction and destruction of `Uart`/`UsbJtag` objects, each with its worker
thread, for a set of channel objects that may share a port.
- State:
  - per channel, a record `ch[c]` with:
    - the phase (`constructing`, `alive`, `baseStop`, `baseReset`, `destroyed`);
    - `mIsInitialized`;
    - the thread state;
    - the worker's location;
    - `mMutex` as a recursive mutex (owner and depth);
    - whether `mDataCallback` holds a handler.
  - per port, `driverOwner`: the channel whose constructor installed the ESP-IDF
    driver, or `NoChannel`.
- Actions:
  - `ConstructUart`/`ConstructUsbJtag`: every driver call may fail, and an install
    on an installed port fails. The tail is `Constructed`, i.e. `setInitialized`.
  - `Start` and `Stop`: `mThread.quickStart` and `mThread.stop`. A restart is allowed, as in the code.
  - `UartDtor`/`UsbJtagDtor`: they delete the driver if `isInitialized()`, without the mutex.
  - `BaseStop`/`BaseReset`: the two statements of `~Transport`.
  - Worker actions, per channel:
    - `ProcessSendQueue` pops or does not pop.
    - `SendImpl` into `write`, then `WriteBytesReturn`.
    - `ProcessReceivedData`, `Available`, `Read` and `ReadBytesReturn` under `mMutex`.
    - `InvokeDataCallback`.
- The vtable: once `~Transport` has begun, `sendImpl` is the pure virtual one,
  which aborts (`crashed`), and `processReceivedData` is Transport's empty one.
  This is a data race on the vtable pointer. The model takes the outcome in which the
  worker sees the new vtable.
- Assumption about ESP-IDF, which is not in this tree: installing a driver
  that is already installed returns an error.

### `Packet.tla`

This is `net::Packet` with a buffer of `MaxMtu` bytes, where `MaxMtu = 2` (in `serial_link.cfg`) stands for 517:
- `Init` is `Packet{}`, the value-initialised packet;
- `Clear` is `clear()`;
- `SetPayload` is `setPayload`, including `memcpy` into the first `len` bytes (`CopyIn`). A rejected call is a stuttering step;
- `SetId` is an assignment to the public field `id`;
- `Wire` is the byte span that `sendImpl` writes.

The history variable `payload` is the data of the last successful `setPayload`.
`Packet` has no run of its own. `SerialLink` composes it as the sending application's
packet, and the `serial_link` run checks its `TypeOK` and `PayloadIsLastWritten`.

### `SerialLink.tla`

This module models one direction of a UART link between two devices that run this library.
It composes `Packet` (through `INSTANCE ... WITH`, as the application's packet) with:
- `Submit`: `Transport::send` copies a valid packet's `Wire` into the queue.
- `SendImpl`: one `processSendQueue` iteration with `sendImpl` and `handleSendError`.
  `write()` returns any count from 0 to `size`. A short count is `ESP_FAIL`, which is reported,
  is not temporary, and is dropped. The bytes already written stay on `line`.
  `Uart::sendImpl` and `UsbJtag::sendImpl` are the same code.
- `Arrive`, `Overflow`, `IsrMove`: the line and the receiver's ESP-IDF UART driver.
  - Bytes enter the hardware FIFO (`FifoCap`), and the RX interrupt moves them into the ring.
  - The ring is `RxCap = MAX_MTU` bytes, from `uart_driver_install` at `uart.cpp:34`.
  - Flow control is off (`UART_DEFAULT_CONFIG`, `uart.h:24`), so a byte that meets a full
    FIFO overflows it, and the FIFO is reset (`lost`).
- `BindReceiver` and `ProcessReceivedData`: the receiver's `bind` and
  `Uart::processReceivedData`. The read takes what the ring holds, up to `MAX_MTU`
  bytes, and waits for arrivals until its timeout. The ring never holds more than
  `MAX_MTU`, so each read empties it. A chunk can therefore join the end of one packet to
  the start of the next, or carry a truncated packet.

Submissions are numbered (`k`), so that two packets with equal bytes can be told apart.
`Stream` is the byte sequence written. `Kept` is the part of it that was not lost.

### `ByteStream.tla`

This is the abstract specification of what the serial link promises. It has no code of
its own, so it has no map entries. `sent` is every byte written, `inTransit` the bytes
neither read nor lost, and `got` the chunks read. It has three actions:
- `Write` appends any bytes to `sent` and `inTransit`;
- `Lose` removes one run of consecutive bytes from `inTransit`;
- `Read` moves a non-empty prefix of `inTransit` into `got` as one chunk.

`SerialLink` instantiates it with the refinement mapping
`sent <- Stream`, `inTransit <- ring \o fifo \o line`, `got <- received`.
- `SendImpl` is `Write`. With a count of 0 it is a stutter.
- `Overflow` is `Lose`: it drops the FIFO and the line's first byte, which are adjacent
  in `inTransit`.
- `ProcessReceivedData` is `Read`.
- Packet steps, `Submit`, `Arrive`, `IsrMove` and `BindReceiver` are stutters.

`SerialLinkRefinesByteStream == BS!Spec` is checked as a PROPERTY in the `serial_link` run.
It is step-wise: unlike `PeerStreamIsSentStream`, it also rules out a single step
that delivers some bytes and silently drops others. An example is a read that flushes
the FIFO (`uart_flush_input`), which is the mutant that breaks it.

### MC modules

- `MC_Transport` holds model values for threads, packets and handler objects,
  the symmetry set, and the VIEW `MCViewNoStale`. This VIEW drops the history variable
  `stale` from the fingerprint in every run that does not check the
  restart property.
- `MC_Lifecycle` holds the channel objects and the port assignments.

## 3. Runs

The engine runs use `MC_Transport`, with `QueueCap = 2` and `Interval = 2`.

| Run | Model, bounds | Checks | Result |
|---|---|---|---|
| `transport_ble_safety` | BLE, 1 app, 3 packets, 1 link fault, symmetry | `TypeOK`, `PacketAccounting`, `FifoUnlessRetried`, `RateLimited`, `TransportRefinesQueue` | pass (381k states) |
| `transport_uart_safety` | UART, 2 apps, 3 packets, 1 inbound frame, handler may `bind`, symmetry | same | pass (422k states) |
| `transport_liveness` | USB-JTAG and BLE, 1 app, 2 packets, 1 frame, 1 link fault, `FairSpec` | `AcceptedPacketSettles` | pass (155k states) |
| `error_handler_transient` | BLE, 1 fault | `ErrorHandlerOnlyForFatal` | violation |
| `retry_lost` | BLE, 3 packets | `TransientFailureNeverLost` | violation |
| `callback_use_after_free` | UART, apps and the handler may `bind` while running, 2 handlers | `NoCallbackAfterFree` | violation |
| `callback_null_call` | UART, bind while running | `NoNullCallbackCall` | violation |
| `restart_after_stop` | UART, 2 apps | `NothingSentFromBeforeStop` | violation |
| `lifecycle` | `MC_Lifecycle`: two `Uart`s on UART0 and a `UsbJtag`, `FairSpec` | `TypeOK`, `CallbackOutlivesWorker`, `DestructionCompletes` | pass (181k states) |
| `worker_outlives_adapter` | same channels | `WorkerOutlivesAdapter` | violation |
| `driver_leak_on_destroy` | same channels | `DriverReleasedOnDestroy` | violation |
| `serial_link` | `SerialLink`, `MAX_MTU` = 2, 2 byte values, 2 sends, a 1-byte FIFO, `FairSpec` | `TypeOK`, `PayloadIsLastWritten`, `TruncatedPacketsReportedNotResent`, `PeerStreamIsSentStream`, `AllBytesSettle`, `SerialLinkRefinesByteStream` | pass (106k states) |

In `transport_uart_safety` the receive handler may also call `bind()`
(`HandlerBinds = TRUE`). Runs that do not check `NothingSentFromBeforeStop`
use the VIEW `MCViewNoStale`.

What the violations show (details in `PROJECT.json` "findings"):

- `error_handler_transient`: `handleSendError` calls the error callback before
  it classifies the error. Spec 4.3/8 say that transient failures are not reported.
- `retry_lost`: while `sendImpl` runs, producers can fill the queue. The retry push
  then fails silently and the packet is lost with no report.
- `callback_use_after_free`: `bind` (under the mutex) destroys the handler
  that the worker runs without the mutex. A handler that calls `bind()` on its
  own channel does the same with no second thread, because `mMutex` is recursive and the
  worker does not hold it. With `BindWhileRunning = FALSE` the handler path
  alone violates the property.
- `callback_null_call`: UART tests `mDataCallback`, blocks in `read()` for up to 100 ms,
  and then dereferences it again.
- `restart_after_stop`: `stop()` resets the queue before it stops the thread,
  so a `send` that validated just before, or a retry, lands in the queue of a stopped
  engine. Spec 8 says that `clearQueue()` after `stop()` returns 0. `start()` then
  restarts the engine, although spec 4.3 says Stopped is terminal, and the worker transmits that packet.
- `worker_outlives_adapter`: `~Uart`/`~UsbJtag` delete the driver while the
  worker, which `~Transport` stops only later, is in `uart_read_bytes` or
  about to write. Once `~Transport` has begun, the worker can also call the pure
  virtual `sendImpl`.
- `driver_leak_on_destroy`: `~UsbJtag`/`~Uart` test `isInitialized()`, which
  is false once the thread is stopped, so a stopped channel never uninstalls
  its driver. A replacement on the same port then cannot install its own.

What the passing `lifecycle` run shows: `~Transport` stops the thread before it
resets the handler, and it takes `mMutex` only after that. Taking it first would
deadlock with a worker that is blocked on the mutex in `available()`/`read()`, which is
the `DestructionCompletes` mutant.

### Bounds and why they suffice

- A queue capacity of 2 with 3 packets reaches the three queue situations:
  - a full queue that refuses a send;
  - a retry that finds the queue full (`retry_lost`);
  - reordering by a retry.
- `Interval = 2` separates "delay just set", "partly elapsed" and "elapsed", so an
  off-by-one in the rate limit is visible (the `RateLimited` mutant).
- One link fault is enough for a retry and for a retry that meets a full queue.
- Two application threads are needed for the send/stop race. The BLE run uses
  one thread to stay within time, because the worker alone races it there.
- `transport_liveness` also uses one application thread. On USB-JTAG the receive
  handler's replies are a second producer. On BLE one temporary fault makes
  `handleSendError` re-enqueue a packet, so `AcceptedPacketSettles` covers the
  retry loop. With two threads, or with two faults, the run takes 2 to 20 minutes.
- Each packet is sent at most once (`used`), and each handler object is bound at
  most once. This keeps the histories finite.

- Lifecycle: two `Uart` objects on one port reach the replacement case (the new object
  is built while the old one still holds the driver) and a destroy that overlaps
  the other object's life. The `UsbJtag` channel covers the path with no `available()` test.
  Every worker location is reachable in each phase.
- Packet, in `serial_link`:
  - `MaxMtu = 2` separates the lengths 0, 1, `MAX_MTU` and `MAX_MTU + 1`;
  - a payload of 1 after one of 2 leaves an old byte past `size`;
  - two byte values tell old bytes from new.
- Serial link:
  - two sends of up to 2 bytes fill the 2-byte ring and the 1-byte FIFO, and one more byte overflows it;
  - a 2-byte packet can be written in part;
  - a read can join two packets.

### Fairness

`FairSpec` assumes the following:
- weak fairness for the worker, which is a FreeRTOS task with priority 19 that is never
  blocked except on the mutex;
- weak fairness for time (`Tick`);
- weak fairness for completing a started `send` push and a `clearQueue` step;
- strong fairness for `StopThread`, which waits for the worker to reach the top of its loop, something that happens
  only intermittently.

`AcceptedPacketSettles` also relies on an environment assumption: the link recovers.
`MaxLinkFaults` bounds the temporary errors (`NO_MEM`, `INVALID_STATE`, `TIMEOUT`) that
`sendImpl` returns in a behaviour. The code retries them with no counter
(`transport.cpp:87-91`), so a link that never recovers keeps one packet cycling
forever. `ESP_FAIL` is permanent and is dropped. The mutant that treats it as
temporary makes the packet cycle forever, and the property catches it.

In `Lifecycle.FairSpec`:
- each worker is weakly fair;
- `BaseStop` is strongly fair, for the same reason as `StopThread`;
- `BaseReset` is weakly fair.

Nothing is assumed about the owner's `start`/`stop`/destroy calls.

In `SerialLink.FairSpec`:
- both workers are weakly fair (their loops always `CONTINUE`);
- the line clocks each byte out (`Arrive` or `Overflow`);
- the RX interrupt is served (`IsrMove`).

Nothing is assumed about the application's packet writes, `send` or `bind`.
`AllBytesSettle` is therefore stated under `<>bound`. `serial_link` disables deadlock
checking: once every byte has settled, the two workers loop with nothing to do.

Recoverable link faults are bounded by `MaxLinkFaults`. This is an environment
assumption: under a permanent transient fault the code retries forever
(spec 9), and no liveness property can hold.

## 4. Not modelled, and why

- Hardware configuration and logging. `Lifecycle` keeps only whether each call
  succeeds, and which channel installed the port's driver. In `Transport`, Init
  chooses `mIsInitialized` freely.
- BLE GATT/GAP handling, advertising and connection lists. `ble.cpp` is not in this tree.
- Framing: a chunk that `processReceivedData` hands over is not a packet. That follows
  from the code and from spec.md section 1, which leaves framing out of scope. `SerialLink`
  checks what does hold about the byte stream. No run asserts that a chunk is one packet,
  or that no byte is lost with flow control off: both fail by design.
- The USB-JTAG receive side, whose peer is the host PC, and BLE links.
- `getMtuSize`, `baudRate`, `getQueueSize` and `headerInfo`: queries with no state change.
- A failed queue allocation in the `Transport` constructor (`transport.cpp:12`). The
  constructor only logs and returns. The derived constructor (`uart.cpp:41`,
  `usb_jtag.cpp:25`) still calls `setInitialized(true)`. Every `send` then passes the
  `isInitialized()` check and fails at the queue with `ESP_ERR_INVALID_STATE`, not with the
  `InvalidArgument` that spec section 9 requires. `Transport` starts from a queue that was
  allocated. This divergence is read directly from the code and has no run.
- The project stops here. What is left in `src/` is either hardware I/O (driver
  configuration, logging, timers) or absent (`ble.cpp`). The BLE adapter is modelled only
  through the shared `Transport` engine, so its status stays "partly".
