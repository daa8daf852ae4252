# Verification of the SimpleLink host driver, MQTT client and image update (CC3200 SDK)

TLA+ models of three parts of the SDK: the SimpleLink host driver
(`simplelink/source`), through which every application reaches the network
processor (NWP), the MQTT client that runs on its sockets (`netapps/mqtt`), and
the over-the-air update with its boot loader (`simplelink_extlib`,
`example/application_bootloader`).
The driver runs in several application tasks, one spawn task and an interrupt
handler at once.  Its correctness lies in the order in which these take its
locks, signal its sync objects and read its counters, which tests hardly reach.
The MQTT client has two tasks, a server and a connection that breaks; what it
promises spans several connections.
The update is sequential but spread over several boots: its correctness lies in
what the flash holds whenever the power fails.

## 1. Inventory

| Component | State | Operations | Interacts through | Hard because | Correct means |
|---|---|---|---|---|---|
| Action object pool (`driver.c` 1577-1792) | `ObjPool[]`, three index-linked lists, `ActiveActionsBitmap` | `_SlDrvWaitForPoolObj`, `_SlDrvReleasePoolObj`, `_SlRemoveFromList`, `_SlFindAndSetActiveObj` | `ProtectionLockObj`, one `SyncObj` per object | one sync object for two sleeps; woken calls are overtaken; answers in any order | a call has its socket alone, no object is lost, each answer reaches its caller, each call returns |
| Blocking calls (`socket.c`, `netapp.c`, `device.c`) | buffers on the caller's stack, reached by `pRespArgs` | connect, accept, recv, select, stop, ping, DNS queries and their handlers | the pool, the engine | the handler runs after the object was looked up | the handler finds the caller asleep |
| Command and receive engine (`driver.c` 576-636, 1200-1335, 1539-1570) | `RxIrqCnt`, `RxDoneCnt`, `IsCmdRespWaited`, `CmdSyncObj`, `FunctionParams` | interrupt handler, `_SlDrvCmdOp`, `_SlDrvMsgReadCmdCtx`, `_SlDrvMsgReadSpawnCtx`, `_SlDrvCmdSend` | `GlobalLockObj`, the spawn queue, the interrupt mask | the interrupt handler takes no lock | responses go to their commands, every message is read |
| Data flow control (`driver.c` 676-788, 897-908) | `TxPoolCnt`, `TxLockObj`, `TxSyncObj` | `_SlDrvDataReadOp`, `_SlDrvDataWriteOp`, header of `_SlDrvMsgRead` | both locks, message headers | test and use under different locks | the assertion holds, credit is real, no wake-up is lost |
| Message reading (`driver.c` 867-1142, 1440-1506) | lengths | `_SlDrvRxHdrRead`, `_SlDrvMsgRead` | the serial interface | no frames, alignment by hand, unsigned lengths | the stream stays in step, the read ends |
| Message writing (`driver.c` 793-862) | lengths | `_SlDrvMsgWrite` | the serial interface | announced and written lengths are computed apart | they agree |
| Start and stop (`device.c`) | `pInitCallback`, the control block | `sl_Start`, `_sl_HandleAsync_InitComplete`, `sl_Stop` | pool, interrupt registration | the control block goes away under other parties | no use of a released block |
| Ping with callback (`netapp.c` 955-1076) | `pPingCallBackFunc` | `sl_NetAppPingStart` | pool, handler | a global without a lock | a blocking ping is woken |
| Chunk loops (`socket.c`, `fs.c`) | offsets | `sl_Send`, `sl_SendTo`, `sl_FsRead`, `sl_FsWrite` | data and command operations, message reading and writing | one chunk of several fails, the file ends within one, the response overwrites the command | counts match what was done |
| FreeRTOS layer (`oslib/osi_freertos.c`) | spawn queue of 3 | `osi_Spawn`, spawn task | called from the interrupt handler | full queue, result ignored | no message is orphaned |
| No-OS layer (`spawn.c`, `nonos.c`) | lists of 10 entries | internal spawn, main loop | polling | exhausted lists | entries run once |
| Image commit (`flc.c`, `OtaApp.c`, boot loader `main.c`) | flash: boot info file, three image files; memory: `sBootInfo`, `OtaApp_t` | `sl_extLib_OtaRun`, `sl_extLib_OtaSet`, `sl_extlib_FlcCommit`, `sl_extlib_FlcTest`, `ImageLoader` | the flash, over resets | a reset between any two steps; results of file accesses are ignored; a copy of the file in memory | an image that did not approve itself never becomes permanent, a test ends, some image always boots |
| File download (`CdnClient.c`) | `state`, `totalBytesReceived`, the socket kept for the next file | `CdnClient_ConnectByUrl`, `CdnClient_Run`, `CdnClient_CloseServer` | socket calls, the flash | short receives, a second receive for alignment, a socket with the rest of an earlier body | a finished file is whole and its own, its handle is closed |

| MQTT client library (`mqtt_client.c`, `mqtt_common.c`) | per context: `flags`, wait list `qos_ack1_wl`, QoS 2 queues `qos2_rx_cq` and `qos2_tx_cq`, `tx_part`, `rx_mqp`; the packet pool with `n_refs` | setting up, sending and acknowledging packets, closing, resuming a session | one mutex, the socket | packets shared by three parties; what was lost with a connection is repeated on the next one; circular queues | a message is neither lost nor handled twice, no packet is given away twice |
| SimpleLink MQTT layer (`sl_mqtt_client.c`) | `awaited_ack`, `conn_ack`, `ack_sync_obj`, `g_rx_tx_sync_obj` | Connect, Disconnect, Sub, Unsub, Send; `VMqttRecvTask` and its callbacks | the library, two sync objects | calls wait without a timeout | each call returns, the acknowledgement it gets is its own |

The other network applications (the MQTT server, HTTP, SMTP, TFTP, XMPP), the peripheral
library, the middleware, the examples and the vendored code are listed with
their reasons in `PROJECT.json`.

How a blocking call flows through the parts: it takes a pool object, registers
its buffer, sends a command through the engine (or, for a receive, a data
message through flow control), sleeps on the object, is woken by the handler
of an event that the engine has read, and releases the object.

How an MQTT call flows: it takes a packet, sends it under the library's mutex,
leaves it on the wait list and sleeps on `ack_sync_obj`.  `VMqttRecvTask`
receives the acknowledgement, frees the packet and signals.  When the connection
closes the same task signals; the packet stays on the wait list and is sent
again when the next connection is acknowledged.

## 2. Modules

| Module | Models | State and actions |
|---|---|---|
| `SlList` | index-linked lists of the pool | operators on `NextIndex`: push, remove, the items reachable from a head, the first item with a property |
| `SlDrvPool` | pool, blocking calls, handlers | one action per critical section of `ProtectionLockObj`; `pc` says where a task is (`pending`, `retry`, `active`, `command`, `wait`, `release`) |
| `SlActionArbiter` | what the pool promises | a caller waits, holds its key alone, gets its own answer, returns |
| `SlCmdEngine` | command and receive engine | one action per assignment the interrupt handler can see, because it takes no lock |
| `SlFlowCont` | data flow control | one action per lock operation, test, sleep and signal |
| `SlMsgFraming` | message reading and writing | bytes are counted, not named; one action per part of a message |
| `SlTransfer` | chunk loops | composes with `SlMsgFraming`: each chunk writes its command and reads its response there; `call` holds the locals of the loop and the command as it is in the union `Msg`, `moved` which byte of the buffer went where |
| `MqttCommon` | circular queue of QoS 2 ids (`mqtt_common.c`) | operators on a queue: record, look up, acknowledge |
| `MqttClient` | client library | functions from a context to the next one, named after the routines (`proc_pub_rec_rx`, `session_resume`, `mqp_free`, ...) |
| `SlMqttClient` | SimpleLink layer and its two tasks, with a server | one action per stretch in which a task does not block, in a network service, for the mutex or for a signal: packet set-up, sending, sleeping; in the receive task the test of the connection, the PINGREQ, closing, allocation, receiving and processing, release |
| `SlMqttTasks` | the same tasks, preempted | the code that runs without the mutex, and what it meets, taken apart: `tx_part_reset` in three steps, the test and the set-up of `tx_part`, the wait list, `do_net_close`; `at` says where each task is in it |
| `SlImageCommit` | update client, commit library, boot loader | `bootInfo`, `img` and `mirror` are the flash; `pc` says who has the processor (`reset`, `loader`, `execute`, `app`, `halt`); one action per state and result of `sl_extLib_OtaRun`, per call of the host and per step of the boot loader; `Reset` at any time |
| `SlCdnClient` | download of each file | bytes are counted and belong to a file; one action per result of `CdnClient_ConnectByUrl` and `CdnClient_Run` |
| `SlDrvPoolProofs`, `SlCmdEngineProofs`, `SlFlowContProofs`, `SlTransferProofs`, `SlImageCommitProofs`, `SlCdnClientProofs`, `MqttClientProofs`, `SlMqttClientProofs` | proofs | section 5 |
| `MC...` | instances for TLC | request sets, message sets, symmetry |

Faithfulness notes.

- *Pool.*  `AdditionalData` carries the socket and the IPv6 family bit in one
  byte; the model keeps the bit in `FamilyBit`.  `_SlActionLookupTable` has no
  entry for `RECV_ID`, yet the walk indexes it for every active object: the
  opcode found there is any member of `Wild`.  `_SlRemoveFromList` is translated
  with its first test (a list of one item is emptied, whichever item was meant).
  The blocking calls share their steps and differ in action, socket and family;
  each is a set of requests (`sl_Connect`, `sl_Recv`, ...).  The family of an
  accept is that of its answer; only the DNS queries set the bit in the object.  The command of a
  call is accepted or refused in one step; how it gets its response is the
  subject of `SlCmdEngine`.  A blocking ping is modelled, a ping with a callback
  is not.  In `sl_Stop` the release of the control block is not modelled.
- *Engine.*  `MsgRead` is one step up to the unmasking of the interrupt;
  `RxDoneCnt++` is the next one.  A data operation is one step, as it holds
  `GlobalLockObj` throughout and touches nothing the interrupt handler reads.
  Taking the lock and setting `IsCmdRespWaited` are one step: the handler does
  not see the lock.  `VERIFY_PROTOCOL(0)` is a label without an exit.  The error
  return of `_SlDrvMsgWrite` is dead in this build, as its checks assert.
- *Flow control.*  The header of a message carries the credit of the NWP at the
  time the message is transferred.  This is an assumption about the NWP: with
  headers written earlier the driver would overwrite its count with a stale
  one, and `CreditCovered` would not hold.  The model begins after the first
  event of the NWP, whose header the driver ignores.
- *Framing.*  The NWP pads messages to 4 bytes and answers a receive with no
  more than was asked for.  The UART variant is not modelled.  Commands are
  written under the conditions the code asserts: arguments in front of a payload
  are a multiple of 4, as is a negative `RxPayloadLen`.
- *Transfers.*  The NWP moves less than it was asked for only at the end of a
  file: a loop that gets a short count in the middle would leave a gap, as it
  advances by `ChunkLen`.  A send on a RAW transceiver socket is at most one
  payload long: a longer one is cut and reported as sent.  `sl_Send` ORs its
  flags into a field it never set (`socket.c:619`); the field is not modelled.
- *MQTT.*  One context with one receive task.  The socket takes a packet as a
  whole or fails.  A receive may time out within a packet, whose part stays in
  `rx_mqp`, also over a close; the rest of a packet arrives before a second
  time-out, and a CONNACK, four bytes long, is not divided.  The tasks change
  only where one blocks: this is what runs if the receive task has a higher
  priority than the application (`rx_tsk_priority`, `sl_mqtt_client.h` line 260)
  or if neither preempts the other.  The code that runs without the mutex,
  `single_ctx_rx_prep` and below it `pingreq_send` and `do_net_close`, is not safe
  under other priorities; `SlMqttTasks` takes it apart and shows this (sections 3
  and 4), and what is said of `SlMqttClient` holds under this assumption only.  A
  break loses what is under way
  to the server; a send on a broken connection may succeed or fail.  The server
  follows the MQTT protocol: it answers in order, keeps its session unless the
  client asked for a clean one, and repeats unfinished messages.  The
  application connects only while the context has no connection, as the library
  demands.  Several contexts served by `mqtt_client_run`, packets sent in parts
  by other transports, the deletion of a context and the exit of the library are
  left out.
- *Image commit.*  The files are mirrored (`_FS_FILE_OPEN_FLAG_COMMIT`): a close
  replaces the contents in one step, an abort or a reset leaves the old ones.  A
  write that fails leaves the file as it is.  `Faults` names the accesses to the
  boot info file that may fail; the code ignores nearly all of these results, and
  so do the actions.  A file that fails to open in the boot loader is created
  anew.  The host follows the advice to reset the MCU, and calls
  `OtaSet(IMAGE_TEST)` when the download is done, as the examples in
  `flc_api.h` do.  `CommitsFirst` says that it reports its self test before it
  runs an update, as a comment in `flc.c` (line 108) assumes.  A version that
  reports success is `approved`; the shipped one is from the start.  The reset of
  the NWP, the statistics and the log are left out.
- *Download.*  The body of a response has as many bytes as the server's list
  said, and the rest of a body does not look like a status line.  The host makes
  no commit or test call in the middle of a download.  Signature and certificate
  files are left out.

## 3. Runs

| Run | Instance | Shows |
|---|---|---|
| `pool_answers` | 3 tasks, 2 objects, 2 sockets, two calls each, three actions on one socket | `Exclusive`, `PoolPartition`, `NoStaleSignal`, `AnswerIsForCaller`, `NoWildHandler`, `HandlerHasCaller`, `RecvFindsItsObject`: the pool runs empty, a woken call is overtaken, objects are used again by another action, answers come in any order |
| `pool_returns` | 3 tasks, calls of the same action contend | `CallReturns`; `ImplementsArbiter`: each step of the pool is a step of the arbiter or invisible to it |
| `pool_shared_socket` | a receive and a connect on one socket | violation of `Served`, see section 4 |
| `engine` | 2 tasks, 2 calls each, 2 events, queue of 1, counters modulo 4 | five invariants on responses and readers; `AlwaysUnmasked`, `CommandReturns` |
| `flow` | 2 receives, 1 send, 3 buffers | `CreditAtHand`, `CreditCovered`, `NoLostCredit`, `DataOpReturns` |
| `transfer` | messages of every class, shift 0 to 7, repeated sync, lengths to 13; commands with and without payloads; five chunked calls with chunks of 4 (files) and 6 bytes (sends), other messages between the chunks | `InStep`, `BufferFilled`, `ReadEnds`; `TransferExact`: the count a call returns is what it moved |
| `framing_short_buffer` | a buffer of 4 bytes, payloads of 4 and 5 bytes | violation of `ReadEnds`, see section 4 |
| `ota_commit` | 3 versions, updates of 2 files, reliable flash | seven safety properties: what is active, what runs, what is overwritten, what can be booted; `TestEnds` |
| `ota_rollback_lost` | writes may fail | violation of `BootedInTestingMode`, see section 4 |
| `cdn_download` | 3 files to 14 bytes, 2 servers, buffer 8, alignment 4 | `WholeOwnFile`, `NoOpenHandle` |
| `mqtt_session` | a QoS 2 publication or a subscription, a QoS 2 message of the server, keep-alive; 2 connections, 1 break, 2 packets | `ServerGetsOnce`, `ClientGetsOnce`, `NothingLost`, `AckExpected`, `CallReturns`, `Delivered` |
| `mqtt_only_once` | two QoS 2 messages of the server at once, two breaks | violation of `ClientGetsOnce`, see section 4 |

By hand, two instances of `SlMqttTasks` with the calls and bounds of
`mqtt_session` check that a packet in use is not in the pool and has no second
use (`PacketsNotShared`):

    tlc -config SlMqttTasks.cfg MCSlMqttTasks.tla       # receive task above the application: holds
    tlc -config SlMqttTasks_race.cfg MCSlMqttTasks.tla  # either preempts the other: violated

Bounds.  `MaxCalls` and `MaxEvents` bound the counters of calls and events.
Two calls per task (pool, engine) let an object, a signal or a counter outlive
the call that made it, which is what the properties are about; in `flow` the
three operations share the signal and one each is enough.  The spawn queue has one
entry instead of three, so that entries are dropped at once; the 8-bit counters
wrap at 4 instead of 256, the smallest value at which "one ahead" and "two
ahead" differ from "equal" and from each other with one value to spare.  Three
buffers are the smallest number at which a send can proceed at all
(`FLOW_CONT_MIN + 2`), so every send meets the limit.  Lengths to 13 cover
every remainder modulo 4 below, at and above the event buffer of 8; the 16-bit
length to dump wraps at 64 in `transfer`, far above every length of a message.
Transfers have no, one, two or three chunks, whole and broken ones; payloads of
sends are no multiple of 4, as the 1386 bytes of a secure socket are; files end
before, within or behind the transfer.  Three
versions let one be active, one be under test and one be downloaded over an
abandoned one; two files let an image follow an image, or a file that asks for
a reset follow one that does not.  The number of resets and updates is not
bounded.  The download has files of less than one buffer up to two, with every
remainder modulo the alignment, and a third file that meets what two left on
the socket.  In `mqtt_session` two messages in all, of the application, the
server and keep-alive, meet in every order, and one break lets each be lost at
every step and repeated on the second connection.  There are two packets, as in
the default configuration (`sl_mqtt_client.c` line 29), so the pool runs empty: a
connection that cannot be opened leaves one packet with nobody, and if another one
waits for its acknowledgement the receive task gives up for want of a packet.
`CallReturns` names this state (`Starved`) as the only one in which a call other
than Disconnect may wait for ever; that a call does wait there is a defect
(section 4).  Larger pools are the subject of the proofs.  The
server has one message at a time under way, as with two `ClientGetsOnce` fails
(section 4).

Deadlock is not checked where calls are bounded and the system may stop; it is
checked in `transfer` and in the runs of `SlImageCommit`.

The types of the state (`TypeOK`) are not the subject of a run; where they are
stated they are proved.

Fairness.  Weak fairness of a task's steps stands for the preemptive scheduler
of FreeRTOS; weak fairness of the interrupt for the level-triggered host
interrupt; weak fairness of the NWP's answers is the assumption under which a
blocking call is meant to return.  In `SlFlowCont` strong fairness of the two
lock operations stands for mutexes with a queue of waiters.  In `SlImageCommit`
strong fairness of the boot loader's steps says that the power lasts long enough
again and again; weak fairness of the report says that an image that stays up
reports its self test, as the example in `flc_api.h` does.  In `SlMqttClient`
weak fairness of the application's task within a call, of the receive task and
of the server's reading stands for the scheduler and a server that answers;
nobody has to make a call, publish or break the connection, and `Delivered`
asks for arrival only if the connection and its receive task are up for good.
`CallReturns` leaves Disconnect out (section 4), and the state `Starved`.  No fairness is
assumed for making calls or for events of the NWP.

Every property has a mutant of the mapped code (`..._IfNotWhile`, `..._NoMask`,
...) under which its run fails.

## 4. Disagreements with the code's own statements

- *Lost wake-up across actions* (`pool_shared_socket`).  A call queues behind
  any action on its socket, but a release wakes only pending calls with the same
  `ActionID` (`driver.c:1664`).  A connect that waits behind a receive sleeps
  although the socket is free.
- *Dump loop* (`framing_short_buffer`).  For a payload that is longer than the
  caller's buffer and not a multiple of 4, the unsigned rest steps over zero
  (`driver.c:1115`).  With a buffer of 4 bytes and a payload of 5 the rest is 1,
  then 65533, and the loop never ends.  For some lengths (payload 7, buffer 3) the rest is not
  dumped at all; the next read then skips it while it looks for a sync pattern.
- *Lost roll-back* (`ota_rollback_lost`).  `ImageLoader` ignores whether the
  status could be set back to NOTEST (`main.c:400`) and starts the active image.
  That image finds status TESTING, and when it reports its own success
  `sl_extlib_FlcCommit` makes the image that failed its test the active one.
- *MQTT messages delivered twice* (`mqtt_only_once`).  A repeated QoS 2 message is
  recognised and dropped without a new PUBREC, so that the PUBREL of a later
  message can come first; `qos2_pub_cq_unlog` moves `rd_idx` even when the id is
  not the oldest one (`mqtt_common.c:408`), and the record of the first message
  is skipped.  After another reconnect that message is given to the application
  again.

Met while modelling, without a run of their own:

- *Two tasks in `tx_part_reset`.*  "The services of the library are multi-task
  safe" (`mqtt_client.h:46`), but `single_ctx_rx_prep` closes the connection
  without the mutex (`mqtt_client.c:1477`).  In the trace of `SlMqttTasks_race.cfg`
  the application has sent a SUBSCRIBE, read `tx_mqp` and freed the packet (2
  references to 1); the keep-alive time is over for the receive task, whose PINGREQ
  is refused because `tx_part` is in use, so that it closes the connection; its
  `tx_part_reset` reads the same `tx_mqp` before the application clears it, and
  frees the packet again (1 to 0).  The packet goes to the pool and, by the
  application, to the wait list.  One task has to preempt the other in the middle
  of this.  With a priority above the application the receive task does not meet a
  half-done reset: it comes to this code from a wait for the mutex and goes through
  it without a break (`SlMqttTasks.cfg`).
- *Two packets.*  The default pool of two packets is too small for one failed
  connection: see *Packets left with nobody* below.  A call then waits for an
  acknowledgement that nobody receives (`Starved`).
- *IPv6 accept.*  `ACCEPTASYNCRESPONSE_V6` is recognised (`driver.c:966`), but
  `_SlFindAndSetActiveObj` clears the IPv6 bit of the opcode only for objects with
  `SL_NETAPP_FAMILY_MASK` (`driver.c:1759`), which `sl_Accept` never sets.  The
  accept is woken only if an IPv6 query happens to stand before it on the active
  list.
- *IPv6 service query.*  The handler returns before the
  signal for `SL_AF_INET6` (`netapp.c:776`), which the API documents as
  supported; the caller never returns and its object is lost.
- *End of file.*  Whether a chunk is the last one is decided
  before the second receive that aligns its length (`CdnClient.c:286`).  If that
  one gets the rest of the file, the file is complete, another receive finds
  nothing, and the file is aborted.
- *Packets left with nobody.*  When the connection cannot be opened, or a send is
  refused because it is gone, the packet of the call is not freed
  (`mqtt_client.c:708`), although the comments at lines 776 and 818 say so.
- *Disconnect.*  It sets `awaited_ack` after its test of the connection
  (`sl_mqtt_client.c:594`): if the receive task closes the connection in
  between, nobody signals.
- *Left-over signal.*  A CONNACK signals `ack_sync_obj` whether or not a call
  waits; the next Connect may return before its own CONNACK.
- *Repeated PUBRELs.*  `session_resume` is to "Re-send ACK awaited QoS1/2 msgs"
  (`mqtt_client.c:1099`), but `ack2_msg_id_dispatch` runs `i` from `rd_idx` to the
  number of entries (`mqtt_client.c:1088`), which is their range only when the
  oldest one is at index 0.  An instance of `SlMqttClient` with two QoS 2
  publications, one break and no other traffic shows it: the first one is
  completed, so that `rd_idx` is 1; the PUBREC of the second one is recorded, the
  connection breaks, and after the resumption its PUBREL is not sent.  The PUBCOMP
  of the next publication then is not for the oldest entry, and the client closes
  the connection over it.  `AckExpected` leaves PUBCOMP out for this reason.
- *Clean sessions for good.*  A CONNECT that asks for a clean session sets
  `CLEAN_SESSION_FLAG` (`mqtt_client.c:723`), and nothing clears it: after a later
  CONNECT that asks to keep the session its packets are still dropped when the
  connection closes, where `mqtt_client.h` (line 148) promises them to the next
  one.

## 5. Proofs

All theorems hold for every value of the constants that meets the named
assumptions (`PoolAssumption`, `EngineAssumption`, `FlowAssumption`,
`FramingAssumption`, `TransferAssumption`, `ImageAssumption`, `CdnAssumption`,
`CqAssumption`, `MqttAssumption`, `SlMqttAssumption`): any set of tasks, any pool size, any number of sockets, calls
and buffers, any lengths of messages, buffers and files, any set of versions.

**Pool** (`SlDrvPoolProofs`).  None of the invariants is inductive alone.  That
an answer reaches its caller needs that every command in the NWP is awaited by
exactly one caller, which needs mutual exclusion; that needs that a release
clears the bit of the released call, hence that the fields of an object are
those of its owner's request, hence that no two calls share an object, hence
that the lists are a partition.  `IInv` joins these: `TypeOK`, `PoolPartition`,
`ListsWellFormed`, `FieldsMatch`, `BitsHeld`, `Exclusive`, `NoStaleSignal`,
`BuffersSet`, `EventsAwaited`, `RxAwaited`, `NotYetAnswered`,
`AnswerIsForCaller`, `NoWildHandler`.  The proof has one step per action and
under it one per conjunct.  From `Invariance` follow `TypeCorrect`,
`MutualExclusion`, `NoObjectLost`, `SignalsConsumed`, `AnswersDelivered`,
`HandlersFromTable` and `HandlersHaveCallers`.

`ReceivesFound` is about the walk that looks for the object of an answer.  What
it finds is the first match on the active list; that this is the object of the
receive follows without an argument along the list, because every match belongs
to the one call that awaits the answer (`MatchedObject`, `FoundObject`).
`PoolRefinesArbiter` shows the refinement of `SlActionArbiter` step by step: one
lemma per action that is a step of the arbiter (`...Arbiter`), `ArbiterStutter`
for the others; a grant is one because a key whose bit is clear has no holder
(`NotBusyIsFree`).

The lists are the difficulty: reachability is usually defined by recursion,
which the prover cannot reason about.  `SlList!Chain` is the least set that
contains the head and is closed under `NextIndex`; the lemmas from `ChainClosed`
to `RemoveChain` prove from this what push and removal do to the chain of each
list and that lists without sharing stay so (`WellFormed`).

**Engine** (`SlCmdEngineProofs`).  That the spawn task reads no response, that a
command gets its own and that an announced message has a reader all rest on one
fact: a response is on its way only while the command it answers holds
`GlobalLockObj` and waits.  `IInv` states it (`OneResponse`, `ResponseAwaited`,
`ResponseStored`) together with what carries it: who holds the lock
(`LocksHeld`), what `IsCmdRespWaited` follows (`WaitedFollows`), whose
`FunctionParams` are in place (`ParamsKept`), and the exact difference of the two
counters in terms of the interrupt mask and of the readers between the unmasking
and their `RxDoneCnt++` (`CountsExact`).  The counters are compared modulo
`CntMod`; with a difference of at most two every modulus above 2 does.  From
`Invariance` follow `NoResponseMisread`, `ResponsesDelivered`,
`PendingIsExact`, `CountersStayClose` and `ReaderOnItsWay`, for every size of the
spawn queue.

**Flow control** (`SlFlowContProofs`).  `IInv` adds to the properties who holds
which lock (`LocksHeld`), that credit once tested cannot drop before it is
taken (`CreditKept`: only the holder of `TxLockObj` takes credit, and the NWP's
count covers the driver's), that a signal seen after the clear means credit for
a receive (`SignalMeansCredit`), and that credit found while going to sleep is
signalled (`CreditSignalled`).  From `Invariance` follow `TypeCorrect`,
`VerifyNeverFails`, `CreditIsReal`, `ReserveIsKept` and `NoWakeUpLost`.

**Interface and transfers** (`SlTransferProofs`).  `FramingInv` says for every
phase of a read and of a write how many bytes of the message are left
(`LeftToRead`, `LeftToWrite`) and what the buffer holds (`Stored`); the arithmetic
of alignment is settled in lemmas on `AlignUp` and `AlignDown`.  The theorems
have the hypothesis `\A m \in Message : Fits(m)`: a receive is answered with no
more than was asked for, and a response that is longer than the caller's buffer
is a multiple of 4.  It cannot be dropped: `framing_short_buffer` shows what
happens without it.  The messages of the `transfer` run meet it
(`FittingMessages`).  `TransferInv` adds the chunk loops: where the loop is
(`Cut`), what command and response say while the union `Msg` holds the one or
the other (`Asked`), and what has been moved (`MovedSoFar`).  The difficulty is
the end of a file: a loop whose chunk was cut short goes on, and the count stays
right because the next chunk begins behind the end.  Results: `StaysInStep`,
`BuffersFilled`, `TransfersExact`, and `InterfaceInStep` for the interface alone.

**Image commit** (`SlImageCommitProofs`).  The theorems hold under `Reliable`:
accesses to the boot info file do not fail (`Faults = {}`) and `CommitsFirst`.
Neither can be dropped: section 4 shows a failing write, and with
`CommitsFirst = FALSE` TLC finds an update that is written over the active
image, because `_McuImageGetNewIndex` looks at a copy of the boot info that was
not read in this boot.  That the active image is approved
is not inductive: a commit activates the image under test, so the invariant must
say that this image is the one that runs (`AppAgrees`), hence that boot loader
and flash agree on it before it is started (`LoaderAgrees`), and that no download
replaces it meanwhile, hence that downloads run only when no test is on and the
library's copy is the file (`SessionAfterStart`, `MirrorIsAlternate`).  That an
image is always found needs that a test is requested only after an image was
written (`TestExists`).  `IInv` joins these with `TypeOK`, `FirstBoot`,
`Approved` and `TestRequested`; `Invariance` gives `TypeCorrect`,
`ActiveStaysApproved`, `TestIsRecorded`, `TestingModeIsReal`,
`ActiveNotOverwritten`, `AlwaysBootable`, and the action property `StartedOnce`.

**Download** (`SlCdnClientProofs`).  `WholeOwnFile` needs to know what the socket
still delivers: `CdnInv` says that while a file is saved the socket has the rest
of it and nothing else, or is broken (`Saving`), as a request is only sent on a
socket that owes nothing.  Results: `FilesWhole`, `HandlesClosed`.

**Circular queue of QoS 2 ids** (`MqttClientProofs`).  `CqOK` says that `wr_idx`
is as far behind `rd_idx` as there are entries; `Logged` is the set of ids a
queue holds.  For every capacity: the duplicate test finds exactly the logged
ids (`CheckIsLogged`); recording adds one and keeps the others (`LogupAdds`);
acknowledging the oldest id takes it and nothing else (`UnlogTakesOldest`);
acknowledging any other id always spoils the queue (`FailedUnlogSpoils`), which
is the cause of what `mqtt_only_once` shows, for every capacity.  The difficulty
is the wrap-around: `PlaceBehind` and `PlacesDiffer` settle it once.  The module
also has what `Sift`, the part of a list that belongs to a set, does to lists that
are appended, reversed or lose their head; the recursion behind it is settled by
the least index at which a claim fails, as induction is not available.  Its second
half is about the routines of the library: what each changes of a context, for
every context (`FreeCtx`, `PartSent`, `Purge`, `NetClosed`, `Resumed`, ...).

**MQTT client** (`SlMqttClientProofs`).  Four properties, for every number of
packets, messages, connections and breaks, every capacity of the queues and every
mixture of calls; the constants only have to be of their kind
(`MqttAssumption`, `SlMqttAssumption`).

They rest on who uses which packet.  The obvious invariant, that `n_refs` is
the number of users, is false: a failed connect and a refused send leave their
packet with nobody (section 4), counted for ever.  `PoolInv` says that the count is
at least the number of uses (in the wait list, in `tx_part`, by the receive task,
by the call), that free packets have none, and that list and pool repeat nothing.
This is a lemma about tasks that are not preempted, and no result of its own: with
preemption it is false (`SlMqttTasks`, section 4).

`AcksFindPackets` states `AckExpected`: the first acknowledgement of a request
finds its packet, and a PUBREC finds it at the head of the wait list, where
`_proc_pub_rec_rx` looks without a test for an empty list.  It holds because the
acknowledgements on their way to the client followed by the requests on their way
to the server are a prefix of the wait list, in its order (`OrderOK`).  To keep
this when a request is appended the prefix must be all of the list whenever
packets may be sent, and while a request or a PINGREQ is (`AllUnderWay`): a send that fails closes the connection, and
a resumed session sends the list from its head.  `Handshake` says that nothing is
under way before the CONNACK; `CallOK`, `RxOK` and `ListOK` say which packets the
call, the receive task and the list have.  `Inductive` has one lemma per action
(`...Ok`) over lemmas on what each routine of the library does to a context
(`Purge`, `Moves`, `Sound`, ...).  TLC has checked each conjunct of `IInv` on the
instance of `mqtt_session`.  `WellTyped` is its first conjunct.

`AcceptedKept` states `NothingLost`, and `Qos2GivenOnce` states `ServerGetsOnce`,
both under `FewMessages`: `2 * MaxMessages + 1 < 65536`, as the client gives out the
odd values of a 16-bit `msg_id`, and beyond that an id comes again.  The bound is no
convenience: nothing in the client looks whether an id it gives out is still in
use.  Neither property is inductive, nor with `IInv`; the invariant `Once` adds
- `Counted`, `Fresh`: ids and messages are given out in ascending order, none waits
  twice, and none that the server has recorded is still to come;
- `Retired`: no PUBREL, under way or in any slot of `qos2_tx_cq`, also the stale
  ones that `ack2_msg_id_dispatch` may send, has the id of a packet that waits, so
  that the server keeps the record of a publication as long as its packet may be
  sent again;
- `ConnectFirst`: nothing precedes a CONNECT on its connection, and a server told
  to start a clean session is one whose client does so too;
- `Recorded`: a QoS 2 packet that waits is given exactly if its id is recorded, and
  an acknowledgement under way says that its message is given;
- `OwedOK`: what was accepted is given or waits.

While a connection with a new session is being made the two sides disagree about
it: the server has forgotten its records and the client still has its packets.
`SameSession` says when they agree; the CONNACK makes the client drop its packets
before any is sent.  The lemmas `...Once` show one action each; the model checker
found `Once` to be kept on three instances before it was proved.

`ServerMessagesOnce` states `ClientGetsOnce` under `OneAtATime`: sessions are kept,
the server sends with QoS 2 and has one message under way.  Each part is needed:
with two messages `mqtt_only_once` refutes the property; with a CONNECT that asks
for a clean session and is lost, the client forgets its log and the server keeps its
message (TLC shows it when `CleanChoices` has `TRUE`); a message with QoS 1 may come
twice.  Breaks, reconnects, capacities and the client's own requests are
arbitrary.  The invariant `RecvOnce` follows the exchange for the message:
`Exchange` says that of `PUBLISH`, `PUBREC`, `PUBREL` and `PUBCOMP` at most one is
under way, and which, for each state of the server's list (`Offered`, `Accepted`);
`GivenNoted` says that a message the server may send again and that was given is in
`qos2_rx_cq`; `QueueFits` that this queue has no other id than the server's only one,
so that it is never acknowledged out of order; `OneHello` that nothing of the
exchange is under way until the server has read the CONNECT, so that what it sends
again is not sent twice.  The lemmas `...RecvOnce` show one action each; TLC has
checked `RecvOnce` on two instances.

**Only model-checked.**  Liveness (`CallReturns`, `CommandReturns`,
`AlwaysUnmasked`, `DataOpReturns`, `ReadEnds`, `TestEnds`, and `CallReturns` and
`Delivered` of the MQTT client) is out of the prover's reach.  Every safety property
of a passing run has a theorem.

## 6. Plan

Done: the pool with its arbiter, the engine, flow control, message reading and
writing, the chunked transfers, the image commit, the file download and the MQTT
client; proofs of the safety of all of these.

Next, in this order:

1. `SlDevice`: `sl_Start`, its callback form and `sl_Stop` with the release of
   the control block.
2. `SlPing`: blocking pings and pings with a callback over `pPingCallBackFunc`.
3. `MqttServer`: the broker in the device over `MqttCommon`, joined to
   `SlMqttClient` in the place of its abstract server.
4. `SlNonOs`: the internal spawn lists and the polling loop.
5. `SlDriver`: pool, engine and flow control composed, so that the command of a
   blocking call is the engine's command.

## 7. Not modelled

- Start and stop of the device, pings with a callback, and the variant without
  an OS: planned above.
- The MQTT server: planned above.  HTTP, SMTP, TFTP and XMPP clients: sequential
  text protocols over the socket calls, without state shared between tasks.
- WLAN, network configuration and the remaining file system calls: each marshals
  one command through `_SlDrvCmdOp`, which the engine covers.
- Platform layer, peripheral library, register maps: accesses to hardware; what
  the driver relies on (the interrupt mask) is in `SlCmdEngine`.
- Middleware (power management, timers), the examples, generated configuration
  and vendored code (FreeRTOS, FatFs, jsmn).

Further spots a later model should look at: `sl_Start` returns
`SL_BAD_INTERFACE` without releasing its pool object (`device.c:143`), and its init
callback runs with `ProtectionLockObj` held (`device.c:159`); the
internal spawn takes an entry without a test for an empty list (`spawn.c:166`);
`_readSignature` does not close a file it cannot read (`CdnClient.c:164`);
`_OtaCleanToIdle` leaves state and handle of a download as they are, so a commit
or test call in the middle of one loses the handle (`OtaApp.c:389`); and the
result of `_ReadBootInfo` is ignored (`flc.c:36`), so that under failing reads a
test request in a new boot can make the factory image active.
