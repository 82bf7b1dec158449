# awtk-modbus in TLA+

A verification development for awtk-modbus, a Modbus library (client and slave,
over TCP, RTU on a serial line, and RTU over TCP) built on the AWTK toolkit
(`tkc`). Paths below are relative to the repository. Everything is translated
from the C code under `src/`; where code and documents disagree the models
follow the code, and the disagreement is a finding.

## 1. The system

### Components, their state and their operations

| Component | Source | State | Operations | Modelled by |
|---|---|---|---|---|
| client | `src/modbus_client.c` | `is_connected`, `auto_reconnect`, the stream, `slave`, `transaction_id`, `retry_times`, times | nine reads and writes, each a loop of send, wait, receive; reconnection; set_slave, set_auto_reconnect, set_retry_times, timeouts | `ModbusClient` |
| framing | `src/modbus_common.c` | transaction id, unit id, write buffer, `last_exception_code` | send a request, receive an answer (client); receive a request, send an answer or exception (service); flush | receiving answers in `ModbusClient`, requests in `ModbusService` |
| service | `src/modbus_service.c` | stream, `slave`, `is_shared_transport`, counters | dispatch of one request, attaching to the event loop, run, create, destroy | `ModbusService` |
| server channel | `src/modbus_server_channel.c` | start, length, writable, data, a nested mutex | read, write, write one, lock, unlock | `ServerChannel` |
| memory | `src/modbus_memory*.c` | four channels, hooks, an emitter | one function per table, forwarded to a channel, with a hook before reads and after writes | verdicts and tables in `ModbusService` |
| lifecycle | `src/modbus_service_tcp.c`, `src/modbus_service_rtu.c` | a static event source and static start arguments | start, start by args, stop, is started | `ServiceLifecycle` |
| client channel | `src/modbus_client_channel.c` | buffers, unit id, update interval, lock | read and write in several requests, update, clear or keep on failure | `ClientChannel` |
| init requests | `src/modbus_init_req.c` | a list of writes | run them over a client when a device is (re)initialised | `ClientChannel` (`InitRequest`) |
| demos, tests, board ports | `src/demos`, `src/tests`, `stm32` | | | read for what they promise; not modelled |

### How they interact

A **client** owns a stream. A call runs on the caller's thread: if the
connection is gone and `auto_reconnect` is set it makes a new one
(`modbus_client_check_and_auto_connect`), then sends, waits and receives up to
`retry_times` times. Retries happen for `RET_CRC` and `RET_SKIP` only; any other
result returns from the loop at once. `RET_IO` releases the stream
(`modbus_client_check_connect_status`). Only a call whose retries are used up
flushes the input.

A **service** sits on the event loop. When its stream has bytes, one dispatch
receives a frame, carries the request out on the memory, and sends a normal
answer or an exception. On a connection of its own (`is_shared_transport` false)
an I/O failure ends the service (`RET_REMOVE`), and the listener makes a new one
for the next connection. On a serial line (`is_shared_transport` true, set by
`modbus_service_rtu_start_impl`) it flushes and goes on, because nobody would
make a new one.

The **memory** is shared by the service's thread and the application's. Each
channel protects itself with a nested mutex, taken for the whole loop over the
elements of a request, again for every register and every written bit, and
around several calls by applications (`modbus_server_channel_lock`).

**Client channels** and **init requests** share one client: each call of a
channel sets the channel's unit id on it, if there is one, and then makes as many
calls as the table is long. A thread of the application polls the channels with
`modbus_client_channel_update`, which skips those whose `update_interval` is not
over.

A **listener** is a source in the event loop, known to its file by one static
pointer. It makes a service for each connection from the args it was started
with; a serial line has its one service from the start and loses it with its
source.

### What is hard here, and what makes each component correct

* Client: an answer may come late, in part, for another unit, damaged or not at
  all, while transaction ids (tcp) wrap and serial frames carry no id. Correct:
  `RET_OK` hands out only the answer to this call's own request; the released
  stream is not used; the connection is given up exactly with `RET_IO`; calls
  return and succeed again once the trouble is over.
* Service: noise, cut frames, frames for others, unknown functions, masters that
  lose patience. Correct: one true answer per request at most, no change of the
  memory by anything but an intact request to this unit, a serial slave never
  leaves the event loop, serving resumes.
* Channel: threads in the middle of a loop. Correct: requests are atomic, within
  range, and the nested lock neither deadlocks its owner nor is lost.
* Client and slave together: a request is carried out by one side while the other
  has given it up, retried it or closed the connection. Correct: `RET_OK` means
  carried out, and that nothing of the call is left to be carried out later.
* Client channel: one table takes several requests, of which a later one may fail;
  a unit id set on the shared client outlives the call; the time given to an
  update is stale. Correct: every element comes from, or goes to, its own cell; a
  failed read leaves exactly what `error_handling` promises; updates are spaced.
* Lifecycle: a source stopped inside a dispatch goes later; args are read again
  for every connection. Correct: the static pointers know every source; each
  connection is served what its listener was started with; a broken connection
  goes, a broken line stays.

`PROJECT.json` lists the hazards line by line.

## 2. The modules

| Module | What it is |
|---|---|
| `ClientPromise` | what a client promises its caller: serial calls, `OK` with its own answer, disconnection exactly by `RET_IO` |
| `ModbusClient` | the client and its stream; the far end as environment |
| `MCModbusClient` | sets of calls for TLC |
| `ModbusClientProofs` | types, use of the stream, the end of calls, own answers and refinement of `ClientPromise` (tcp; any transport undisturbed) |
| `RemoteCall` | what client and slave together promise: done before `OK`, settled after it |
| `ModbusSystem` | `ModbusClient` and the slave it calls, every request numbered by its call |
| `MCModbusSystem`, `ModbusSystemProofs` | calls for TLC; types, settled calls, final success, refinement of `RemoteCall` |
| `ClientChannel` | client channels and init requests over one shared client, and the devices |
| `MCClientChannel`, `ClientChannelProofs` | pairs of channels for TLC; types, all safety properties, when the default unit is used |
| `ServiceLifecycle` | starting and stopping listeners, their args, the services they make |
| `ServiceLifecycleProofs` | types and all safety properties |
| `RegisterBank` | what a channel promises: requests that take effect at one instant |
| `ServerChannel` | the channel, element by element, under its lock |
| `MCServerChannel`, `ServerChannelProofs` | requests for TLC; types, mutual exclusion, refinement of `RegisterBank` |
| `SlavePromise` | what a slave promises a master |
| `ModbusService` | one dispatch in its steps, the line, the master, the application |
| `MCModbusService` | modes and requests for TLC |
| `ModbusServiceProofs` | types, attachment, refinement of `SlavePromise`, and what alone breaks it |

The definitions named `...Unnoticed`, `...Anyway`, `Any...` and the like, marked
"Slip" in their comment, are plausible mistakes in the definition below them.
They belong to no specification; `PROJECT.json` pairs each with the property
that notices it.

### ModbusClient

State: the fields of `modbus_client_t` and its `common` that steer a call, the
program counter and locals of the call (`pc`, `op`, `attempt`, `ret`), the frame
handed out (`answer`), and the line: `pending`, requests the far end has not
answered, and `rx`, what has arrived. Actions follow the loop of
`modbus_client_read_bits` and its eight siblings: `Call*` (check and
reconnect), `Send`, `CheckTimeout`, one `Recv*` for each way out of
`modbus_common_recv_resp` and the decoder after it, `Retry`, `Return`,
`Exhausted`, `Flush`. `Reported` is what `..._write_and_read_registers_impl`
makes of a failed receive (always `RET_FAIL`).

Abstractions:

* A frame is a record of what the receiver compares: transaction id, unit,
  function, count, whether it is an exception and whether its crc is right. `age`
  counts the requests sent since the one it answers, up to `TidMod`; it is a
  ghost.
* `Junk` is the unread rest of a frame: the next read starts inside it. On tcp a
  header read there matches no request; on rtu it may look like anything short of
  a frame with a right crc.
* A frame is in `rx` from its first byte on; the rest of it may still be arriving.
  A flush takes what has arrived and waits for nothing
  (`src/modbus_common.c:746`), so after it, and after the unit id mismatch that
  calls it (`RecvOtherSlave`, `src/modbus_common.c:212`), any rest of the stream may
  be left, from the middle of a frame included (`JunkRests`). Where reading ends
  is over-approximated in the same way.
* `Disturbances` are the faults that can leave something to be read by a later
  attempt or call: slow sends, late, partial and damaged answers, and answers from
  another unit, whose rest comes after the flush. What is claimed of lines without
  ids (`Undisturbed...`) ends with the first of them.
* Closing a socket loses what is under way; an answer on a serial line is still
  there when the port is opened again.
* Times are outcomes: a wait may end with or without an answer. A write into a
  line that holds `MaxQueue` requests fails.

### ServerChannel

State: the channel (`name`, `writable`, `data`), its mutex (`owner`, `depth`)
and, for each thread, the call it is in. `Call` is the argument checks in the
order of the code (count 0, limit, writable, range), `Enter` the outer lock,
`ReadElement` and `WriteElement` one turn of the loop, `Leave` the unlock;
`Lock` and `Unlock` are the application's. The lock, access and unlock of one
element are one step, since the outer lock is held. Reading a bit takes no lock
of its own, as in the code. Values are byte pairs, so that a missing byte swap
is seen; `addr + i` wraps at `AddrMod` as the `uint16_t` it is.

`TakesEffectAtOnce` maps this to `RegisterBank`: a write takes effect when it
gets the lock (elements it has still to write count as written, `SeenAs`), a
read when it gives it back, a hold of the lock by the application
(`OwnLocks`) is the bank kept.

### ModbusService

State: the service's `tid` and `attached`, the locals of a dispatch (`pc`, `req`,
`ret`, `data`), the memory as one value per table, the line (`in`, `out`) and the
master (`asked`, `got`). `mode` is how the service runs: on a serial line with
`WITH_MULT_SLAVES` (no exception to frames of others), over tcp, and rtu over
tcp. A dispatch is: one `Recv*` step for each way out of
`modbus_common_recv_req`; one step on the memory, or two for function 23
(`WriteFirst`, `ReadSecond`: the lock is free between them); one `Send` or
`SendFails`. Requests on the memory are atomic here because `ServerChannel`
refines `RegisterBank`.

Abstractions: counts are none, some, or beyond the limit; addresses inside or
outside the channel (a missing channel is "outside"; both are
`RET_INVALID_ADDR`); hooks and application threads are `OwnWrite`; the counters
`num_*` steer nothing and are left out; the byte count in a write request agrees
with its count. A damaged frame is never accepted by its crc. `Junk` passes the
unit id check only as the fault "lookalike".
`attached'` is what AWTK's `tk_service` (not in this repository) does with the
result of `dispatch`: anything but `RET_OK` ends the service. The two other ways
to drive a dispatch, `modbus_service_attach_to_event_source_manager` (which asks
the stream whether it is still ok) and `modbus_service_run`, have no user in the
repository and are not modelled.

`KeepsPromise` maps this to `SlavePromise`, with `stage`, `job` and `shown` read
off the program counter; between the halves of function 23 `stage` is "written"
only if both can be carried out, so that a request refused in both is one that
was not carried out at all.

### ModbusSystem

`ModbusSystem` extends `ModbusClient` and takes its actions as they are. Beside
each pending request (`cargo`) it keeps the number of the call that sent it, and
in `carried` the calls that were carried out. The slave takes requests in order
(`SysAnswer`, `SysAnswerBadly`). What a closed connection still carried goes to
`stray` and may be carried out at any later time (`StrayServed`): closing a tcp
socket takes nothing back. On a serial line this over-approximates.

Abstractions: a request that gets a normal answer was carried out (`Served(TRUE)`).
`ModbusService` shows this of the service but for one case, finding 4
(`OnlySplitPairsBreakIt`). A request
that gets none, or an exception, was carried out or not.

`KeepsRemotePromise` maps this to `RemoteCall`: `waiting` are the ended calls the
connection still carries, `adrift` those of closed ones. `RemoteCall` allows a
retried write to be carried out twice, and a failed one afterwards; it forbids
`OK` before the call was carried out, and anything left of it after `OK`.

### ClientChannel

State: of each channel what it was loaded with (`conf`), `unit_id`, whether a
client is set, both buffers, `next_update_time` (`due`, relative to the present);
of the shared client its slave; the call in progress (`pc`, `chan`, `kind`,
`done`, `ret`); the cells of the devices. `Begin` sets the unit id and enters the
branch of the switch; `ReadRequest` and `WriteRequest` are one turn of a loop,
`BothRequest` function 23; `ReadFails`, `WriteFails` a turn whose request fails;
`Finish` clears or keeps the buffer and, in an update, sets `next_update_time`.
`seen`, `before` and `rest` are histories for the properties: what each cell held
since the call began, the buffer before it, the time since the last update.

Abstractions:

* A call of the client is one step: `RET_OK` and done, or failed and done or not,
  as `ClientPromise` and `RemoteCall` have it.
* The eight branches for bits and registers differ in limits and packing only:
  `access` is read, write, both or unknown. A write of a single element is a table
  of one element.
* After a failed function 23 `Finish` does not clear, as in the code; but an
  attempt, where there was one, has cleared as many bytes of the read buffer as
  there are registers to read (`ClearHalf`, `src/modbus_client.c:452`).
* The lock: the functions of a channel do not take it. The polling thread is taken
  to hold it during a call, and the application while it fills the write buffer
  (`FillWriteBuffer`).

### ServiceLifecycle

State: the args structs (two static ones and the application's own), the two
static pointers `s_service_source` (`source`), the sources (`listener`) and the
services by the stream they serve. `StartImpl` is `modbus_service_*_start_impl`
with its refusals and failures, `StartByFields` writes the static args first, as
the code does, `StartByArgs` hands the struct through. `Stop` removes the source,
which is destroyed at once or, inside a dispatch, later (`Destroyed`);
`LoopDestroyed` is the event loop's end.

Abstractions: of the args only the memory and `is_shared_transport` are kept; the
other fields travel as the memory does. Ports, urls, keep-alive and the
`on_connected` hook are left out, except that a start may fail.

Three fields are histories, not state of the code: `started` and `origin` say of a
listener, and of the services it makes, which memory its start asked for and
whether it was by fields, by args, or by fields and then `"overruled"` by a
refused start by fields; `onLine` says that a struct has been given to a serial
start since the application set it up.

The application calls any start at any time, with any of its structs. The one
thing it does not do is to refill a struct that a listener holds a pointer to
(`Prepare`).

Two properties name, as their premise, what the code gets wrong:

* `ServedAsStarted` speaks of services whose listener is not overruled. A second
  `modbus_service_tcp_start` is refused, but it has overwritten the static args by
  then (finding 3, `RefusedStartIsVoid`). An rtu listener reads its args only when
  it starts.
* `BrokenIsReleased` speaks of connections whose struct was never given to a serial
  start since it was set up: an rtu start sets `is_shared_transport` in the caller's
  struct, even when it fails (`src/modbus_service_rtu.c:42`), and nothing clears it;
  the same struct used for tcp then makes services that survive their connection.

## 3. The runs

| Run | Question | Result |
|---|---|---|
| `client_tcp` | tcp client, late / partial / lost / refused / exceptions / other units | holds: types, `ReplyIsOurs`, `AnsweredInTurn`, `KeepsPromise`, `RecoversByPlainCalls`; 173k states |
| `client_rtu` | serial client, damaged frames too | holds: `OnlyOpenIoUsed`, `UndisturbedReplyIsOurs`, `ReturnTellsLink`, `CallsAreBounded`, `EveryCallReturns`, `UndisturbedRecovers`; 53k states |
| `client_tcp_late_answer` | does a client that only writes-and-reads recover from one late answer? | **no**: `Recovers` fails |
| `client_rtu_slow_send` | is a serial answer always the call's own? | **no**: `ReplyIsOurs` fails |
| `server_channel` | two threads on one channel | holds: types, `LoopUnderLock`, `TakesEffectAtOnce`, `EveryCallReturns`; 36k states |
| `service` | the slave in three modes | holds: types, `SharedStaysAttached`, `KeepsPromise`, `ServesAgain`; 437k states |
| `service_half_refused` | function 23 with a write outside the channel | **`AnsweredIsWritten` fails** |
| `system` | client and slave over tcp: is `RET_OK` done, and done with? | holds: `SystemTypeOK`, `OkIsSettled`, `KeepsRemotePromise`, `SuccessIsFinal`; 408k states |
| `client_channel` | tables read and written in several requests by two channels of one client | holds: types, `OkReadIsRecent`, `OkWriteHasArrived`, `OnlyOwnCellsWritten`, `FailedReadKeepsOrClears`, `UpdatesAreSpaced`; 974k states |
| `client_channel_default` | a channel without a unit id beside one with | **`DefaultUnitIsUsed` fails** |
| `service_lifecycle` | starts, refused and failed starts, stops, accepted and broken connections | holds: types, `SourcesAreTracked`, `ServedAsStarted`, `StartedStays`, `BrokenIsReleased`; 190k states |
| `service_lifecycle_refused` | is a refused start without effect? | **no**: `RefusedStartIsVoid` fails |

### Findings

1. `client_tcp_late_answer`: every failed receive of
   `modbus_client_write_and_read_registers` becomes `RET_FAIL`
   (`src/modbus_client.c:464`), which neither disconnects nor flushes. After one
   late answer each call reads the answer to the call before, rejects its
   transaction id, and leaves its own answer for the next. Calls of the other
   kinds report `RET_IO`, reconnect and so end it (`RecoversByPlainCalls`).
   `docs/changes.md:126` describes this state as corrected.
2. `client_rtu_slow_send`: a `RET_TIMEOUT` return skips the flush that
   `src/modbus_client.c:257` says keeps requests and answers in step; the next
   call of the same kind takes the old answer for its own.
3. `service_lifecycle_refused`: `modbus_service_tcp_start` puts memory, proto and
   slave into its static args (`src/modbus_service_tcp.c:58`) before the call is
   refused because there is a listener (line 41). The listener reads these args for
   every connection it accepts, so later connections are served the memory of the
   start that returned `RET_FAIL`. `docs/changes.md:61` limits the function to one
   call, and `tests/modbus_server_test.cc:48` makes the second one.
4. `service_half_refused`: function 23 ignores the result of its write
   (`src/modbus_service.c:181`).
5. `client_channel_default`: a unit id that a channel or an init request sets on
   the shared client stays there (`src/modbus_client_channel.c:66`,
   `src/modbus_init_req.c:55`), so that a channel without one does not use the
   default, as `docs/changes.md:91` says, but the last one used.

Seen while modelling, without a run of their own:

* The receiver's crc of an exception leaves out the exception code
  (`src/modbus_common.c:249`), so a refusal on rtu is `RET_CRC` and is retried,
  though `docs/changes.md:123` has retries for crc errors only. The definition
  `UndamagedIsNoCrcError` denies it, and the theorem `OnlyExceptionsFailTheCrc`
  says that this is the only way an undamaged frame fails the crc.
* `src/modbus_client.c:233` says that after `RET_SKIP` the buffer has been emptied;
  the flush before it waits for nothing, so that on a serial line the rest of the
  foreign frame comes later, and the retry reads it as a header.
* A server channel whose start + length exceeds 65536 accepts a write past the last
  address and does not store it (`src/modbus_server_channel.c:225`).
* The flag `is_shared_transport` of a struct once used on a serial line, see
  `ServiceLifecycle` above.
* `modbus_client.c:452` clears half of the buffer it is to clear, and on a channel
  with `keep_last_value` that half is lost when function 23 fails.
* `modbus_service_run` waits for `RET_IO`, which a dispatch on a broken connection
  does not return (`src/modbus_service.c:290`).

### Bounds, and why they are enough

* Client: `MaxFaults` 2 lets two things go wrong in any combination (a late
  answer during a retry, a refused connection after a partial answer);
  `MaxQueue` 2 holds the own answer behind an old one, the shortest queue in
  which they can be confused. `RetryTimes` 2 is a retry and its exhaustion.
  `TidMod` 6 is one more than the requests that can be queued both ways or lost
  (2 `MaxQueue` - 1 + `MaxFaults`, the premise of `IdsDoNotComeRound`), so that
  ids do not come round too early, as 2^16 do not, and still wrap. With ids that
  take two values only an old answer does pass for a new one: the slip
  `NextTidNarrow`. Three calls: a
  read, a write, and the one that reports all failures alike. On serial lines ids
  play no part (`TidMod` 2) and two reads differing in count suffice.
* Channel: two threads, two elements: enough for a half written request to be
  seen. One request for each verdict, a nested hold (`MaxDepth` 1 plus the call's
  own lock). `AddrMod` 8 keeps the channel from wrapping.
* Service: one fault of any kind at any moment of any request; `MaxIn` 2 puts a request behind junk, `MaxOut` 1 makes a send wait.
  Eight requests: each path through the switch that differs in its effects;
  function 23 legal in both halves and in none (one half: finding 4).
* System: five calls and three faults: a call can fail and its request be met by a
  later one on the same or on a new connection, twice. `TidMod` 7 is one more than
  the requests that can be queued or lost. One slave, a write and the operation
  that keeps the connection after a failure.
* Client channel: `MaxRead` and `MaxWrite` 2 make two requests of a table of three
  elements, the second cut short; the four pairs have each access type, `keep` on
  and off, a table too long for function 23 and an empty one. `AddrMod` 3 is the
  table's size: a request too long meets a cell that is not its own. One change of
  a device, a buffer or a unit id at any time (`MaxChanges`) is enough to tell old
  values from new ones. `Interval` 1 and `MaxLag` 1: a lag as long as the interval.
* Lifecycle: two sources, one for each transport, as many as there can be at a time
  (`SourcesAreTracked`: a removed one counts until it is destroyed). One struct of the
  application beside the two static ones, and two memories, tell the right one from
  the wrong one; one connection at a time sees all a listener can do to it.

### Fairness

* Client: `WF(ClientStep)`: the calling thread runs and every read and write of
  the code has a timeout. `WF(Call)`: the application goes on calling, which a
  statement about later calls needs. `WF(Answer)`: the far end answers requests it
  received; it is the healthy peer to which communication should be restored.
  Losing, delaying and refusing are not fair and are bounded by `MaxFaults`.
* Channel: `WF` of each thread's progress; `SF` of getting the lock, the operating
  system's mutex not starving a waiter; `SF` of the application's unlock, since a
  caller that never gives the lock back blocks others by its own doing.
* Service: the event loop runs, a listener accepts a new connection, the
  master takes answers, and gives up once nothing moves.
  `ServesAgain` assumes that the master keeps asking what can be answered and does
  not ask unknown functions for ever: each one leaves unread bytes behind, and
  they may take the next request with them.

* Lifecycle: the event loop dispatches a broken stream, which stays readable, and
  destroys a removed source once the dispatch is over.
* System and client channel: their properties are safety; nothing is fair.

Deadlock is checked in every run.

## 4. The proofs

Checked by TLAPS for every value of the constants that satisfies the modules'
assumptions.

**ModbusClientProofs.** `BaseInv` is `TypeOK` and `LinkInv` (within a call the
connection is there and the stream open). It is inductive and gives
`TypeCorrect` and `ReleasedIoUnused`. The second shows that the flush after the
retry loop never meets a released stream: `RET_IO` is not a retry reason, so the
loop cannot be exhausted with it. Two more theorems follow from `BaseInv`, for
every transport. `IoMeansDisconnected`: a call returns `RET_IO` exactly when it
leaves no connection. `CallsEnd`: `StepsLeft` is a variant of the call; each step
of the call lowers it, and no step of the far end or of the application (which
may change the slave or the reconnection flag only between calls) raises it, so
a call ends within 4 `RetryTimes` + 2 steps of its own. This is the safety half
of `EveryCallReturns`; that the steps are taken is left to fairness.

`TcpReplyIsOurs` (tcp, `RetryTimes` > 0) needs to relate every frame on the line
to the counter: `StreamInv` says a frame of age n carries the id the counter had
n requests ago, as long as n is below `TidMod`. `ClosedInv` (nothing is on its
way once the connection is closed) is what keeps this true when reconnection
resets the id to 0. Then equal ids mean age 0 or an age of at least `TidMod`.
`TcpClientKeepsPromise` is the refinement of `ClientPromise` under the same
invariant, one lemma for calls and one for returns.
`RetryTimes` > 0 is needed: with 0 the loop is not entered and `RET_OK` returned
for nothing.

`IdsDoNotComeRound` says when that second case cannot happen: with `TidMod`
above 2 `MaxQueue` - 1 + `MaxLost` no answer handed out is older than the last
request. `AgeInv` is the reason: the line keeps its order, so a frame is no older
than the number of frames and requests behind it and of requests lost; `Remains`
says that whatever a receive takes off the front leaves the others at their
distance from the end. A request that cannot be written takes an id and no place,
but the connection does not outlive it (`OrderInv`). The premise speaks of the
model's bounds; for the code it reads: fewer than 2^16 requests queued and lost on
one connection.

`UndisturbedReply` (any transport, `RetryTimes` > 0) is about lines without ids:
`CalmInv` says that as long as nothing was disturbed (see `Disturbances`; foreign
answers are among them) at most one frame is on its way, that of the present
attempt and of the present unit, and none once the attempt is judged; so the frame
that comes is the call's own and is read whole. What it rules out is that lost
answers, failed writes, exceptions, retries and new connections get the two sides
out of step by themselves. Under the same invariant
`UndisturbedKeepsPromise` proves the refinement of `ClientPromise`, and
`UndisturbedAnsweredInTurn` that answers come in turn, on lines of every kind.

`OnlyExceptionsFailTheCrc` says how far the crc error of exceptions goes: over tcp,
or if no exceptions are sent, an undamaged frame is never a crc error. `PlainInv` says that no exception
is then on its way.

**ModbusSystemProofs.** `SysInv` has the types, the lengths and the order of
`cargo`. `OkSettles` needs to know what an answer in the stream says of the
requests before it: `LastInv` relates each frame in `rx` to the number of its
call and to `carried`, `OkInv` says that an answer of age 0 to the present call
leaves nothing before it on the connection. `SystemKeepsRemotePromise` is the
refinement of `RemoteCall`, one lemma per kind of step, and has the premise
`[]AnsweredInTurn`: no answer handed out is older than the last request. Where ids
cannot tell such an answer from the right one, no invariant can.
`SuccessStaysFinal` has the same premise: once `RET_OK` is returned nothing of the
call is left, on this connection or on a closed one, now or later. Its invariant
`HereInv` says that a call that has just returned `RET_OK` has nothing among the
strays; that numbers only grow does the rest.

`SystemRunsClient` (`SystemSpec => Spec`) makes every theorem about the client one
about the system, and so discharges that premise twice:
`TcpSystemKeepsRemotePromise` by `IdsDoNotComeRound`, with a condition on the
constants only; `UndisturbedSystemKeepsRemotePromise`, for lines without ids, by
`UndisturbedAnsweredInTurn`.

**ClientChannelProofs.** `BaseInv` has the types and that the tables are functions
of the channels. `RestInv` (the time since the last update and the time to the next
make an interval at least) is what spaces updates whatever time a caller gives.
`CallInv` says of a call in progress which branch and kind it is of (`Shape`), that
the shared client is set to the channel's unit, that the elements below `done` are
read or written, each from or to its own cell, and the others untouched. Four
theorems follow from it; that writes stay within the range and do not collide
rests on `WrittenAt`: no two elements of a table go to the same cell. The
assumption `WithinAddressSpace` (offset + length within the address space) keeps
the `uint16_t` sums from wrapping. `AloneDefaultUnitIsUsed` delimits finding 5: as
long as every channel and init request has no unit id or names the default one,
channels without one use the default; the premise on the channels is temporal,
since `set_unit_id` may change them at any time.

**ServiceLifecycleProofs.** `BaseInv` is `TypeOK`, `SourcesAreTracked`,
`StartedStays` and `LineInv` (a line's service is shared, so no failure ends it);
it is inductive. A dying source is still the one its pointer names, so that no
second one starts before it is gone: this is why the unconditional clearing in
`on_service_source_destroy` is right. `ServedCorrect` adds `ServedInv`; all it
asks of the application is the guard of `Prepare`, that a struct is left alone
while a listener points to it. The args of a tcp listener that no refused start
has overruled are the static ones if it was started by fields, one of the
application's own structs if by args, and hold the memory it was started with; a
failed start, a start of the other kind or a stop does not reach them. What the
theorem leaves out is finding 3 and nothing else.

**ServerChannelProofs.** `BaseInv` is `TypeOK` and `LockInv` (who is in the loop
is the owner and has it once more than it holds it itself); `CallsInv` says of
each call that its request was found legal, that the position is within the
request and that what was read so far is what the channel holds (nobody else can
write meanwhile). `MutualExclusion` follows from the first,
`RequestsAreAtomic` (`Spec => TakesEffectAtOnce`) from both, by one lemma per
action that names the abstract step it is. Types and mutual exclusion hold for
every channel and every request. Atomicity has two premises: the channel is no
longer than the address space, and no accepted write goes past the last address
(`WritesFit`), which is dropped although it is accepted. A channel that ends within the
address space meets both (`InnerChannelFits`). Reads may wrap: the `uint16_t`
difference to `start` undoes the wrap of the sum (`WrapsCancel`).

**ModbusServiceProofs.** `SharedServiceStays` is inductive by itself. For the
rest, `Inv` is `TypeOK`, `LineInv` and `DispatchInv`. `LineInv` says of every
frame on its way to the service that, if it passes the crc, some master asked
it: on tcp every frame, on rtu the intact ones. It needs `SharedIsRtu` (what is
shared is an rtu line, as `modbus_service_rtu_start_impl` sees to): over a shared
tcp transport a damaged frame would pass. `DispatchInv` says that a request being
carried out is for this unit and of a served function, and that the read of
function 23 comes only after both limits were checked. `OneTrueAnswer`
(`Spec => KeepsPromise`) adds `RefusedInv`: a request met with an exception, other
than for its crc, could not have been carried out. It has the assumption
`HalvesAgree`: of function 23 both halves are legal or neither is.

How far finding 4 goes is a theorem too. `OnlySplitPairsBreakIt` has no premise on
the requests: every step of the service is a step of `SlavePromise` or none,
unless a function 23 with one half refused (`Split`) is being carried out.
`AgreedIsWritten` proves the property of the finding itself where `HalvesAgree`.

**Only model-checked:** liveness (`EveryCallReturns`, `RecoversByPlainCalls`,
`UndisturbedRecovers`, `ServesAgain`, `BrokenIsReleased`), since the provers have
no fairness or ENABLED; `CallsEnd` is as near as a theorem comes to the first.
Every safety property of a passing run is a theorem, under
the assumptions named above. Of the violated ones `ReplyIsOurs`,
`AnsweredIsWritten` and `DefaultUnitIsUsed` are theorems outside of the finding;
so is `RefusedStartIsVoid`, which is `ServedAsStarted` without its premise;
`Recovers` is liveness.

## 5. Plan

The modules were written in this order, each checked and then proved about:
`ModbusClient` with `ClientPromise`, `ServerChannel` with `RegisterBank`,
`ModbusService` with `SlavePromise`, `ModbusSystem` with `RemoteCall`,
`ClientChannel`, `ServiceLifecycle`.

What could come next:

1. Proofs: variants as in `CallsEnd` for a dispatch of `ModbusService`, for a
   request of `ServerChannel` and for a call of `ClientChannel`; what `RemoteCall`
   and `SlavePromise` imply by themselves.
2. `modbus_service_run` and `modbus_service_attach_to_event_source_manager` as
   further ways to drive the dispatch of `ModbusService`.
3. The memory's hooks and its changed event, as steps of their own around the
   request: what a hook reads is another critical section than the request.
4. `set_retry_times` and the times of the client as actions;
   `last_exception_code`; the counters of services and channels.

### Not modelled

* Parsing of configuration and urls, the encoding of frames byte by byte,
  creation failures for want of memory and destruction: they hold no state that
  several steps or actors could get wrong.
* Demos, tests and the firmware under `stm32/`: applications of the library. The
  firmware is vendored vendor headers, drivers, file systems and games, and makes
  up almost all lines of the repository; none of it is Modbus code, so that the
  modelled share of the whole repository stays small however much of `src/` is
  covered.
* AWTK (streams, event loop, mutexes, serial ports) is not in this repository; what
  the code relies on is modelled where it is used, as external.
