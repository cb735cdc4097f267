# TLA+ models of roboplc-io-ads

This directory models the ADS/AMS client in `src/src/` with TLC.

## The system

The crate is a client for Beckhoff ADS over AMS/TCP.

- **Request engine**: `ClientInner::communicate`, `client.rs` 316-459. A caller takes an invoke id
  (`fetch_add`, wrapping). It registers a one-shot `DataCell` in `reply_map` under that id. Then it writes the
  request and waits on the cell, with or without the read timeout. It validates the reply in a fixed order and copies the data out.
- **Reply registry**: `reply_map`, a mutex-protected `BTreeMap<u32, DataCell>`. The caller inserts entries.
  The caller removes one on timeout; the reader removes one on delivery.
- **Reader thread**: `Reader::run` / `run_inner`, lines 491-607. It takes each new socket from `reader_rx`,
  records the session id and posts a restart event. Then it reads frames until the socket fails or a frame is inconsistent.
  Replies go to the registry, notifications to the notification channel, other frames are skipped.
  When `run_inner` ends, it asks the session manager to reconnect if the session is still the one it recorded.
- **Session manager**: the external `roboplc::comm::Client`. It owns the TCP stream and the session id.
  It reconnects after a failure, and each new socket is cloned into `reader_rx`.
- **Restart beacon**: a single-slot channel that tells subscribers that the reader started on a new socket.
- **Device facade**: `Device::*`, lines 611-1106. These build request headers and call `communicate`.
  Notification handles are kept in a shared set; `purge` and `shutdown` delete them. `write_read_multi` repairs
  the returned buffers (`fixup_write_read_return_buffers`, 1487-1538).
- **Notification parser**: `notif.rs` validates a notification frame and iterates its samples.
- **Symbol mapping**: `mapping.rs` caches a symbol handle per session id.
- **UDP helpers**: `udp.rs` adds routes and identifies devices over UDP 48899. Each helper builds a `Message`, sends it from a fresh socket, and parses the first datagram that arrives within 3 s as the reply.

The callers and the reader run concurrently. They share only the registry, the session manager and the channels.

## Modules

| Module | Models | State ↔ code |
|---|---|---|
| `AdsComm` | request engine, registry, reader thread, restart beacon, session manager (interface) | `nextId` = `invoke_id`; `replyMap` = `reply_map` (id ↦ the caller and its call number, which name the cell); `pc`, `myId`, `calls`, `wants`, `slot`, `outcome`, `accepted` = the per-caller locals of `communicate`; `session`, `closed`, `rxQueue` = the session manager and `reader_rx`; `inbox`, `stream`, `noise` = the server side; `rpc`, `rsock`, `rseen` = the reader's program counter, socket and recorded session id; `restartEvent` = the restart channel; `notifs` = notifications passed to `notif_send`. |
| `MC_AdsComm` | model values for the callers and the symmetry set | |
| `RequestReply` | what `communicate` promises a caller: a call fails at once or waits, and a waiting call returns once, Ok only with its own reply | `phase`, `started`, `result` (per caller: waiting or not, calls started, the kind of the last result and the call whose reply an Ok carries); `AdsComm` is checked to implement it (see Refinement) |
| `NotifHandles` | the `notif_handles` set and `add_notification`, `add_notification_multi`, `delete_notification`, `delete_notification_multi`, `Client::purge`, `Client::shutdown` | `handles` = `notif_handles`; `op`, `dev`, `arg`, `reply`, `pending`, `owned` = each thread's call in progress; `subs`, `used`, `restarts` = the server's subscription table and handle allocation; `confirmed` (ghost) = subscriptions an add reported to its caller, until the server deletes them, a purge, or the delete a shutdown sends for them. |
| `MC_NotifHandles` | model values for the threads and the device | |
| `Fixup` | the copy loop of `communicate` (`Distribute`) and `fixup_write_read_return_buffers` (RECURSIVE `FixFrom`, `CopyChunks`) as pure operators | no state |
| `DeviceOps` | `Device::get_info`, `Device::wait_running`, `Device::write_control`, `Device::read`, `read_exact`, `write_read`, `write_read_exact`, `write`, `get_state`, `read_multi`, `write_multi`, `write_read_multi`; the end of `communicate` (error code, result, length check, copy loop); `ReadRequest::data`, `WriteRequest::ensure`, `WriteReadRequest::data`; `AdsState::try_from` | `call` = the method and its buffer sizes; `bufs` = the `r_buffers` handed to `communicate`; `reply` = the server's answer (and, as a ghost, what it meant for each sub-request); `ret` = the return value; `clock`, `deadline` = `Instant::now()` in 100 ms ticks and `wait_running`'s deadline. |
| `NotifParse` | `Notification::new` and `SampleIter::next` (`notif.rs`) as RECURSIVE operators, against a reference layout built from spec 4.5 | `frame` = the body; `parsed` = the result of `new`; `it` = the iterator's fields; `out` = samples yielded; `iter` = running / done / panic. |
| `Mapping` | `AdsMapping::get_handle`, `IoMapping::read` / `write` (`mapping.rs`) on one client with reconnects | `cachedSid`, `handle` = `self.session_id`, `self.handle`; `sidRead` = the session id `get_handle` read; `session`, `table` = the session and the server's handle table; `written`, `readBack` (ghosts) = what reached the PLC. |
| `MC_Mapping` | model values for the mappings | |
| `Udp` | `Message::new`, `add_bytes` / `add_str` / `add_u32`, `parse_internal` (RECURSIVE `Items`), `map_tag`, `get_bytes` / `get_str` / `get_u32` / `get_source`, `send_receive`, `add_route`, `get_netid`, `get_info` (`udp.rs`) | `op` = the helper waiting in `recv_from`; `req` = the `Message` it sent; `added` (ghost) = its `add_*` calls; `answer` = what the router chose to send; `result` = the helper's return value. |
| `MC_Udp` | NetIDs, strings and status codes as byte sequences | |

`AdsComm` actions and the code they model:

- `CallSend`, `CallWriteFail`, `CallInvalidData` cover the start of `communicate` up to the write.
  `CallWriteFail` keeps the registry entry, as the `?` at line 357 does.
- `CallTimeout` covers `map_ch_err` on `RecvTimeoutError::Timeout`: it removes the entry and returns `io`.
- `CallReply` covers the wait, and `Validate` the checks in the code's order: source, command, flags,
  invoke id, AMS error, result code, length.
- `ReaderRecv`, `ReaderStart` and `ReaderExit` are `Reader::run`. `ReaderSocketError`, `ReadFrame`, `ReaderSkip`,
  `ReaderAbort`, `ReaderPanic`, `ReaderNotify` and `ReaderDeliver` are the branches of `run_inner`.
- `ServerReply`, `ServerNoise`, `PeerClose` and `ClientReconnect` are the environment. The server answers any pending request
  in any order with any answer, or sends other frames. The peer closes the connection. The session manager reconnects.

Frames are reduced to the classes the dispatch tells apart: reply, router, foreign destination, unknown command,
notification, bad notification, runt (command 0, shorter than 30 bytes), short (command 0, `packet_length` 24..31,
where `packet_length + 6 - 38` underflows: the reader panics in a build with overflow checks and aborts the loop in one without), and runt notification (`packet_length` 32..35: the length check passes and `buf[38..42]` panics, client.rs:597). Answers are reduced to
`ok`, `amsError`, `resultError` and `short`.

`NotifHandles`: every operation is a request (`AddNotification`, `DeleteNotification`, their `Multi` forms, `Purge`, `Shutdown` / `ShutdownNext` / `ShutdownDone`), the server processing it (`Serve`), and the caller's locked update of the set when `communicate` returns (`Complete`, `Return`, `Fail`). The server may apply a request and the caller still see an error. `ServerRestart` drops every subscription.

`DeviceOps`: one action per Device method (`GetInfo`, `Read`, `WriteRead`, `GetState`, `Write`, `WriteControl`, `ReadMulti`, `WriteMulti`, `WriteReadMulti`) lays out the output buffers as the method does. `Reply` is the server's answer followed by the rest of `communicate` and of the method: `read_len`, the `read_exact` check, `AdsState::try_from`, and the fix-up. Each fixed-width field is one element and each data byte one element. A data byte carries its position in the reply, so a byte in the wrong buffer is visible. `WaitRunning` sets the deadline and `Poll` is one turn of its loop: a `get_state` that takes up to a tick, the Run check, the deadline check, and the 100 ms sleep.

`Udp`: a datagram is its 24-byte header, kept as a record, and the bytes after it as a sequence of byte values; item ranges are byte offsets into the whole datagram, so the code's constants (offset 28, `pos += len + 4`, the range starting at the length field in `add_*`) appear unchanged. The u16/u32 conversions are little-endian arithmetic. `AddRoute`, `GetNetid` and `GetInfo` build the packet and send it (a send may fail). `Timeout` is the 3 s `recv_from` timeout. `Receive` is the first datagram arriving, parsed with the request's service plus the reply bit, and the helper's handling of it (`Handle`). The router answers with items of its choosing, possibly with one defect: a bad magic, invoke id or service, fewer than 24 bytes, a trailing byte, a torn item header, an item longer than the bytes after it, or an empty string item.

`Mapping`: `Begin` is `get_handle`'s session check. `ResolveSend` / `ResolveReply` are `Handle::new`, whose reply dies with its connection; `symbol.rs` is a module of this crate (`lib.rs`) whose source is not under `src/`, so they are modelled from the spec, and the release of a replaced handle on drop is not modelled. `Use` is `device.read` / `device.write` by handle number. `Reconnect` starts a session with an empty handle table.

## Runs

| Run | cfg | Expect | What it shows |
|---|---|---|---|
| comm_protocol | `AdsComm_protocol.cfg` | pass | Two callers with two calls each, 2-bit invoke ids, 2 sessions, a read timeout, one noise frame (skip, notification, or short frame), `ok` answers, calls with output buffers. Every registry entry of a sent request belongs to a call still waiting (`RegistryHoldsLiveCells`). `communicate` implements the safety part of `RequestReply` (`ImplementsRequestReply`): a waiting call returns once, and Ok only with the reply to this very call, also when the caller's late reply (after its timeout) arrives while its next call waits, across peer closes, reconnects and a reader panic. |
| comm_write_leak | `AdsComm_leak.cfg` | violation | `RegistryNoLeak`: a failed write leaves its entry in `reply_map` (client.rs:357). |
| reader_stale_session | `AdsComm_stale_session.cfg` | violation | `ReaderRotatesOwnSession`: the reader reconnects a newer session than the one its socket belongs to (client.rs:494). |
| reader_runt_frame | `AdsComm_runt.cfg` | violation | `ReaderAlive`: a runt reply-range frame, a short one whose length arithmetic underflows, or a notification too short for its length field panics the reader (client.rs:565-566, 597). |
| handles_tracking | `NotifHandles_safety.cfg` | pass | Two threads on one device, 3 operations each, one server restart, and a server that never reuses a handle number. Every subscription an add reported since the last purge stays in `notif_handles`, or in the queue of a running shutdown, while the server holds it (`ConfirmedTracked`). This holds across timeouts after a server-side success, partial sum-up results, a failed delete inside shutdown (the loop binds the result to `_r` and goes on), and an add that returns while a shutdown runs: it inserts after `communicate`, after the shutdown took the set, so the pair is tracked again, although this shutdown does not delete it (client.rs:987). |
| handles_reuse_untracked | `NotifHandles_reuse.cfg` | violation | `ConfirmedTracked` with handle reuse: a late remove of a delete drops a concurrent add's equal pair (client.rs:1058). |
| device_calls | `DeviceOps.cfg` | pass | Every Device call, with up to 4 sub-requests and buffers of up to 3 bytes, against every answer of a server that follows the protocol, and of one that reports a sub-request length one past its buffer. Reads return the bytes the peer sent (`ReadReturnsCopied`). Every sum-up accessor reports its own result and data (`SumUpPerRequest`), including write_read_multi after the fix-up. `get_info` returns exactly the device's name before the first NUL, whatever follows it in the 16-byte field (`InfoNameIsDevices`). An overlong sub-request length panics `write_read_multi` in the fix-up's assert, and in `read_multi` only that sub-request's accessor; nothing else panics (`OverlongResultPanics`). `wait_running`, with timeouts of 0 to 2 ticks, returns true exactly when its last `get_state` reported Run and false only after the deadline has passed (`WaitRunningHonest`). |
| device_read_len | `DeviceOps_read_len.cfg` | violation | `ReadReturnsCopied` with a server whose length field disagrees with the buffer or with the data. `read` returns n > buf.len, or `read_exact` succeeds on stale bytes (client.rs:678). |
| notif_parse_bounded | `NotifParse.cfg` | pass | Every notification body of up to 8 elements with values 0..2. `Notification::new` accepts exactly the well-formed ones (`AcceptsWellFormed`). Iterating an accepted one never panics and yields exactly its samples (`IterYieldsFrameSamples`). |
| mapping_cache | `Mapping_cache.cfg` | pass | Two mappings, 2 handle numbers, 3 sessions, 3 calls each. A mapping past `get_handle` holds a handle naming its own symbol while the session it read is current (`HandleValidWhileSessionHolds`). |
| udp_helpers | `Udp.cfg` | pass | The three helpers, two calls, against a router that answers with any of its items, stays silent, or sends any defect. Every built packet parses back to what was added (`RoundTrip`, spec 8). A helper returns Ok or an ADS error only from an intact reply to its own request, and returns exactly the Status, NetID, ComputerName and Fingerprint the router sent (`HelpersReturnRouterData`). It panics only on an overlong or an empty item (`PanicsOnlyOnMalformedItems`). |
| mapping_stale_write | `Mapping_stale_write.cfg` | violation | `NoForeignWrite`: a reconnect between `get_handle` and `device.write` writes into another mapping's symbol (mapping.rs:64). |

Every property of every passing run has a mutant in `PROJECT.json`: a plausible wrong version of a mapped definition under which TLC finds that property violated.

**Bounds.** Two callers are enough for every cross-caller interleaving of the registry, because each call
touches one entry. Two calls per caller let a late reply (after its caller's timeout) arrive while that caller's next call
waits; a 2-bit counter gives the four calls distinct ids, as a 32-bit counter does for any realistic run (a 1-bit counter
would make a new call take the id of one still outstanding, which the code reaches only after 2^32 calls). Two sessions let a reply die with its
connection; the stale-session run uses three, so that a reconnect happens between
the reader taking a socket and reading the session id, and then once more. One noise frame, of a class chosen per run,
exercises each dispatch branch; a short frame reaches both the abort and the panic. `comm_protocol` has only `ok` answers and calls with output
buffers (`DataOut = {TRUE}`): the AMS-error and short-answer branches of `Validate` change no state the properties see,
and the leak, stale-session and runt runs enumerate both `DataOut` values. Callers are a symmetry set there.
In `NotifHandles`, two threads with three operations each reach add/delete/shutdown races on one device. Three handle numbers let a thread hold two
subscriptions while the other adds. One restart drops subscriptions under a pending call. In `DeviceOps`, 4 sub-requests of up to 3 bytes
give every pattern of full, short, empty and failed sub-results, including a request whose bytes span two earlier buffers;
`MaxOverrun = 1` adds a length one past the buffer at every position, which is all the assert and the slices tell apart.
`MaxWait = 2` ticks with a `get_state` taking 0 or 1 tick reaches a deadline passed during a poll, during a sleep, and after several turns, and a zero timeout.
`NotifParse` bodies of 8 elements hold two stamps, or one stamp with two samples, plus every truncation. `Mapping` needs two
mappings sharing two handle numbers and three sessions, so that a handle is resolved in one session and reused after two reconnects.
`Udp` has two NetIDs, an empty and a one-letter string (so `get_str`'s dropped byte and the NUL are visible), status 0 and 0x702,
and two calls, so that a helper runs after another; replies are short, so the 576-byte receive buffer never cuts one.

**Fairness.** No run checks a liveness property. `AdsComm`'s `Spec` states the scheduling the code gives, and `RequestReply`'s `Spec` adds that a waiting call returns, but with a read timeout that follows from the weak fairness of `CallTimeout` alone (it is enabled whenever the cell is empty), so checking it would show nothing about the code; without a timeout it does not hold by configuration. The stated fairness: `CallReply` and `CallTimeout` of each caller are weakly fair: a blocked `recv`/`recv_timeout`
returns when it is enabled. The reader thread (`ReaderNext`) is weakly fair, because it is a dedicated thread.
`ServerReply` is weakly fair, meaning a live server answers. `ClientReconnect` is weakly fair, meaning the session manager reconnects a closed session.
`PeerClose` and noise are not fair, because the environment may or may not do them.
The other modules check safety only, so they assume no fairness.

## Refinement

`RequestReply` is the abstract specification of `communicate`: `Call` starts a call, which either waits or fails at once
with an I/O or invalid-data error, and `Return` ends a waiting call with Ok (and the caller's own call as the accepted reply),
an ADS error, an I/O error or a timeout. `SafetySpec` is `Init /\ [][Next]_vars`; `Spec` adds `WF(Return(c))`: a waiting call returns.
`AdsComm` defines `Abstract == INSTANCE RequestReply WITH phase <- pc, started <- calls, result <- ...`: a caller
blocked in `cell.get` is waiting, and the result of its last call is its `outcome` paired, when Ok, with `accepted`
(the call whose reply `communicate` validated and copied out) and otherwise with `<<c, 0>>` (`AbstractResult`).
Every reader, server and registry step is a stuttering step of the abstract specification. `comm_protocol` checks `ImplementsRequestReply == Abstract!SafetySpec`
as a temporal property: every `AdsComm` step is a `RequestReply` step or stutters, so no Ok ever carries another call's reply and no
result changes except when a call starts or returns. Its mutant is an invoke-id counter that does not advance: two concurrent
callers then share an id and one accepts the other's reply.

## Findings

- client.rs:357: a failed write leaves its `reply_map` entry (spec 3 and 4.1 say it is removed).
- client.rs:494: the reader reads the session id after taking its socket, and can tear down a newer, healthy session.
- client.rs:565-566 and 597: a runt frame, or a notification with `packet_length` 32..35 (its `buf[38..42]`), panics the reader thread; a frame with `packet_length` 24..31 underflows `packet_length + 6 - 38`, which panics it too in a build with overflow checks.
- client.rs:1058: with handle reuse, a delete's late remove drops a concurrent add's subscription from the tracked set.
- mapping.rs:64: the session can change between `get_handle` and the write, so the write reaches another symbol.
- client.rs:1495 and 1328: a server reporting a sub-request length beyond its buffer panics the caller: `write_read_multi` in the fix-up's `assert!` after `communicate` succeeded, `read_multi` when the caller asks that sub-request for its data. `device_calls` shows exactly these panic and every other sub-request still reports its own result.
- client.rs:678: `read` / `write_read` return the reply's length field unchecked (spec 8 says n <= buf.len and the first n bytes are the peer's).

In `udp.rs` a reply item longer than the bytes after it panics `parse_internal` (line 107), and an empty string item panics `get_str` (line 180), so a malformed datagram from the network ends the thread calling `add_route` or `get_info`. `udp_helpers` reaches both and checks that nothing else panics.

Read in the code, and not checked by a run:
- client.rs:495 and spec 4.9: the restart beacon is one single-slot channel whose `Receiver` is cloned for every subscriber, so a subscriber that takes the event hides it from the others; spec 4.9 says each sees the most recent event. The first start also posts an event.
- client.rs:455 and spec 4.4: a buffer returned to a full pool is sent with `buf_send.send`, which waits under the default delivery policy; spec 4.4 says it is dropped.
- client.rs:604 and spec 4.2: `notif_send.send` waits while the notification channel is full; spec 4.2 says the enqueue does not block.
- notif.rs:177 and spec 4.5: a FILETIME that overflows `* 100` becomes 0, and then the Unix epoch, where spec 4.5 says the conversion saturates.
- client.rs:239 and 949: the comments say open notification handles are deleted when the `Client` is dropped, but no `Drop` is implemented; only `shutdown` deletes them.

With `Timeouts::read` zero, a caller whose reply died with the connection waits forever. This is the configured behaviour, so no run checks it; it is listed as a hazard.

## Not modelled

- Reply header byte layout in `AdsComm`: the properties only see whether a reply is accepted. `DeviceOps` models the copy into several buffers.
- The `u32` length conversions of the Device facade (buffers above 4 GiB): they return invalid data before anything is sent and change no state.
- The buffer pool: it has no control flow visible to the properties. Only buffers callers hold at once can be in it, so the 1024-slot pool fills only with more than 1024 concurrent callers.
- UDP: the 576-byte receive buffer (the model's datagrams are far shorter; a cut reply is the overlong-item case), `set_service` (test only), and the OS version string's non-ASCII characters.
- The example programs. `pull.rs` uses two mappings of one symbol, where the stale-handle write of mapping.rs:64 cannot reach another symbol. `notifications.rs` holds its handle mutex across `add_symbol_notification`, so with a full notification channel the reader, the handler and the subscriber wait on each other until the 2 s read timeout; the timed-out add may have subscribed on the server all the same. Checking this needs a module composing `NotifHandles`, the reader with a bounded notification channel, and the session lock.

## Plan

Done: `AdsComm` with its refinement of `RequestReply`, `NotifHandles`, `Fixup` with `DeviceOps`, `NotifParse`, `Mapping`, `Udp`.

Left:
1. The notification channel bound (client.rs:604): it needs a second notification frame in a run that also checks liveness. A liveness property of `NotifHandles` (shutdown ends) would only restate that each `communicate` returns, which follows from the read timeout.
2. In `Udp`, `add_*` records an item range that starts at the length field, so a `get_*` on a locally built message returns the length bytes too; no code does that today.
