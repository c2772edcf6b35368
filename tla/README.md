# A TLA+ verification of TDLib's core

TDLib is a Telegram client library: an actor system (`tdactor`), a storage
layer (`tddb`), a network layer (`tdnet`, `td/mtproto`, `td/telegram/net`) and,
on top, the managers of messages, files, chats and updates (`td/telegram`).
This project models the parts of it in which an unlucky interleaving, crash or
loss would destroy data or order, checks them with TLC on small instances, and
proves with TLAPS what can be proved for all of them.

## 1. The system

### 1.1 Parts, state, operations

| Part | State | Operations | What makes it correct |
|---|---|---|---|
| `OrderedEventsProcessor` (tdutils) | window `data_array_` over numbers, `offset_`, `begin_`, `end_` | `add`, `clear` | events run once, in number order, as soon as the gap closes; none is lost |
| `Binlog`, `BinlogEventsProcessor` (tddb/binlog) | two files, write buffer, cipher state, list of live events, `fd_size_`, `need_sync_`, keys | `init`, `add_event`, `flush`, `sync`, `do_reindex`, `change_key`, `close`, `destroy` | a restart finds every synced update and no update without the ones before it; the log never refuses itself or its key |
| `ConcurrentBinlog` | atomic `last_id_`; in its actor the sequencer, the promises, three flags and a timeout | `next_id`, `add_raw_event`, `lazy_sync`, `force_sync`, `force_flush`, `change_key`, `close`, `close_and_destroy` | promises are answered, and only after the sync they are about |
| `BinlogKeyValue` | map of key to (value, event id), under a lock | `set`, `erase`, `erase_by_prefix`, restart | a restart gives a state the map really was in |
| `SequenceDispatcher`, `MultiSequenceDispatcher` | queries with states Start/Wait/Finish, `finish_i_`, `next_i_`, `last_sent_i_`, `generation_`, `wait_cnt_`, `id_offset_`; counters of the parent | `send_with_callback`, `on_result`, `on_resend_ok/error`, `loop`, `try_shrink`, `timeout_expired`, closing | the server executes the queries of a chat in order; each is finished; answers find their query |
| `ChangesProcessor`, `PtsManager` | changes in order of addition, `db_pts_`, `mem_pts_` | `init`, `add_pts`, `finish` | the saved pts is the newest one with no unfinished change before it |
| `MpscPollableQueue` (tdutils) | `writer_vector_` under a lock, `reader_vector_`, `wait_event_fd_`; behind it the eventfd, epoll's edge and `PollFlagsSet` | `writer_put`, `reader_wait_nonblock`, `reader_get_unsafe`, `reader_flush` | a queue: nothing lost, doubled or reordered; its owner never sleeps over a value |
| `Scheduler` (tdactor) | actors' mailboxes and `sched_id_`, ready and pending lists, `pending_events_`, the `EventGuard`s on the stack, an inbound queue per scheduler | `send`, `flush_mailbox`, `add_to_mailbox`, `start_migrate`/`finish_migrate`, `do_stop_actor`, `run` | an event reaches its actor once, on the scheduler that owns it, in its sender's order |
| `MultiPromise` | shared state of several promises | `get_promise`, `set_value` | answered when all are |
| `Session`, with the queues of `SessionConnection` | pending, sent and unknown queries, containers, connection state, `to_send_`, `to_get_state_info_`, `to_cancel_answer_` | `send`, `on_message_ack`, `on_message_result_ok/error`, `on_message_failed`, `on_state_info`, `on_session_created`, `on_closed`, `on_pong`, cancellation | a query is answered exactly once, resent only when it cannot have been executed; none is forgotten |
| `Handshake`, `AuthData`, `Transport` | salts, keys, times | key exchange, encryption | cryptography |
| `NetQueryDispatcher`, `NetQueryDelayer`, `ConnectionCreator`, `DcAuthManager` | queries waiting for a DC, a key, a connection or a timeout | dispatch, delay | no query is lost |
| `UpdatesManager`, with the pts part of `MessagesManager` | `pts_manager_`, `seq_`, pending and postponed updates and containers, accumulated pts and count, `running_get_difference_`, three timeouts | `on_pending_updates`, `add_pending_update`, `get_difference`, `on_get_difference`, `on_get_updates_state`, `fill_gap`, `set_pts` | updates are applied once and in order, gaps are watched and filled, a restart asks for all that came after the saved pts |
| `SecretChatActor` | sequence numbers, key exchange state, inbound and outbound states in the binlog | messages in and out, resends | what is sent is logged before, what is applied is logged |
| `FileLoader`, `PartsManager`, `ResourceState`, `ResourceManager` (files) | status of each part, ready and streaming counters, sizes known so far, queries in flight; what a loader uses, has and estimates; its node in the manager | `start_part`, `on_part_ok/failed`, `set_known_prefix`, `set_streaming_offset/limit`, `on_result`, `update_resources`, `tear_down` | each part is transferred, the counters agree with the parts, the limits hold, the transfer ends |
| `FileManager` | file nodes, references, the file database | merging, load and upload requests | application logic over the loaders |
| `MessagesManager`, `ContactsManager`, ... | copies of server objects | hundreds of handlers | application logic |
| SQLite layer, `TdDb` | databases | open, statements | transactions are SQLite's |
| `tdtl`, generators, `tdnet` | none, or byte buffers | parsing and I/O | - |

### 1.2 How they interact

Clients of the storage take a number from `ConcurrentBinlog` and send it an event
with that number; `BinlogActor` restores the order with an
`OrderedEventsProcessor` and writes to `Binlog`, which feeds its
`BinlogEventsProcessor`. `BinlogKeyValue` is such a client; `MessagesManager`,
`SecretChatActor` and others use `binlog_add`, `binlog_rewrite` and
`binlog_erase`. On a restart `Binlog::init` replays the live events into all of
them. Everything that goes to a chat passes a `SequenceDispatcher`, then
`NetQueryDispatcher`, `Session` and the server; answers come back through a
token of the dispatcher, to the query's callback, which may ask for a resend.
Updates reach `UpdatesManager` in containers or with query results; those with a
pts go on to `MessagesManager`, which finds gaps and reports the pts back with
`set_pts`. `PtsManager` decides which pts is saved (through `BinlogKeyValue`), and a
restart asks the server for the difference from there.
A file is transferred by a `FileLoader`, which asks its `PartsManager` for the next
part, the `ResourceManager` for the right to transfer it, and the server for its
content; the parts of secret chats' files pass an `OrderedEventsProcessor`, since
their cipher is a chain.
All of these are actors. Each runs on one scheduler at a time; an event for an actor
of another scheduler goes through that scheduler's `MpscPollableQueue`.

### 1.3 What is hard

Torn and zeroed tails after a power loss, crashes inside a reindex or a key
change, stream-cipher state that must match the file position, numbers taken
under a lock and used after it, promises that wait for holes in a number
sequence, one timeout shared by three purposes, answers that belong to an
abandoned chain, positions that move under tokens in flight, updates that arrive
in the middle of a difference, timeouts that fire while they are ignored, a wake-up
that passes a lock, an eventfd, an edge and a flag before somebody acts on it, actors
that change their thread while events are under way, queries whose connection closes
before anybody knows whether they were executed, parts that are in flight while the
user asks for another part of the file. `PROJECT.json`
lists each hazard with its line and the properties that would catch it.

## 2. Modules

| Module | Role |
|---|---|
| `InOrderDelivery` | abstract: what a sequencer promises |
| `OrderedEventsProcessor` | the class; implements `InOrderDelivery` |
| `OrderedEventsProcessor_proofs` | theorems and proofs |
| `FileLoader` | loader, parts, resources and server; extends `OrderedEventsProcessor`, which orders the parts of a secret file |
| `Checkpoints` | abstract: which position may be saved |
| `PtsManager` | `PtsManager` with `ChangesProcessor`; implements `Checkpoints` |
| `PtsManager_proofs` | theorems and proofs |
| `Fifo` | abstract: what a queue between threads promises |
| `MpscPollableQueue` | the queues of all schedulers down to eventfd and epoll; implements `Fifo` |
| `ActorScheduler` | mailboxes, sends, migration; extends `MpscPollableQueue` |
| `ActorScheduler_proofs` | theorems and proofs about the queues and the schedulers |
| `UpdatesManager` | gaps, differences and restarts: client, server and network |
| `UpdatesManager_proofs` | theorems and proofs |
| `DurableMap` | abstract: a map that survives crashes up to the last sync |
| `Binlog` | the log on disk, one action per system call; implements `DurableMap` |
| `ConcurrentBinlog` | client threads, `BinlogActor`, its flags and timeout |
| `ConcurrentBinlog_proofs` | theorems and proofs |
| `BinlogKeyValue` | threads changing a map over a numbered log, restarts |
| `BinlogKeyValue_proofs` | theorems and proofs |
| `SequenceDispatcher` | dispatcher, parent, session, delayer and server |
| `SequenceDispatcher_proofs` | theorems and proofs |
| `Session` | one MTProto session, its connections and the server |
| `Session_proofs` | theorems and proofs |
| `MC...` | instances for TLC (symmetry sets, values of constants); `MCSavedValues` is the instance of both `BinlogKeyValue` and `PtsManager`, `MCFileLoader` that of `FileLoader` and `OrderedEventsProcessor` |

Names of variables and actions follow the code (without the trailing
underscore of members). `PROJECT.json` maps every definition to its lines.

**OrderedEventsProcessor.** `slots` is `data_array_`. `AddNow` is `add` for
`seq_no == begin_`, with its drain loop, the re-basing of an empty window and
`try_compactify`; `AddLater` is the other branch. Callers never repeat a number
nor go below `begin_` (a `LOG_CHECK`). The module is checked inside `FileLoader`,
whose secret downloads drive it, and proved by itself. `given`, `ran` and `dropped` are history
variables, and the state of the abstract specification.

**PtsManager.** `AddPts` hands out a token, `Finish` is the acknowledgement, in any
order; `InitPts` forgets the changes while tokens are in flight. The array is
compacted under the tokens and the subtraction of `finish` is unsigned (`Wrap`).
The loop of `finish` is given by its end (`ReadyEnd`) and the last checkpoint it
passes (`Checkpoint`).

**UpdatesManager.** The client is one record `c` with the members of
`UpdatesManager` and those of `MessagesManager` that deal with pts; each method is
an operator on it, so that nested calls (`set_pts` in `process_updates` in
`after_get_difference`) compose as in the code. A loop over postponed or pending items is
a function `after` of the number of turns, each turn an operator of its own
(`AddPostponedUpdate`, `ProcessNextSeqUpdates`, `OnPostponedUpdates`). `AddPendingUpdate`,
`AccumulateUpdate`,
`BeforeGetDifference`, `DropPendingUpdates` and `MessagesAfterGetDifference` are the
`UpdatesManager` handlers together with the code of `MessagesManager.cpp` they call,
whose lines the map names. The network reorders and loses; the server answers a query
from its state at some moment before the answer arrives, in full, in slices, with
`differenceTooLong`, an error, or with `updatePtsChanged` inside. `acks` holds what
`PtsManager` has not been told to save yet: here each promise is set at once, so
acknowledgements come in order, and `PtsManager.tla` shows that those from before
an `init` do nothing. `passed` is history: the updates the client has passed in this process, since the
position `base` it started from (the saved one or that of the first `getState`); `skipped` are those
of them that no handler was given, because the pts was reset or the difference was too long
(`differenceTooLong`, a `TODO` at `UpdatesManager.cpp:1069`). Both begin anew with `Restart`: the pts
is saved when the handlers have run, not when the messages are stored (`TODO can't set until get messages really
stored on persistent storage`, `MessagesManager.cpp:5412`, `6395`), and which of their effects a crash
leaves is not modelled. A container the client cannot accept is `unknown`, one with mixed
kinds of messages is `mixed`, and a single update without a container is `short`: `on_get_updates`
hands an `updateShort` to its handler at once, without looking at `running_get_difference_`
(`UpdatesManager.cpp:703-716`). The code thus relies on the server not to send an update with a pts that way
while its answer is awaited. The model lets the server do so, and counts it (`odd.shorts`); the properties
state the assumption as `NoEarlyShort` (section 3.2). Left out: the ranges of numbers of an `updatesCombined`
(a container has one `seq`), qts and date, channels, users and chats in
the containers, the option to ignore background updates, and what happens to a
sent message that an old update speaks of (`skip_old_pending_update`).

**Binlog.** A file is a record of its events, how many of them are synced, the
key of its encryption header and a possible damaged tail; each event carries
the cipher position it was written at, so that an event written at a wrong
position cannot be read back. `phase` is `state_` refined by the position
inside `do_reindex` and `destroy`, whose system calls are separate actions
(open, write, fsync, unlink, rename). `Kill` drops memory, `PowerLoss` also any
part of what was not synced and may leave a tail: half a record, zeros or junk.
`InitLoad` is `init` with `load_binlog`. `BinlogEventsBuffer` is switched off in
the source and not modelled. Sizes are counted in events. The history variable
`maps` holds the client's map after every update; `durable` is the position a
restart may not go behind. Since `need_sync_` is false after a load, a sync is
taken as a promise only if an event was added since the start (`fresh`).

**ConcurrentBinlog.** `channel[c]` is the ordered stream of messages of a thread
to the actor. The sequencer appears as what `InOrderDelivery` says: `log` is the set of numbers handed
over, of which those without a gap before them (`RunEnd`) are in the binlog; the binlog is
the positions up to which its events are written and synced. `since` abstracts
`need_flush_since_` to none, younger and older than a millisecond; `armed` is
`wakeup_at_ # 0`. A promise `covers` the events it speaks for. `close` and
`close_and_destroy` are the last message of a thread; what they do to the files is
in `Binlog`.

**BinlogKeyValue.** `Set`, `Erase` and `EraseByPrefix` are what happens under the
lock, `AddEvent` what happens after it. `Restart` keeps any prefix of the log
and rebuilds the map with `emplace`. Each event carries, as history, the map as
it was when the event was numbered.

**SequenceDispatcher.** The handlers are compositions of operators named after the
methods (`DoResend`, `CheckTimeouts`, `Advance`, `SendQueries`, `TryShrink`,
...) on a record of the dispatcher's state; the loops of `loop()` are given in
closed form. `net[q]` says where a query is outside the dispatcher: with the
session, sent, delayed, answered, or with its callback. The session refuses a
query whose predecessor is not awaited any more (`ResendInvokeAfter`), the
delayer fails a delayed query of a chain, the server executes a message after
the one it names or refuses it. Timeouts are counted in delays. The parent
handles `ready_to_close` before the dispatcher's one-second timer fires again.

**MpscPollableQueue.** `WriterPut` is `writer_put` up to the unlock, `WriterRelease` the write
to the eventfd after it; a thread may stand between the two for as long as it likes.
The owner is `Scheduler::ServiceActor`: `ReaderFirst` and `ReaderSecond` are the two
rounds of `reader_wait_nonblock`, between which writers come in, `ReaderGet` is
`reader_get_unsafe`. `EpollRun` is `epoll_wait` with its edge, the flag of `PollFlagsSet` and
the notification. A wake-up is thus in one of several memories, and the invariant says
in which.

**ActorScheduler.** `stack[s]` are the `EventGuard`s of a thread, since a handler that sends
to an actor of its own thread may run it at once. `SendImpl` reads `sched_id_` and decides;
the event for another thread is put into its queue later (`Put`), so that the actor may
have moved meanwhile. A handler sends, migrates its actor, stops it or returns.
`ServiceItem` sends the items of the inbound queue again: an event ahead of its migrating
actor waits in `pending_events`, one whose actor has left follows it. `LeaveGuard` is what
happens to the actor and the rest of its mailbox after a handler. Events are numbered in
the order they are sent. `Travelling(item)` is the set of the
places where an item is under way (in the hands of a thread, in an inbound queue), `Arrived(a, n)`
those where event `n` is at its actor (handled, in the mailbox, in `pending_events_`, kept by an
`EventGuard`).

**Session.** The handlers are operators on the record `c`. A query is in `pending`, or sent
under a message id, perhaps in a container; `unknown` are those whose connection
closed before an acknowledgement, and queries with an `invoke_after` are parked while
there are any. `up` and `down` are the connection's two streams, lost when it closes. The
server runs a message once per id and after the one it names, acknowledges or not,
rejects packets, forgets the session. A flush may send only a part of what is queued
(a packet is limited). A large answer is only announced and has to be asked for.

**FileLoader.** The record `c` holds `PartsManager`, `ResourceState` and the fields of the
loader; each method is an operator on it. `StartUp` is `start_up` with `init` of the
downloader or the uploader, `Result` is `on_result` with the processing of the part, for
secret files through the sequencer, and `Restarted` is `on_result` for a part that is to be asked for again,
because its query was cancelled or `should_restart_part` says so (`cdn`); `Loop` is `loop`, and `StartParts` the part of it that
starts queries, a recursive operator; `BrokenLoop` is a `loop` in which the disk fails. Every handler ends in one
of the two (`EndsInLoop`). `UpdateLocalFileLocation` is the only handler that does not look at `stop_flag_`.
`ManagerUpdate` and `UpdateResources` are the two
halves of the conversation with `ResourceManager`; `share` is what the other loaders leave of
its limit. `UpdateDownloadOffset` and `UpdateDownloadLimit` are the user's wishes, `Restart`
begins again with the parts that were saved, `TearDown` ends the loader. A failed `CHECK` sets
`stop` to "abort". Sizes are counted in units, of which a part has two, so that half-filled
last parts and offsets inside a part occur.

## 3. Runs

| Run | Checks | Instance and why it is enough |
|---|---|---|
| `updates` | `PtsIsApplied`, `DifferenceAlone`, `GapIsWatched`, `SeqInOrder`, `GapIsFilled`, `SeqGapIsFilled` | updates of 2 and 1 positions, 2 containers with a seq, forced differences after 2 positions, and any one of: a hint, an unacceptable container, an `updateShort`, another reason to ask, a reset of the pts, `differenceTooLong`, a failure, a restart. Every subset lost, every order, slices, the trouble at each point. The first four are proved for any number of updates and troubles (section 4) |
| `saved_values` | `RestartIsSnapshot`, `NoEventRejected` of `BinlogKeyValue`; `ArrayInv`, `SavesWhatIsFinished` of `PtsManager` | each behaviour is one of either module. 2 threads, 2 keys, a prefix that covers both, 2 values, 6 numbers, 1 restart; and 6 tokens, 2 positions and none, 1 reset, compaction above 1: every order of acknowledgements, across compactions and the reset |
| `file_loader` | `NeverAborts`, `SavedIsWritten`, `WithinLimits`, `EveryTransferEnds`; `WindowInv`, `RunsInOrder` of the sequencer | 13 transfers of 2 to 8 parts: plain downloads of known size with parts ready and a user who moves the offset and the limit, downloads of unknown size, secret files in any order of answers, with compactions of the window; uploads, growing and resumed ones, one whose ready parts are wrong and one that is too long. Any 2 of: a refused part, one to be asked for again, a failing disk, a wish, a growing file that shrinks or is completed twice, a restart |
| `file_loader_unknown_size` | `NeverAborts` (violated) | a download of unknown size with an offset and a limit |
| `file_loader_silent` | `EveryTransferEnds` (violated) | an upload of a file that is still made and ends with a whole part, without any trouble |
| `binlog` | `LogMatches`, `KeyAccepted`, `NeverFatal`, `IsDurableMap` | 3 ids, 5 updates, 2 crashes, 2 keys and none, 1 key change, reindex above 2 records; opening `.new` may fail for a plain log: every system call of a reindex is crashed at, with a crash in the recovery |
| `binlog_zero_tail` | `KeepsSynced` (violated) | encrypted, and zeros may decrypt to an odd length |
| `binlog_key_change` | `KeyAccepted` (violated) | encrypted, and opening `.new` may fail |
| `concurrent_binlog` | `AnsweredIsSynced`, `NothingForgotten`, `EveryRequestServed` | 2 threads, 3 numbers, 1 forced sync, 1 flush or key change, `close` or `close_and_destroy`: holes that close late, all orders of timeouts and messages |
| `sequence_dispatcher` | `AnswersFindTheirQuery`, `NothingSkipped`, `NothingLost`, `ExecutedInOrder`, `EveryQueryFinished` | 3 queries, 2 in flight, shrink above 1, 2 failures, 1 resend, 1 cancellation, limit of 1 delay: chains break, restart and shrink, queries are late, the dispatcher is closed and created again |
| `actor_scheduler` | `NoLostWakeUp`, `NothingLostOrDoubled`, `RunsAtHome`, `MigrationIsOnItsWay`, `SenderOrder`, `QueuesAreFifo`, `EveryEventHandled` | 2 schedulers and 1 thread without actors, 2 actors, one of which always waits for its mailbox, 4 events with the 2 Start events, 1 migration, 1 stop: an event that is sent before, during and after a migration, and one that overtakes its receiver |
| `session` | `OnePlace`, `UnknownIsAsked`, `ExecutedOnce`, `NoWaitFailed`, `EveryQueryReturned` | 2 queries, the second to be invoked after the first, 2 packets and 2 messages on the connection, 2 troubles: a connection that closes at each point, twice; a lost session after a closed connection |

The types of each module's state are its `TypeOK` (`QueueTypeOK`, `PtsTypeOK`); they are part of what
section 4 proves, and are not listed as results of the runs.
All bounds are constants named in the modules and guard the actions they bound.
Deadlock is not checked, since every instance ends when its bounded calls are
used up.

Each property has a mutant in `PROJECT.json`: a changed form of a mapped
definition (a missing reset, an off-by-one, a skipped fsync, ...), defined in
front of the one it replaces, under which TLC finds the property violated.

### 3.1 Findings

*Zero tail of an encrypted log* (`binlog_zero_tail`, `Binlog.cpp:505`). Zeros
left by a power loss behind the last event decrypt to random bytes. If they
make a length between the limits that is not a multiple of 4, `load_binlog` cuts
the file on a path of its own and leaves the loop; the comparison that would
force a reindex then finds nothing to cut, but the cipher, already advanced over
the tail, is reused for writing. What is written and synced from then on cannot
be read by the next start. In the `binlog` run zeros decode to a
length that is rejected otherwise, so that this path does not hide the rest.

*Key change that did not happen* (`binlog_key_change`, `Binlog.cpp:627`). If
`.new` cannot be opened, `do_reindex` returns, and the promise of `change_key` is
answered with success. The file keeps the old key; the next start with the
new one is refused.

*Size found out under a limit* (`file_loader_unknown_size`, `PartsManager.cpp:429`).
`get_estimated_extra` recounts the ready parts in the streaming limit and `CHECK`s the result
against `streaming_ready_size_`, with the remark `TODO: delete this block if CHECK won't fail`.
The size of a file becomes known when a short answer arrives; from then on a limit that
reaches over the end wraps around to the first parts, and other parts are in it than those
that were counted. The `CHECK` fails and the process aborts.

*Upload without an end* (`file_loader_silent`, `FileUploader.cpp:198`). `td_api.tl:3673` promises an
update about the `successful completion of the upload`. A finished upload is reported when its last
part is answered, by `on_progress`, and nowhere else. If a growing file has a multiple of the part size and all
its parts were answered before it is said to be complete, the transfer becomes ready in
`set_known_prefix`; `do_loop` calls `on_ok` of the uploader, which tells nobody, and the
loader stops.

### 3.2 Observations without a run

What `UpdatesManager` does after `updatePtsChanged` is weaker than the rest, and
nothing in the repository promises more: the answer of `getState` restores the pts
but does not save it, so that a restart before the next update starts from the
server's pts of then; and it leaves `seq_` alone, so that containers whose timeout
fired during the query wait for the next container. An update received twice while
it is pending would be counted twice in `accumulated_pts_count_`, which can make a
gap look closed; the lower layers are trusted to deliver it once. These cases are
excluded from the properties explicitly (`odd.resets = 0`) or by the network of the
model.

The properties of `UpdatesManager` also exclude (`NoEarlyShort`) what an `updateShort` does while
`getState` or `getDifference` is awaited. An update with a pts then reaches the `CHECK` of
`MessagesManager.cpp:5374` and aborts the process (`fatal` in the model). An `updatePtsChanged` then marks the pts as
unknown, while `init_state` does nothing because of the running query; if that is answered with
`differenceEmpty`, nobody asks for the pts again. Whether the server sends such updates in an
`updateShort` the repository does not say, and so it is an assumption about it.

The order of one sender's events is not kept for a receiver that migrates:
`flush_mailbox` puts the event that was not run in front of the remaining mailbox after
other events were forwarded. `SenderOrder` is about actors that never moved (`moved`).

If a flush of a session sends only a part of `to_send_`, a query still in that list may have
an id below `first_id` of a new session; `on_session_created` sends it again and it is
executed under both ids. `ExecutedOnce` exempts these queries (`renewed`).

If a reindex that a cut tail of an encrypted log made necessary cannot open `.new`, what
is written afterwards is unreadable, as after the zero tail above. In the `binlog` run
opening therefore fails only for a log without a key; the key change is a finding.

`NeverAborts` and `EveryTransferEnds` do not hold of every transfer. Besides the two findings, other sets of
transfers give the following; the transfers of the `file_loader` run leave them out
(offsets and limits only with known sizes, growing files whose size is not a multiple of the part size, no resumed
download of unknown size, parts of secret files asked for again only without a limit), and the comments of the
properties say for which files they hold:

- a resumed download of unknown size starts with `min_size_` 0 although parts are ready
  (`init_no_size`); if the last part with content was among them, the size is never known and the
  download never reported, against `td_api.tl:3658` (`completion of the download will be notified through updateFile updates`);
- a download of unknown size from an offset beyond the end marks an empty part, and
  `first_streaming_empty_part_` stays below `part_count_`, so that the parts before the
  offset are not taken up and the download, again, never ends;
- a secret file is loaded with a limit, and a part has to be asked for again while later ones wait for it in
  `ordered_parts_`: their size counts as in use, `update_estimated_limit` takes it for the right to load
  the missing part (`ResourceState.h:34`, `TODO: use exact intersection`), and nothing more is given;
- the upload of a growing file fails in `start_up` with `FILE_UPLOAD_RESTART`, which is reported, and its file changes before
  the loader is stopped: `update_local_file_location` does not look at `stop_flag_`, and the `LOG_CHECK` of
  `PartsManager.cpp:314` fails. `NeverAborts` leaves out loaders that have reported an error.

`on_msgs_state_info` of a session handles the ids it asked for in the order of an `unordered_set`;
`OnMessagesInfo` takes them in increasing order, and no property depends on it. `ReaderFirst` of
`MpscPollableQueue` has no early return for values that are still unread (`MpscPollableQueue.h:27-30`), since
the only reader, `ServiceActor::loop`, asks again only when it has read all of them.

### 3.3 Fairness

`ConcurrentBinlog`: a thread that took a number sends it (there is no return
between the two in any caller); the scheduler delivers messages and timeouts;
time passes; each is a conjunct of its `Fairness`, `WF_vars` or, for a channel's messages,
written out. `SequenceDispatcher`: as long as a message can be handled by an
actor, a query carried by the session or the delayer, or a message executed or
refused by the server, one of these happens; new queries, cancellations,
failures, resends and the idle timer are not fair. `UpdatesManager`: as long as a
query is under way, a timeout is set or an acknowledgement waits, one of them
makes progress; the arrival of updates is not fair. Weak fairness is written out
with `CanProgress`, the condition under which `Progress` is enabled. `ActorScheduler`: each
thread by itself is weakly fair, since the main loop of a scheduler does not end and a
thread that began `writer_put` finishes it; sends and handlers' choices are not fair.
`Session`: connections are made, packets delivered, executed and answered, and a pong comes if
nothing else leads to an answer (the code pings for this); acknowledgements, rejections, closings and
forgotten sessions are not fair. `FileLoader`: the manager's actor runs (`WF` of `ManagerUpdate`), and as long as the loader has a message to handle, the server
a part to answer or a growing file is not complete, one of these happens; failures, wishes and restarts are not fair.

## 4. Proofs

`OrderedEventsProcessor_proofs` proves for every `FirstSeqNo`, `LastSeqNo`,
`Data` and `CompactMin` allowed by `OEPAssumption` (natural numbers, and a
moved-from payload that is not a payload):

- `TypeCorrect`: `Spec => []TypeOK`;
- `WindowCorrect`: `Spec => []WindowInv`;
- `ImplementsInOrderDelivery`: `Spec => RunsInOrder`, the refinement.

`WindowInv` alone is not inductive: that the drain gives the right payloads to
the right numbers needs that what ran so far is the gap-free prefix of what was
handed over, of length `begin - FirstSeqNo` (`RanInv`). The inductive invariant
is `IInv == TypeOK /\ WindowInv /\ RanInv`. `DrainStops` shows that the drain
loop stops at the first absent slot (by `LeastNat`, the least number
principle), `AddNowInv`, `AddLaterInv` and `ClearInv` that each operation
preserves `IInv`, and `StepRefines` that each is a step of `InOrderDelivery`.

`PtsManager_proofs` proves for every `Pts`, `MaxId`, `MaxInits`, `CompactMin` and
`Wrap` allowed by `PtsAssumption` (natural numbers, and a word wide enough that a
token and `offset_` are less than half of it apart):

- `PtsTypeCorrect`: `PtsSpec => []PtsTypeOK`;
- `ArrayCorrect`: `PtsSpec => []ArrayInv`;
- `ImplementsCheckpoints`: `PtsSpec => SavesWhatIsFinished`, the refinement.

The inductive invariant is `IInv == PtsTypeOK /\ ArrayInv /\ SavedInv`, where `SavedInv`
says that `db_pts_` is the newest reached checkpoint; it needs `ArrayInv` to know that
the ready prefix of the array is the finished prefix of all changes. `LoopStops`
and `PrefixReached` describe where the loop of `finish` ends, `PrefixEnd` what it
leaves in `db_pts_`, `FinishStale` that a token from before `init` or before a
compaction changes nothing, `AddPtsInv` and `FinishAtInv` that the operations keep
`IInv`, and `StepRefines` that each step is one of `Checkpoints`. The least and, where it
is needed, the greatest number principle (`LeastNat`, `GreatestNat`) stand at the head of each module of proofs.

`ActorScheduler_proofs` begins with the queues by themselves, for any sets of queues, threads
and values (every queue's owner is a thread, `QueueAssumption`):

- `NoWakeUpIsLost`: `QueueSpec => []NoLostWakeUp`;
- `ImplementsFifo`: `QueueSpec => QueuesAreFifo`, the refinement.

That an owner asleep over a value is being woken needs the whole way of the wake-up, and
not only for the writer that put the first value: the next ones rely on it. The
inductive invariant `IInv` is the conjunction of `QueueTypeOK`; `OneRelease` (a thread is
about to release at most one eventfd); `AnnouncedIsEmpty` (the owner announces its sleep
only over an empty queue); `FlagIsFlushed` (the flag Read is not set while it sleeps, or it
would swallow the notification); `WakeUpIsUnderWay` (once the announcement is taken back, a
writer or the eventfd with epoll's edge holds the wake-up); and `ReadBeforeTakeOver` (values are
taken over only when the last ones were read). `WriterPutKeeps`, `WriterReleaseKeeps`,
`ReaderKeeps` and `EpollRunKeeps` show that the actions preserve it, `StepIsFifo` that each is a
step of `Fifo` or, when the vectors are swapped, none.

`ConcurrentBinlog_proofs` proves for any set of threads and any bounds on numbers and calls
(`ConcurrentBinlogAssumption`):

- `TypeCorrect`: `Spec => []TypeOK`;
- `NothingIsForgotten`: `Spec => []NothingForgotten`, a request that the actor took is either
  answered or some flag, timeout or message will still make it act;
- `AnswersAreSynced`: `Spec => []AnsweredIsSynced`, a promise is answered only when every event
  it speaks for is on disk.

A promise has to be followed from the thread that makes it. It travels behind the events it
covers in its thread's channel, waits in the sequencer behind those of other threads, and is
moved to the list of the next sync; that it may be answered then follows from all those
events being in the log, and the log being synced. The inductive invariant `IInv` adds to the two
properties: `MessagesOK` (what a channel holds), `NumbersOnce` (a number is taken, sent and handed
over once), `PromisesOnce` (a promise is in one place, and known to what it covers),
`CallsArrive` and `CoversArrive` (the events a promise covers are ahead of it in the same channel,
or arrived), and `FlagsArmed` (a flag of the actor that asks for an action has its timeout set). There is one
lemma per action (`NextIdKeeps`, `SendAddKeeps`, `AddRawEventKeeps`, ...), `RunEndExists` gives the
end of the gap-free run, and `NextInv` collects them.

About the schedulers `ActorScheduler_proofs` proves for any sets of schedulers, threads and actors, and any bounds
(`QueueAssumption`, `SchedulerAssumption`; `ItemsAssumption`, that the values of the queues are
the scheduler's items; `SendersAssumption`, that an actor is not a thread, so that a sender is one
or the other):

- `TypesAreKept`: `Spec => []TypeOK`;
- `UsesTheQueues`: `Spec => QueueSpec`, every step of the schedulers is a step of
  `MpscPollableQueue` or leaves the queues alone, so that what is proved there holds here:
  `SchedulersWakeUp` (`Spec => []NoLostWakeUp`) and `InboundIsFifo` (`Spec => QueuesAreFifo`);
- `ActorsRunAtHome`: `Spec => []RunsAtHome`, an actor is run by one thread at a time, the one
  of the scheduler that owns it;
- `MigrationsArrive`: `Spec => []MigrationIsOnItsWay`, an actor that is between two schedulers
  is in exactly one send or queue on its way to the new one;
- `NoEventIsLost`: `Spec => []NothingLostOrDoubled`, each event that was sent and not handled or
  dropped is in exactly one place;
- `OrderIsKept`: `Spec => []SenderOrder`, what one sender sends to an actor that stays where it
  is, is handled in the order it was sent.

The inductive invariant is `SInv == TypeOK /\ IInv /\ Core`, with `IInv` the queues' invariant,
and `Core` the conjunction of three parts. `ActorsAtHome`: an `EventGuard` on a thread's stack is
of a live actor of that scheduler (`GuardedAtHome`) and the only one of it (`OneGuard`), ready lists hold
only actors of their scheduler (`ReadyAtHome`), and an idle actor is in one exactly if it has mail
(`ReadyHasMail`).
`OnTheMove`: an actor migrates exactly while it is in one thread's hands or in one inbound queue, that
of the scheduler it belongs to from now on, and only this scheduler keeps `pending_events_` for it. `EventsKept`: no mailbox or queue holds an event twice (`NoRepeats`), an
event is kept with the actor it is for (`Addressed`), and it is in at most one place, and in one if
its actor is alive (`OnePlace`; to have been handled is a place too). Within one step an event can be outside of all
places: a handler's send takes it up and puts it down, and `flush_mailbox` takes it from the
mailbox and may put it back. The lemmas about these parts (`SendKeeps`, `DoMailKeeps`,
`SettleKeeps`, ...) therefore speak of `Loose(n, a)`, an event that the invariant holds without. One
lemma per action (`PutKeeps`, `HandlerKeeps`, `MigrateKeeps`, `StopKeeps`, `LeaveGuardKeeps`,
`RunMailboxKeeps`, `ServiceItemKeeps`, ...) leads to `NextSInv`.

Order needs more than that each event is in one place: the places themselves are in an order.
`OrderInv`, inductive together with `SInv`, says which:

- `LinesInOrder`: an actor that never migrated has one line of events, those handled, then its
  mailbox with the event a guard runs behind the mails that were there before it (`GuardsOf`), then
  those on their way to it (`AwayTo`); the events of one sender are in order along this line
  (`InLine`);
- `HandsInOrder`: who holds an event in the middle of a send is the thread of its sender, so that
  this sender cannot send another one before it is in the queue;
- `QueuesRanked`: within an inbound queue the events of one sender are in order, and a sender
  that migrates to the same scheduler is in the queue behind its own events. Without this, the
  sender could arrive and send directly, past what it had sent through the queue;
- `QueuesBehind`: the sender of a queued event is not yet on that scheduler, and what is in
  anyone's hands is newer than what is queued.

The lemmas about lines (`LineLess`, `LineSent`, ...) are facts about sequences alone, the lemmas for
the actions follow the structure of those for `SInv`, and `NextOrder` collects them.

`BinlogKeyValue_proofs` proves for any sets of threads, keys, groups of keys and values and any bounds
(`BinlogKeyValueAssumption`):

- `TypeCorrect`: `Spec => []TypeOK`;
- `Snapshots`: `Spec => []RestartIsSnapshot`;
- `NeverRejected`: `Spec => []NoEventRejected`.

Events are numbered under the lock and reach the log later, so neither property is inductive about
the log alone. The argument is about the *full log*: the log followed by all events that are
numbered and not yet in it, in the order of their numbers (`IsFullLog`). The invariant `IInv` says
that there is such a sequence, that replaying it gives `map_` as it is, and that it is good
(`GoodLog`: every prefix gives the view of its last event, is `Settled`, with at most one live event
per key, accepts the next event, and every rewrite has its addition before it). `set` and `erase` append to the full log
(`SetStep`, `EraseStep`), `erase_by_prefix` appends once per key (`EraseSteps`, an induction by
the least number principle), `add_event` moves the border between the log and the rest and leaves the
full log as it is (`InvAddEvent`), and a restart cuts it (`GoodPrefix`; `NextIdBound` shows that the
numbers given out again are above all live ids). Since the log is a prefix of the full log, both properties
follow from `GoodLog`. No induction over the replay is needed: `Live` and `Replayed` are given by
what they hold, and `LiveAppend` says what one more event changes.

`SequenceDispatcher_proofs` proves for any number of queries, in the sequence and in flight, any
`try_shrink` threshold and limit of delays, and any bounds on failures, resends and cancellations
(`SequenceDispatcherAssumption`):

- `TypeCorrect`: `Spec => []TypeOK`;
- `AnswersArrive`: `Spec => []AnswersFindTheirQuery`;
- `NoneIsSkipped`: `Spec => []NothingSkipped`;
- `NoneIsLost`: `Spec => []NothingLost`;
- `OrderIsKept`: `Spec => ExecutedInOrder`, the action property.

That the server executes in order rests on the whole way of a query. The inductive invariant
`IInv` has four parts, the first two stated for a state of the dispatcher in the middle of a
handler, since each handler is a composition of operators:

- `Sound`: `data_` holds the last queries handed over, one after the other (`Numbered`), the
  indices are in order (`Indexed`), `NothingSkipped` (`CurrentChain`), a query is under way
  exactly if its entry is awaited, with the token of that entry (`Tokens`), `wait_cnt_` counts
  those entries (`Counted`), and what is finished is what is marked or was dropped
  (`Finishing`). Between handlers there is no `Dummy` entry;
- `Chained`: behind `last_sent_i_` there are only finished entries, and when the entry at
  `last_sent_i_` is itself finished, its query had come to its turn at the server or was
  cancelled (`LastSent`); a query under way may be executed right after the query it is invoked after
  (`Following`), because everything between the two is executed, finished or cut off by a
  cancelled query (`MayFollow`);
- `MessagesOrdered`: the same for the messages at the server, which outlive the query's stay in
  the session; those executed or refused had come to their turn (`InOrder`);
- `ParentOK`: `cnt_` is the number of unfinished queries and of results on their way.

`LastSent` is what a new query without `invokeAfter` needs: `InvokeAfter` drops the
predecessor when it is no longer awaited, and this is right only because its answer was not
a request to resend, so that the server had come to it. There are lemmas for each operator
(`TakenKeeps`, `TimedKeeps`, `RestartKeeps`, `DoFinishKeeps`, `AdvanceKeeps`, `SentKeeps`,
`ShrunkKeeps`, each with a `...Chained` twin), `LoopKeeps` composes the three of
`loop()`, and there is one lemma per action. `SentFollows` shows that `loop()` chains correctly,
`ReadyInOrder` that a message the server may execute has come to its turn.

`UpdatesManager_proofs` proves for any increasing sequence `Ends` of update positions, any number
of containers, any thresholds `FarBehind`, `Drop` and `ForcedDiff` and any number of troubles
(`UpdatesManagerAssumption`: positions are positive, increasing and so far below `MaxPts` that adding a
threshold does not reach it):

- `TypeCorrect`: `Spec => [](NoEarlyShort => TypeOK)`;
- `AppliedOnce`: `Spec => []PtsIsApplied`, within a process no update is skipped or applied twice, and none is
  passed without its handler unless the pts was reset or a difference too long;
- `ChecksHold`: `Spec => []DifferenceAlone`, the `CHECK`s of `add_pending_update`;
- `GapsAreWatched`: `Spec => []GapIsWatched`;
- `ContainersInOrder`: `Spec => [](NoEarlyShort => SeqInOrder)`.

All of them are about behaviours up to the first `updateShort` with a pts that comes while an answer is awaited:
`PtsIsApplied`, `DifferenceAlone` and `GapIsWatched` have `NoEarlyShort` as their hypothesis. Updates in an `updateShort` at any
other time are included. `NoEarlyShort`, once false, stays false, so the inductive invariant is
`IInv == odd \in Misfortunes /\ (NoEarlyShort => Regular)`.

That a gap is closed is decided by counting: the pending updates are applied when the pts plus
`accumulated_pts_count_` is `accumulated_pts_`. This is right only if the count is the number of positions the
pending updates cover, which needs that they do not overlap, hence that no update is ever held twice, by
the client or on its way to it. And a handler may call others that start a difference or move the pts
(`set_pts` in `process_updates` in `after_get_difference`), so the invariant must hold of the client's
record between the operators, not only between steps. `Regular` is `Holds` of
the client, the reply, what is under way and the server's counters:

- `Sound(d, t, N, S, R)`, of a client record alone. `Timeline`: what the client has passed is what the server made
  between `base` and its `t`-th update, and neither the saved pts nor an acknowledgement that waits is
  later; the pts, when known, is that of the `t`-th update. `t` also stands for the position while the pts is
  `MaxPts`, `to be restored`. `Accumulated`: the count is the cardinality of `Cover(pending_updates)`, a set of
  positions between the pts and `accumulated_pts_`. `Positioned`: the difference asked for is the one from the pts,
  and the pts is marked only after a reset. `Once`: no update is pending, postponed or in a postponed container twice.
  `Sequenced`, `Alone`: the containers and the `CHECK`s;
- `Answering`: a reply that is under way fits what the client asks, from the position it still has;
- `Watched` and `PostponedWatched`: gaps and an unknown pts;
- `Flying`: what is under way is neither held by the client nor under way twice.

`CoverFull` and the lemmas around it show that `k` positions out of `k` are all of them, so that
the pending updates are a whole run of the server's (`Increasing` applies them in its order). There is a lemma
`...Sound` for each operator on the record (`OnPendingSound`, `OnPostponedSound`, `AfterGetDifferenceSound`,
`StateReplySound`, `DifferenceSound`, `GetDifferenceSound`, `RestartSound`, ...); the loops are by the least
number principle over their turns. A lemma `...Holds` per step of the client adds the rest of the invariant, one
`...Inv` per action leads to `NextInv`.

`Session_proofs` proves for every set of queries and every `After`, `MaxUp`, `MaxDown` and `MaxTroubles`
allowed by `SessionAssumption` (a query is invoked after another one; positive bounds):

- `TypeCorrect`: `Spec => []TypeOK`;
- `InOnePlace`: `Spec => []OnePlace`, no query is lost or returned twice, and `dec_container`'s `CHECK` holds;
- `UnknownAreAsked`: `Spec => []UnknownIsAsked`.

A handler takes a query out of one place, calls others, and only then puts it into the next place; a container
loses its messages one by one, and is erased after them. So the statement that the handlers preserve is
`Sound(d, H, G, X)`: of the record `d`, while the queries `H` are in no place, the messages `G` still to be
removed do not count and the containers `X` about to be erased need not be right; `Sound(c, {}, {}, {})` holds between steps.
It is the conjunction of `Typed`; `Placed` (pending, parked, sent and returned queries, with `H`, are
a partition of those given, none twice in its place); `Contained` (`ref_cnt` counts the messages, no
message id is a container id, and the `message_ids` of a container that are still sent are in it);
`Unsent` (what waits in `to_send_` is in no container and waits once, so that `on_container_sent` finds it alone);
`UnknownIsSent` and `ParkedWait`. Each handler has a lemma `...Sound`,
which also says what it `Keeps`: the answers the server gives never make anything unknown, nor forget a question.
The loops (`FailAll`, `OnMessagesInfo`, `HandleAll`, `SendPending`) are followed by their turns
(`LoopExists` and the least number principle). `IInv` adds `Wire`, the types of what is on the connection, and `AskedFor`,
which follows each question from `to_get_state_info_` to a packet (`PacketSent`), to its answer or rejection
(`Delivered`) and back (`Answered`, in `HandleAllSound`). `CountedOnce` turns the partition into the sum of `OnePlace`.

Only model-checked: all liveness properties (the prover has no rules for
fairness and `ENABLED`); `ExecutedOnce` and `NoWaitFailed` of `Session`, where what the server has run is a fold
over the packets; `Binlog`, whose replay is a fold over the log and
would need induction over sequences;
`FileLoader`, whose `StartParts` is a `RECURSIVE` operator.

## 5. Not modelled

- Scheduler: the timeouts of actors, what `tear_down` of an actor does, creation of actors at run
  time, and the shutdown of the schedulers with `destroy` of the queues. The modules above the scheduler
  rely on what `ActorScheduler` shows: messages of one sender to an actor that stays
  where it is arrive in order.
- Session: the HTTP mode with its long poll connection, generating, binding and checking keys, the
  limit of 1024 unknown queries, what `cancel_answer` makes the server do, and the reuse of a
  freed query under the weak reference `invoke_after` (`Session.cpp:907`). A connection
  attempt that fails changes nothing that is modelled.
- Files: hash checks of CDN files and of parts found on disk, encryption of secure files on upload,
  file descriptors, and all of `FileManager`.
- Binlog: directory operations are durable in the order issued; two processes opening
  one log (the file lock) are not modelled. After an interrupted destruction of a log only
  another destruction follows.
- `close_silent` of `SequenceDispatcher`.
- The parts listed as not modelled in `PROJECT.json`, with the reason for each. Most of the
  repository's lines are there: the vendored SQLite (half of all lines), generated and
  byte-level code, and the managers of messages, contacts and stickers, which convert and cache
  server objects and have no protocol of their own that a small state space would show.
  The models cover the code on which all of that rests.

## 6. Plan

1. Theorems: `ExecutedOnce` and `NoWaitFailed` of `Session`.
2. `UpdatesManager`: channels (`add_pending_channel_update`, a pts and a difference
   per channel) and the qts with `SecretChatsManager`.
3. `SecretChatActor`: order of log writes and sends, resends after restarts;
   `TdDb`: opening and destroying, to close the gap of interrupted destruction.
4. `Session` as the environment of `SequenceDispatcher`; `MultiPromise`.
