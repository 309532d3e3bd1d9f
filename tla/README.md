# Verification of SeasClick

SeasClick is a PHP extension (`clickhouse.cpp`) on top of a patched copy of clickhouse-cpp
(`lib/clickhouse-cpp`). A `ClickHouse` object owns one native client, the client owns one
TCP connection, and every method is a blocking exchange of packets on it. What is hard
about this code is not any one exchange but what an exchange that fails leaves behind: an
answer that is still to come, a packet that was half sent, an insert that is still open,
a flag that says otherwise. Besides the connection, three parts of the extension carry
state of their own across many small steps: the parser of `insertFromStream`, which sees a
text in chunks of the stream's choosing; the columns, whose dictionaries, indexes and
offsets must agree; and the query log. This directory models all of that, checks it with
TLC and proves the central invariants with TLAPS.

Paths are relative to the repository; `client.cpp` is
`lib/clickhouse-cpp/clickhouse/client.cpp`.

## The system

| component | state | operations | interacts by | hard behaviour | correct when |
|---|---|---|---|---|---|
| **PHP object** (`clickhouse.cpp`) | `query_active`, `has_insert_block`, `insert_query_id`, the native client | `select*`, `execute`, `insert`, `insertFromStream`, `writeStart`/`write`/`writeEnd`, `ping`, `resetConnection`, `setDatabase`, construction, `free_obj` | calls the native client; is called back by it in the middle of a packet loop | callbacks that throw, stop or call the object; recovery that fails half way | no call meets what an earlier one left behind; a reported success is one |
| **native client** (`Client::Impl`) | `state_`, the streams | `BeginExecuteQuery`/`NextBlock`, `BeginInsert`/`SendInsertBlock`/`EndInsert`, `Ping`, `ResetConnection`, destructor | reads and writes the streams | any socket call may throw; the destructor finishes an open insert | its state is the one the object tracks; an insert that was given up is never committed |
| **streams and socket** (`base/output.cpp`, `input.cpp`, `socket.cpp`) | output and input buffers | flush, read | TCP | timeouts inside a packet; a flush that throws keeps its bytes | nothing of an old connection reaches a new one |
| **endpoints** (`client.cpp:643-719, 1295-1363`) | iterator, `current_endpoint_` | rotation, construction, fallback of the extension, `RetryGuard` | connects | endpoints that come and go between two attempts; off-by-one at the wrap | gives up only after every endpoint failed; reports the endpoint of the socket |
| **import of streams** (`InsertStreamParser`, `insertFromStream`) | parser state between chunks, the batch, `block_dirty`, `sent_any_block` | `feed`, `finish`, `flush_batch`, the catch | reads a PHP stream, sends blocks of one insert | escapes, quotes and line ends split between chunks; a failure after some batches were sent | every row of the text or none; no split of the text changes its meaning |
| **export of streams** (`selectToStream`) | `header_written`, `buf` | the `OnData` callback, `flushStreamBuf` | writes a PHP stream | short writes, a first block without rows | export followed by import is the identity |
| **query log** (`query_log.cpp`) | `query_log`, `log_enabled` | `recordQuery*`, `enableLogQueries`, `getLogQueries` | every method | the limit, switching on and off | the latest entries, each once, in order |
| **cursors** (`ClickHouseStatement`, `ClickHouseRowIterator`) | blocks, position, key | `rewind`, `next`, `valid`, `current`, `count` | buffered result | blocks without rows | each row once, under its number |
| **columns** (`columns/*.cpp`, `typesToPhp.cpp`) | dictionary, index, map of keys; offsets; the array child in use | append, slice, clear, load, save | blocks of an insert or a result | an append that throws half way; NULL, default and empty in one dictionary | what is stored is what was given, and read back as such |
| **compressed stream, wire format** (`base/compressed.cpp`, `wire_format.cpp`) | the inner buffer of a block, the frame being read | `WriteAll`, `ReadAll`, frames | lies between a packet and the streams | blocks that end inside, at the end of, or past a frame; short sends and reads | what is read is what was written, and nothing of it stays in a buffer |
| conversion, placeholders, settings, metadata, TLS | none or library state | pure functions, OpenSSL | | formatting | not modelled |

Concurrency in this system is between the client, the server, the network and the
endpoints: PHP runs one thread per object, but user callbacks run inside a packet loop
and may call the object again.

## Modules

| module | what it is |
|---|---|
| `Wire` | one connection: two FIFO streams, the server's session, and each way a socket call can fail |
| `ByteStreams` | the bytes below the packets: output buffer, frames, short sends, input buffer, and the reader |
| `PacketTransfer` | the queues of `Wire` as what those bytes decode to, and the refinement; extends `ByteStreams`, instantiates `Wire` |
| `MCBytes` | packets for TLC |
| `ByteStreams_proofs` | what the operators of `ByteStreams` return: the layout of a packet in fields and frames, and where a reader is in it |
| `PacketTransfer_proofs` | the three invariants of the bytes, for all shapes, sizes of buffers and settings |
| `NativeClient` | `Client::Impl`, one step per packet; extends `Wire` |
| `ClickHouseObject` | the PHP object, its methods and recoveries; extends `NativeClient`; `Spec`, `FairSpec` and the properties |
| `ObjectInvariant` | the inductive invariant of `ClickHouseObject` |
| `SessionInvariant` | what the client may assume of the server's session, an inductive invariant: without timeouts, and with them for the methods that reset |
| `InsertLedger` | what a script may assume of its inserts, the abstract specification `ClickHouseObject` implements |
| `MCClickHouseObject` | constants for TLC |
| `ClickHouseObject_proofs` | types, both inductive invariants, every safety property of the object, and the refinement of `InsertLedger` |
| `Endpoints` | rotation, construction, reset and `RetryGuard`, one step per attempt |
| `Reconnect` | what a reconnect promises, the abstract specification `Endpoints` implements |
| `Endpoints_proofs` | all properties of `Endpoints`, the refinement included |
| `StreamText` | the CSV and TSV formats: classes of bytes, and how a cell and a row are written |
| `StreamGrammar` | the reference: what a whole text means, by positions, without a parser |
| `StreamImport` | `insertFromStream()`: one action per branch of `feed()`, the batches, the catch; `ImportSpec` |
| `StreamExport` | `selectToStream()`: blocks, header, short writes |
| `TableLoad` | what a bulk load promises, the abstract specification the import implements |
| `StreamTransfer` | export and import together, their properties and the refinement; extends the three |
| `MCStream` | jobs, texts and results for TLC |
| `StreamTransfer_proofs` | types and all-or-nothing of the import, the text of an export, and that it is read back as it was |
| `StreamLoad_proofs` | the parser against the grammar: what it refuses is malformed, and the refinement of `TableLoad` |
| `LowCardinality` | `ColumnLowCardinality` as operators on a record of dictionary, index and map |
| `ArrayColumn` | `ColumnArray` over it, and the conversions the extension makes with both |
| `QueryLog` | the query log |
| `ColumnTrip` | `insert()` and `selectStream()` around a table with one such column, the row iterator, the log; extends `ArrayColumn` and `QueryLog` |
| `MCColumnTrip` | types and rows for TLC |
| `DataInduction` | induction over numbers and sequences with a set in place of a predicate; facts on sequences of sequences, on largest and smallest elements and on orders of finite sets |
| `ColumnTrip_proofs` | what the operations on a LowCardinality column preserve and return, appends of many items and slices included; columns, table, iterator and query log, for all types, rows and blocks |

### Wire

`c2s` and `s2c` hold packets in flight. A packet is its kind and a history number, the
query it belongs to, which the client code cannot read (there is none in the protocol) and
the properties can. `held` counts the packets at the end of `c2s` that are still in the
client's output buffer: `BufferedOutput::DoFlush` (`base/output.cpp:82-96`) resets its
buffer only after the last byte, so a send that times out before a byte went out is sent,
in front of the next one, by the next flush. Of a packet that takes more than one flush only a part
may be there. A send that times out inside a packet leaves a `Torn` one. A receive that times out inside a packet leaves `Malformed` input, and
nothing after it can be read as a packet. `ConnectRefused` keeps the old socket, which
`OldSocketSurvives` lets live on; `HandshakeFails` has already replaced it by one whose
input is in the middle of a Hello. `FreshSocket` is `InitializeStreams`: a new socket and
both streams new.

The server is external. It runs one query at a time, sends result packets, exceptions and
ends, answers `Cancel` and `Ping`, skips the rest of an insert after it refused a block,
and closes the connection on a packet it does not expect. `committed` records the inserts
whose end it accepted.

### ByteStreams and PacketTransfer

`ByteStreams` is one direction of a connection, written and read by the client's own classes.
A packet is the sizes of its fields; its tokens are numbered, and a token of a frame says of
which bytes it is the hash, the header or a compressed part (the codec is external, `Packed` says
how much it makes of how much). `work` is the packet being written as the calls of `WriteAll` and
`Flush` that are left: `Calls` builds it, with `WriteInner` and `Chunks` for the buffer above the
frames. The rules of `BufferedOutput::DoWrite` (a field that does not fit flushes, a large one
then passes the buffer) decide between `WriteToBuffer`, `SendBuffer` and `SendDirect`; each
`send()` takes as much as it likes. `SendThrows` gives the packet up where it is. The reader is
what `ReadAll`, `CompressedInput` and `BufferedInput` keep of a packet that has come in part.

`PacketTransfer` decodes what is buffered and on its way into packets, after every step, and shows
that `Wire`'s view of sockets is right: each step is a send, a failed send, a receive or
a failed receive of `Wire`, or nothing. Writing it changed `Wire`: a failed send may leave a part
of its packet in the buffer only, and may have sent those that were held before it.

One step is exempt and not in `Wire` (`HeldAreRepeated`): a flush that stops exactly behind a packet
that was held keeps it in the buffer although it was sent, and sends it again. It takes a send that
times out with nothing sent, one that times out at that byte, and a third that succeeds.

### NativeClient

`state` is `state_`. `call` names the packet loop (`select`, `sample`, `end`, `pong`), the
point inside it where user code runs (`onData`, `onProgress`) or `cancel`, the send that
follows a callback that returned false. `ret` is how the last native call ended; the
extension distinguishes exactly `ServerException` from every other throw. `BeginInsert`
and the failures of `EndInsert` leave `state_` at Inserting, as the code does. A query that
was stopped sends another `Cancel` for every block still in flight (`client.cpp:1012-1015`).
Default options are modelled: `rethrow_exceptions` on, `ping_before_query` off (the guard
is in `Endpoints`). The destructor's send is modelled; what the server answers within the
teardown deadline is read by nobody.

### ClickHouseObject

`method` and `pc` say which method runs and where. A method is the step that enters it,
takes the guard and starts the first native call, and one step at each point where a
native call has returned or thrown. Recovery (`resetConnectionReapplyDatabase`) is the
places `reset`, `rotate`, `use`, `using`, `recovered` and `unrecovered`. "select" stands
for every method that runs `prepareQuery` and then `Execute` or `Select`.

Details that a reader may miss:

- The guard is a C++ object of the `try` block, so in the code it is released before the
  recovery in a `catch`; the model releases it when the method leaves. No user code runs
  in a recovery (its query has no callbacks), so no call can tell the difference.
- `USE db` after a reconnect repeats what the Hello already said, but when it fails the
  recovery counts as failed although the connection works.
- `setDatabase` builds its new client first and deletes the old one after; because the old
  one is idle there (`RestIsTracked`, and the method refuses an open stream) the deletion
  puts nothing on any wire.
- `told` records only methods whose return says that an insert is finished.

`InsertLedger` is what a script may assume: an insert is opened when no other is, it ends by its
end marker or is given up, only one that ended is committed, and a one-shot method reports only one
that ended. On a reliable connection (`Settled`) the report means the commit, and no commit comes
after the next insert was opened. Its `open` is the insert the native client is sending
(`OpenInserts`: `state` is Inserting and the end marker was not given to the stream), which outlives
the method that opened it when `writeStart()` did, or when a `BeginInsert` failed. `writeEnd()` may
report anything there: that it does is a finding below.

### Endpoints and Reconnect

`condition` is what a connect to each endpoint meets, `serves`, `down` (refused),
`babbles` (a malformed Hello), `rejects` (a server exception), and changes between any two
attempts. `index` and `current` are the iterator and `current_endpoint_`. `caller` says on
whose behalf attempts are made: `create` (constructor), `reset` (the extension's
`ResetConnection`), `fallback` (its `ResetConnectionEndpoint`), `guard` (`RetryGuard`).
Four history variables serve the properties: `first` and `failed` (where the rotation
began, what failed since), `link` and `threw` (what the reset made of the connection).
`setDatabase` constructs a second client while the first lives; `Endpoints` follows one
client, whose constructor runs again after it threw.

`Reconnect` is what the rest of the client may assume: a reset ends with a new connection
whose handshake was completed, or throws and leaves the old socket or an unshaken new one.
`NativeClient!ResetConnection` is written from it, and `ResetConnectionEndpoint` may be the
same action because of it.

### StreamText, StreamImport, StreamExport, StreamTransfer

A byte is one of the nine classes the formats tell apart (`sep`, `lf`, `cr`, `quote`, `bs`
and the letters with a meaning after a backslash); `N` also stands for any ordinary byte. A
cell is its bytes or `Null`.

`StreamImport` follows `InsertStreamParser::feed()` branch by branch. `read` is what the
stream has given and `pos` how much of it is consumed, so that `pos = Len(read)` is the end
of a chunk: `EscapeAtEnd` and `ResumeEscape` are the two halves of an escape that a chunk
boundary splits, `EscapeInChunk` is the same escape in one piece. `p` is the parser (its state,
`current_cell`, the flags that outlive a byte). A row that is complete joins `batch`; when it
is full, nothing but the flush can run (`on_row` calls `flush_batch` before the parser goes
on). `server` says what became of the insert: `open`, `ended` by the client, `reset`. The
catch is `RecoverSent` (a block was or may have been sent: reset) and `RecoverEmpty` (end the
empty insert, reset if that throws). Connection failures appear as the throws of
`FlushThrows` and `EndInsertThrows`; how they come about is the subject of `ClickHouseObject`.

`StreamExport` has one action per callback and one per round of the write loop, in which the
stream takes as much as it likes.

`StreamGrammar` says what a text means without reading it in order: where a cell ends is a
minimum over positions, whether a byte is escaped the parity of the backslashes before it.
It models no code. `TableLoad` is the abstract load; `Load` in `StreamTransfer` maps the
import to it: the input is the text read so far, `kept` is what the server has when the
insert is ended.

Two texts have no agreed meaning and are not among the inputs or exempt:

- `MixesLineEnds`: `prev_was_cr` is not cleared by a cell separator (`clickhouse.cpp:3570`), so
  in `\r`, separators, `\n` the line feed is taken for the second half of a line end and the row
  that begins after `\r` is not ended by it. Texts that mix line ends in this way are left out.
- A row of one column whose value is an empty string is written as a blank line, which the
  import skips; `RoundTrip` compares the other rows.

### LowCardinality, ArrayColumn, QueryLog, ColumnTrip

A LowCardinality column is a record: its element type (`nullable`, and `width` for
FixedString), the dictionary, the index of each row, the map from keys to places. The two
constructors are apart, `Fresh` (from a class that says it is Nullable: null item, then
default item) and `FreshOver` (from any dictionary: default item only), because a slice uses the
second. `AppendUnsafeThrows` is the `try`/`catch` of `AppendUnsafe`, in its order: the
index and the key first, then the dictionary, then the roll-back. `SaveBody` drops the null flags
and `LoadBody` puts one where a reader puts it.

`ArrayColumn` adds offsets, and the way `insertColumn` fills an array: one child that is filled,
appended and cleared for each row.

`ColumnTrip` is a script that inserts rows into a table with one column and reads it back. What
the server stores (`ServerReads`) and sends (`ServerWrites`: any split into blocks, blocks
without rows, each dictionary in any order after its null and default items) is external. The
iterator is walked and rewound while later calls run. Each call that completes is recorded, and
a recovery that fails has an entry of its own.

Abstractions: a key's two hashes stand for the key; a text is at most two bytes; the table has one
column; that a call fails is a choice.

## What is checked

`Window = 2` bounds unread packets in each direction and `MaxQueries` how many queries a
behaviour numbers; both are bounds in guards, not on the depth of the search. Two queries
are enough for one to meet what another left, three for a recovery in between. Two packets
are enough for an answer behind a packet that is not one, and for a held packet before a
new one.

| run | constants | properties | shows |
|---|---|---|---|
| `object_clean` | 3 queries, no timeouts, refused reconnects kill the old socket | `AnswersAreOwn`, `NothingLeftBehind`, `OneShotSuccessIsCommitted`, `SessionOrReset`, `ImplementsLedger` | with default options, callbacks, cancels, server errors and disconnects in any order leave nothing to the next call, and an `insert` or `insertFromStream` that returns is committed |
| `object_dirty` | 2 queries, timeouts, old sockets survive | `TypeOK`, `RestIsTracked`, `AbandonedNeverCommitted`, `IInv`, `ImplementsLedger` | the worst wire: what a recovery gave up is never committed, state and flag agree, and the ledger of inserts is kept |
| `object_timeouts` | 3 queries, timeouts, the methods that recover on every throw | `AnswersAreOwn`, `NothingLeftBehind`, `StreamIsServersInsert`, `OneShotSuccessIsCommitted`, `SessionOrReset` | with timeouts too, a throw that resets leaves nothing, the open stream is the server's, and what `insert` reports is committed |
| `object_liveness` | 2 queries, no timeouts, `FairSpec` | `EveryCallReturns` | every call returns |
| `endpoints` | 3 endpoints, `send_retries` 0, 1, 2 | `TypeOK`, `CurrentIsTheSockets`, `GiveUpHasTriedAll`, `ReturnedIsPinged`, `ImplementsReconnect` | rotation, guard and refinement |
| `stream` | all four formats, one or two columns; texts of up to 6 bytes of any class, in chunks of 1 or 2; batches of 2 rows; 9 kinds of cells to export | `TypeOK`, `EndedIsWhole`, `RejectedOnlyIfMalformed`, `RoundTrip`, `ExportIsWhole`, `ImplementsLoad` | the parser means what the grammar means for every split of every text; import is all or nothing; export and import are inverse |
| `columns` | eight column types, tables of 2 rows, 3 calls, log of 2 entries | `ColumnsAgree`, `StoredIsGiven`, `IteratorShowsResult`, `LogKeepsLatest` | values survive the way into a table and back; the iterator and the log keep their order |
| `bytes` | buffers of 4, 2 packets of 6 shapes, no compression, frames of at most 3 bytes, frames of any size | `ReturnedIsSent`, `BrokenIsTorn`, `AllArrives`, `ImplementsWire` | the bytes behave as the packets of `Wire` do, for every division into frames, sends and receives and every timeout |

`object_timeouts` leaves out `ping`, which does not reset after a throw, and
`insertFromStream`, whose double end is a finding below. Its properties hold of every other
method.

In `stream`, six bytes hold two quoted cells, an escape on either side of a chunk boundary, two
rows with either line end, and a header with a row after it; a chunk of one byte splits every
pair, a chunk of two leaves every pair whole. A batch of two is filled exactly, and left with a
rest. In `columns` two rows with up to two elements each fill a dictionary past its null and
default items, repeat an element, and put an element that throws after one that did not; three
calls let a read come after two inserts and pass the limit of the log. The type
`Array(LowCardinality(Nullable(String)))` is given no empty strings there: that case is the finding
`lc_slice`. These runs end when the script has made its calls, or its one transfer, so they do
not check deadlock; the runs of the connection and of the endpoints do.

In `bytes` both buffers have four tokens, and packets have fields below, at and above half a
buffer and a whole one; blocks leave a rest in a frame of three bytes, fill one, and need two, or
are not cut at all (chunk 0). Two packets are enough for one that was held or torn before another.
This run ends, too, when its packets are written and read.

The properties, and what would break them:

- `AnswersAreOwn`: a packet loop never takes an answer sent for another query. A missing
  reset, or an input buffer that outlives its socket, breaks it.
- `NothingLeftBehind`: when the script has control and no insert is open, neither the wire
  nor the server holds anything of an earlier call.
- `RestIsTracked`: between calls the native state is Idle, or Inserting with the flag up.
- `AbandonedNeverCommitted`: no later call, reconnect or destructor commits an insert that a
  recovery gave up. `state_ = Idle` before the connect (`client.cpp:656`) is what it is about.
- `StreamIsServersInsert`: the insert that the object holds open is the server's.
- `ImplementsLedger`: the object, through the whole stack below it, is `InsertLedger`; see below.
- `OneShotSuccessIsCommitted`: success of a one-shot insert means the server accepted its end.
- `EveryCallReturns`: `method # "none" ~> method = "none"`.
- `CurrentIsTheSockets`, `GiveUpHasTriedAll`, `ReturnedIsPinged`, `ImplementsReconnect`: see
  `Endpoints`.
- `RejectedOnlyIfMalformed`: the import throws for the text's sake only if the grammar rejects
  the part of it that was parsed. State that should not outlive a cell, or that should outlive
  a chunk and does not, breaks it.
- `ImplementsLoad`: whatever fails, the table keeps all the rows the text means or none, and a call
  that throws kept nothing unless only the answer to its end was lost.
- `EndedIsWhole`: an insert that is ended holds nothing or every row that was counted.
- `RoundTrip`, `ExportIsWhole`: what is exported is the text of the rows, with one header, however
  the stream takes it, and comes back as the same rows.
- `ColumnsAgree`: map, index, offsets and dictionary of every column agree, also after an append
  that threw.
- `StoredIsGiven`, `IteratorShowsResult`: the rows in the table are the rows given, those the
  iterator shows are the rows of the result, NULL and the empty string apart.
- `LogKeepsLatest`: `getLogQueries()` returns the latest entries since it was last called.

- `ReturnedIsSent`: a send that returned has left nothing in the buffer, of its packet or of one
  that was held.
- `BrokenIsTorn`: the reader gives up only where a packet is not whole; frames that end early or late break it.
- `AllArrives`: when no send threw, everything is read as it was written, and the reader waits for nothing.
- `ImplementsWire`: see `PacketTransfer`. A flush that forgets what a short `send()` left breaks it.

### Fairness

`FairSpec` assumes that the PHP thread runs on while a method runs and that callbacks return
(weak fairness of `Native` and `Method`), that an input stream comes to its end (strong
fairness of `RowsDone`: a batch may be sent any number of times before), and that the server
consumes what it is sent and in the end answers (weak fairness of `Server` and
`ServerAnswers`). Without a timeout nothing in the code bounds a receive, so the server's
share is an assumption about the environment. Nothing is assumed of the script or of the
network. Whenever no call runs, nothing need happen.

### Disagreements between the code and its texts

Each is a run whose property states the text and which TLC violates.

| run | what the text says | what the code does |
|---|---|---|
| `write_end_false_success` | `docs/index.html:564`: the log records each *completed* `writeEnd`, with `error_code` 0 on success | `EndInsert` returns silently when the native client is not inserting; after a `write()` whose recovery failed, which clears the native state and keeps the flag, `writeEnd()` succeeds for an insert that is gone |
| `stale_answers` | `docs/index.html:560`: after a throwing callback the connection is reset and can be reused immediately | a refused reset keeps the old socket with its unread rows; the next query reads them. It needs a socket that outlives a refused connect, which the code's own comment (`clickhouse.cpp:1327-1333`) names |
| `end_twice` | `clickhouse.cpp:3894-3895`: close the empty insert, reset only if that fails | when the `EndInsert` of the success path fails, the catch ends the insert a second time |
| `lc_slice` | `columns/lowcardinality.h:36-40`: the dictionary of a Nullable type begins with the null item, then the default one | `Slice` builds its column with the constructor that adds only the default item, so the empty string is at place 0 and `Array(LowCardinality(Nullable(String)))` reads it back as NULL; inserts and FixedString are not affected |

Two more have no run of their own. `LOCAL_PATCHES.md:44-45` says that server exceptions such as
authentication failures propagate without rotation; `ServerException` is an `Error`, which the
rotation catches (`client.cpp:680`), and `Endpoints` has endpoints that reject and are passed over.
And the comment at `clickhouse.cpp:1353-1354` says that callers clear the
streaming state only when the recovery succeeded, and `writeEnd()` clears it before the
reconnect. It does no harm, because the native state is Idle by then (`RestIsTracked`).

## What is proved

For every value of the constants, from the named assumptions `WireAssumption`,
`ObjectAssumption`, `EndpointsAssumption`, and the assumptions of `ByteStreams`, `StreamImport`,
`StreamTransfer`, `LowCardinality`, `ColumnTrip` and `QueryLog`, only. Two of them say what data
there is. `SourcesAreRows`: a row of a result has a cell for each column, and NULL only where the
column takes it; with it, `JobAssumption` has no column without a name, as no server has one.
`RowsAreRows`: a FixedString is given without zeros at its end, which nothing can tell from padding.

Induction over data is done with sets. The library's induction theorems take a predicate, which
the provers cannot be given; in `NatSetInduction` and `SeqSetInduction` (`DataInduction`) a set that holds
what is shown takes its place, from the theorem that a nonempty set has a minimum under a
well-founded relation. Folds and recursive functions enter the other proofs by the equations shown
of them there, once each.

`ClickHouseObject_proofs`: `TypeCorrect`, `Inductive`, `RestIsAlwaysTracked` and
`AbandonedIsNeverCommitted`. None of the properties is inductive. `ControlInv` says which
`state_` each packet loop and each place of a method has, so that `RestIsTracked` survives
every exit of every method. `WireInv` says to which insert packets belong: a block or an end
marker continues the packet before it (`Follows`), what an inserting client sends next
continues its own insert (`WriterContinues`), a commit is of an insert whose end was given
to the stream (`EndsAreSent`), and no insert was both given up and ended
(`AbortedIsFinal`). `AbandonedNeverCommitted` is the last two together. The proof has one
lemma per wire step and per action and combines them once.

The second part of the module: `SessionIsKnown`, and from it `AnswersAreAlwaysOwn`, `NothingIsLeftBehind`,
`StreamIsAlwaysServersInsert` and `OneShotSuccessIsTrue`, under the assumption `Recoverable`: a
refused reconnect ends the old socket, and either no timeout can expire, or the methods are those
that reset after every throw (not `ping`, not `insertFromStream`) and a recovery sends no `USE`.
Without it `AnswersAreOwn` and `NothingLeftBehind` are false (`stale_answers`, `end_twice`). `SessionInv` relates both queues and the server's session to the
state of the client. `WireSession` says that work, sessions and answers are of the query last
sent (`IsCurrent`), that a query or the opening of an insert is the only work on the wire
(`OpensAlone`), and that nothing follows input that cannot be decoded. `ClientSession` says what
each place knows: at rest nothing is under way (`IdleIsQuiet`), the end of a query is its last
answer (`SelectSession`), an insert is opened, refused, skipped or ended (`OpenSession`,
`InsertSession`). Queues enter only by the kinds of their packets (`Kinds`), by which kinds follow
which (`NoneAfter`), and by whose they are (`AllOf`); four lemmas say what appending a packet and
taking one do to the three, and the rest of the proof never looks into a sequence. The second
`EndInsert` of an empty `insertFromStream()` is a case of its own: without timeouts it can only
follow a refusal, so the server skips it or hangs up, and no commit is lost or doubled.
A timeout may leave half a packet in either direction, and `SessionInv` is lost. The proof with
timeouts says that the packet loop which met it throws, that nothing but a reset can come next
(`ResetIsNext`), and that a reset restores `SessionInv` whatever the queues held: `SessionOrReset`.
Steps without a timeout in them (`Steady`) keep `SessionInv` in both cases, so they are proved once;
`InsertPlace`, which the object knows by itself, survives a timeout (`PlaceStep`).

The module ends with `ObjectKeepsLedger`, the refinement of `InsertLedger`, for every value of the constants. `IInv` gives
most of it: an end marker the server accepts is of the insert it has open (`Follows`), was ended and
not given up. `LedgerInv` adds that numbers of ended inserts are used up, that a one-shot method is
inserting while it sends rows, and that the packet loop of an end runs after its end marker.
Under `Settled` (no timeouts, no old socket that survives) the theorem uses `SessionInv`, for the truth of the reports and the order of the
commits; without it the two promises are not made.

`Endpoints_proofs`: `EndpointsTypeCorrect`, `GivesUpAfterAll`, `CurrentIsAlwaysTheSockets`,
`GuardReturnsPinged` and `ResetImplementsReconnect`, from `EndpointsInductive`. The
invariant counts steps from where the rotation began: after k steps the iterator is at
`Place(k)`, and the endpoints at steps 1 to k have failed. `Place` and its inverse `StepOf`
are a conditional subtraction instead of a remainder, so the arithmetic stays linear; the
one product, endpoints times retries, is bounded once in `AttemptsBound`.

`StreamTransfer_proofs`: `ImportTypeCorrect` (every row of a batch or a block has one cell per
declared column, which `zvalToBlock` takes for granted) and `ImportEndsWhole`, for texts of any
bytes, any jobs and any batch size. `EndedIsWhole` becomes inductive with `Counted` (what was
counted is what was sent and what waits, until a flush throws) and `ServerByPhase` (the server's
insert is open until the call ends it or has thrown). `TransferEndsWhole` is the same for an import
that reads what an export wrote. `ExportIsAlwaysWhole` is about the export's own text, for every
division of the result into blocks and every short write. `ExportIsWhole` says nothing of what waits
in `buf`; the invariant `ExportInv` does: file and buffer join to `Written`, the header and the text
of the rows the callback was given, and there is neither before the header. `RowsTextJoins`, that the text of
two batches of rows is the text of the one behind that of the other, carries it from block to block.

Its second part is `RoundTripHolds`, for every job, alphabet and result, every write the stream
takes and every chunk it gives: an import that returns has sent the rows that were exported, less
the blank ones the parser skips, and one that throws has not failed over the text. `RoundTrip`
says nothing of a parser under way. `ReadInv` does: the parser is in a cell of some line or between two
lines, what is left of the file is the rest of what was written for that cell (`CellLeft`) and
what was written behind it (`Behind`), and what was sent with what waits is what the lines before it
give (`Done`). Within a cell there are few places to be, and each is a sentence about the bytes
that are left: in TSV between two bytes, behind a backslash, or in the mark of NULL; in CSV within
a plain value, before the opening quote, between two bytes in quotes, between the two quotes that stand for one,
and behind the closing quote. What the parser has decided of a byte and what the writer has done to
it are then compared byte by byte, and where a chunk ends does not matter, because the place
says what the state of the parser remembers. TLC checked `ReadsBack` as an invariant on the results of
`stream` before it was proved.

`StreamLoad_proofs`: `RefusedIsMalformed`, and `LoadIsImplemented`, the refinement of `TableLoad`, for
texts of any bytes, well-formed or not, every alphabet and job, every split into chunks and every
failure; only the texts that end lines in two ways (`MixesLineEnds`) are left out, by the specification.
`StreamGrammar` gives the meaning of a text by positions: where the cell that starts at i ends, what
it holds, and so row by row. The parser has a state and sees one byte at a time. `RejectedOnlyIfMalformed`
says nothing of a parser that has not refused; `LoadInv`, on top of the invariant of the round trip, does. Its
main part is about every text t that `Continues` what was parsed. There are rows `done`, the start s of a row
and the start i of a cell of it (`Inside`), such that the rows of t are those done and what starts at s, the row at s
is the cells read and what starts at i (`IsAt`), what was sent with what waits is what the done rows hold for
the table (`DoneIs`), and the parser is in the cell at i, with as much of its value as the bytes up to
here give (`CellIn`): in TSV between two bytes of it or behind a backslash (`TsvIn`), in CSV in a plain or in a
quoted value (`CsvPlainIn`, `CsvQuotedIn`). It has to be every continuation: a refusal is judged by the text with
the byte that was refused and the end by the whole text, and what comes next decides where a cell ends.
Lemmas say of each place where the next byte leads, and the proof has one for each branch of `feed()`. The
branch that drops the line feed behind a carriage return (`SwallowLF`) is right only where no row has begun
(`SwallowBegins`). For texts from anywhere that is what the exclusion of `MixesLineEnds` gives; for
exported texts the invariant of the round trip gives it.

The refinement is proved step by step (`LoadSteps`): by `Kept` and `LoadStatus` every step of the import is a
step of the load or none. `LoadInv` gives that the rows which an end marker keeps are those of a text that is
accepted, `IInv` that nothing is kept otherwise; an end marker whose answer is an error leaves the load
`unconfirmed`.

`ColumnTrip_proofs` begins with the column: the constructors and each append keep `PlacesAgree` (`FreshAgrees`,
`AppendKeepsPlaces`), an append adds its item and changes no other row (`AppendAddsItem`), an append that
throws leaves the column as it was (`AppendThrowsKeepsColumn`), and a column that is saved and
loaded has the same rows (`LoadedIsSaved`). They hold for every column, of any type and length.
Any number of appends add exactly their items, in order (`AppendsAddItems`), and a slice reads as the rows it was
cut from (`SliceReads`), but for the empty text of a Nullable column, the exception `lc_slice` shows.

The rest of the module is about the columns in use: `ColumnsAlwaysAgree`, `TableIsGiven` and `IteratorIsRight`, for every type, every
list of rows, all sizes of blocks and all orders in which a server keeps a dictionary. The invariant
`ColumnInv` has two parts. `InsertInv`: the column under construction `Holds` the rows given so
far, so that the block which is sent holds all of them, and the table has the rows of the blocks that
were sent; `StoredIsGiven` alone forgets the column between two rows. `IterInv`: the blocks the
iterator has, and those that still arrive, hold parts that join to the result, and the position is the end of the
parts before the block plus the row in it. `IteratorIsRight` assumes `SlicesAreRight`: no array of
Nullable(String) has an empty text, for which `lc_slice` violates the property; the constants of
`columns` satisfy it. `QueryLogIsLatest` is the log's property under every call, for every limit: a lemma
about `Latest` says that keeping the latest entries and appending commute.

`ByteStreams_proofs` and `PacketTransfer_proofs`: `SentOnceReturned`, `GivesUpOnlyOnTorn` and
`WhatIsSentArrives`, for packets of any number of fields of any sizes, buffers of any size, frames
of any size or of any number of bytes each, any `Packed`, every short send and receive, and
timeouts at each of them. The assumptions are that a packet begins with its code, a field of one byte
(`ShapesBeginWithCode`), that no field is empty, that buffers hold a byte, and that compressed data has
a length (`PackedIsNat`, for the lengths of data there are).

The writer cuts a packet into frames by what fits into a buffer and the reader by what the fields
ask for, and neither division is a refinement of the other. `ByteStreams_proofs` therefore
describes a packet once, by sums: `LayoutIs` gives the fields, the frames of the body, and for each
frame the tokens and the bytes before it (`FrameEnds`, `DataEnds`), by induction over the calls of
`WriteInner`. `Good` is where a reader must be when it has seen the first q tokens of a packet and c
bytes of its fields: in which field, with how much of it, and, inside the body, in front of which frame, with what of
it opened and not yet used up. `GoodReads` says that a reader who is where the tokens say, and
takes what it wants of them, is so again, or has read the packet and holds no byte of it.

In `PacketTransfer_proofs`, `ReturnedIsSent` is inductive with `LastIsFlush`: what a send has still to do ends
with a flush. `BrokenIsTorn` says nothing of a reader that has not given up. `StreamInv` does: for
every packet, if what the reader has seen since it began are the first tokens of that packet, the
reader is `Good` in it, and it never reads beyond a whole packet (`Sees`). It needs nothing of what is
under way, so timeouts do not disturb it. `AllArrives` needs the bytes under way: `InOrder` says that, when no send threw, the
first m packets were read and what the reader has seen of the next, with all that is in the buffers, the
network and the work of the writer, are the packets from there on (`Arrived`); or that the reader
has given up, or, after a receive that threw, stands at a token that begins no packet (`Lost`), at
which it gives up next.

Only model-checked: `EveryCallReturns`, because liveness under fairness, like ENABLED, is out of the
prover's reach; and the refinement `ImplementsWire` of `bytes`, whose queues are decoded from the bytes by positions. It is not
known to be beyond the methods used here.

## Plan

Done: the connection (`Wire`, `NativeClient`, `ClickHouseObject`) and the bytes below it, the endpoints, the streams of
text, the columns with the iterator and the log, and the proofs named above. Left, in this order:

1. The refinement of `Wire`'s queues by the bytes, `ImplementsWire`.
2. Map, Tuple and Nullable columns, and index columns that widen, in the way of `ArrayColumn`.
3. `ClickHouseStatement`: the cursor over the rows of a statement, beside `ClickHouseRowIterator`.

## Not modelled

SQL text, settings and statistics; placeholders and server-side parameters; metadata helpers, which
are `select` with a fixed text; conversion of values other than strings and NULL
(`typesToPhp.cpp`); columns other than LowCardinality and Array; `ClickHouseStatement`,
a cursor over an array of rows already in memory; the codecs, the hash and varints, TLS and DNS; `BeginExecuteQueryWithBlock` and external
tables; a second native client during `setDatabase` in `Endpoints`; PHP shutdown other than
`free_obj`. `RetryGuard`'s first loop has no bound in the code (it leaves only by a reconnect
that fails exactly in round `send_retries`, `client.cpp:1313`), so no termination is claimed
of it, and with `send_retries = 0` it returns without an attempt.

Most of the repository's lines are not this program: the vendored zstd, lz4, cityhash and abseil
under `lib/clickhouse-cpp/contrib` are most of the implementation, and what they do is
compression and hashing of byte arrays. No model of the extension and its client could cover
a third of all lines; of `clickhouse.cpp`, `client.cpp`, `query_log.cpp` and the stream, socket and column
classes in use, the modules cover the parts that keep state between steps.
