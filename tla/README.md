# CephInC in TLA+

CephInC is a small object store in C modelled on Ceph: a client library writes an
object to every OSD of an osdmap and waits for a majority of acks; an OSD is a server
that receives messages through a multi-threaded epoll messenger; an object store keeps
collections of objects behind transactions. This directory holds TLA+ modules of it,
the TLC configurations that check them on small instances, and proofs for TLAPS.
Paths below are relative to `src/src/` of the repository.

## Inventory

| Component | Source | State | Operations |
|---|---|---|---|
| client | `client/client.c` | `req_id`, `wait_req_list` with an `ack_count` per entry, `wait_req_lock`, `wait_req_cond` | `cceph_client_write_obj` (application threads), `do_object_write_ack` (messenger workers) |
| messenger | `message/messenger.c` | `conn_list` under a read-write lock, a mutex, a descriptor and a state per connection, one epoll set, a wake pipe, `state` | `add_conn`, `get_conn`, `send_msg`, `close_conn`, `start_epoll` (workers), `start`, `stop` |
| server messenger | `message/server_messenger.c` | the listening socket | `bind_and_listen`: accept, `add_conn` |
| message io, formats | `message/io.c`, `msg_header.c`, `msg_write_obj.c` | none | send and receive integers, strings, data; write request and ack |
| osd | `osd/osd.c`, `osd/osd_msg_process.c` | messengers, object store, files under `./data` | message handler: write the object, send an ack |
| osd_create | `osd/osd_create.c` | none of its own | create the meta collection and two attributes, in three transactions |
| pg | `osd/pg.c` | a lock and a state, unused so far | new, free |
| object store, transactions | `os/object_store.c`, `os/transaction.c` | the growing buffer of operations of a transaction | append an operation, submit |
| mem_store | `os/mem_store.c` | collections of objects (data, map) and maps, one mutex | seven operations of a transaction, seven reads |
| maps | `os/types.c` | a red-black tree of keys and values | insert, search, remove, update one map with another |
| buffer, encoding, osdmap | `common/buffer.c`, `encode.c`, `osdmap.c` | a chain of nodes, read and write positions | append, flat, read, encode, decode |
| red-black tree | `common/rbtree.c`, `rbtree.h` | nodes with children, parent and color; the root | insert, erase, search, first, last, next, prev |
| list, atomic, log, option, errno, assert | `common/` | small | small |

How they interact: a client thread calls `get_conn` and `send_msg` of its messenger once
for each OSD; a worker of the OSD's messenger reads the request, calls the OSD's handler,
and the handler calls `send_msg` for the ack; a worker of the client's messenger reads
the ack and calls `do_object_write_ack`, which shares the wait list and the condition
variable with the client threads. The object store is called by `osd_create` only; the
write path of the OSD does not use it yet.

What is hard: application threads and workers meet at the wait list and at a condition
variable with one waiter per write (lost and misdirected wakeups); a connection can be
used by several senders and a reader while several threads decide to close it (use after
free, descriptors closed and reused under a user); one-shot epoll registrations must be
re-armed by whoever consumed the event (lost events, two readers of one socket); stop
must reach each worker once; a read lock is held while waiting for a mutex; messages are
sent and read field by field, in pieces; an OSD handles the requests of one connection in
any order, and may lose them or end between a write and its ack; a
transaction, an append or `osd_create` can fail half way. The full list, line by line, is under
`hazards` in `PROJECT.json`, each with the properties that watch it.

What makes each component correct: the client returns success only for a write that a
majority acknowledged and failure only for one that no majority can have seen, keeps its
wait list equal to the calls in progress, and returns at all; the messenger never touches
a freed connection or a closed descriptor, closes each connection once, loses no event
and no descriptor, and stops; the store applies the operations of a transaction in order
under its lock and its reads return what was written last. Of the client and the OSDs
together: success means that a majority wrote first, a later write is not overtaken by an
earlier one where that one was acknowledged, and only lost messages make a write hang. A
buffer gives back what was put in, once and in order.

## Modules

| Module | Models |
|---|---|
| `QuorumWrite` | what a write promises: the abstract specification of the client |
| `Client` | `client.c` in detail |
| `ClientProofs` | the theorems about `Client` |
| `MCClient` | instances of `Client` for TLC |
| `Cluster` | `Client` composed with the OSDs' `osd_msg_process.c`, a network that loses and reorders, and crashes |
| `ClusterProofs` | the theorems about `Cluster`, on top of `ClientProofs` |
| `MCCluster` | an instance of `Cluster` for TLC |
| `Messenger` | `messenger.c` and the accept loop of `server_messenger.c` |
| `MessengerProofs` | the theorems about `Messenger` |
| `MCMessenger` | instances of `Messenger` for TLC |
| `Wire` | messages on a connection, byte by byte: `io.c`, `msg_header.c`, `msg_write_obj.c` |
| `WireProofs` | the theorem about `Wire` |
| `MCWire` | threads and messages for TLC |
| `StoreSemantics` | what the operations and reads of the object store mean |
| `ObjectStore` | what an object store promises its threads: the abstract specification of the store |
| `MemStore` | `mem_store.c`, the map update of `types.c` and the wrappers of `object_store.c` |
| `MCMemStore` | transactions and reads for TLC |
| `OsdCreate` | `osd_create.c`, composed with `MemStore` |
| `StoreProofs` | the theorems about `MemStore`, and about `OsdCreate` on top of them |
| `Transaction` | the growing array of operations of `transaction.c` |
| `StoreUser` | a user that builds its transactions in `Transaction` and submits them, composed with `OsdCreate` |
| `TransactionProofs` | the theorems about `Transaction` and `StoreUser` |
| `MCStoreUser` | two creators, one of them a user of the store, for TLC |
| `RBTree` | the red-black tree of `rbtree.c` and the maps made of it |
| `RBTreeProofs` | the theorems about `RBTree` |
| `MCRBTree` | its keys for TLC |
| `Buffer` | the chain of nodes of `buffer.c` and its reader |
| `OsdmapCodec` | the codecs of `encode.c` and `osdmap.c`, composed with `Buffer` |
| `OsdmapCodecProofs` | the theorems about `Buffer` and `OsdmapCodec` |
| `MCOsdmapCodec` | maps and chunks for TLC |

Operators under a comment that begins with "mutation" change a definition the way a
plausible bug would. No specification uses them; each is the mutant of the property it
breaks (`mutants` in `PROJECT.json`).

### Client

Everything the threads share is touched under `wait_req_lock`, so each critical section
is one action; `pthread_cond_wait` releases the lock as it blocks, so what precedes it
(`CondWait`) and what follows it (`ReqFinished`, `RecheckFails` from `"woken"`) are
separate. `pc[w]` says where in `cceph_client_write_obj` thread `w` is; `next_osd` and
`success_count` are the locals of its loop. `wait_req_list` is a sequence because
`cceph_list_add` inserts at the head and the duplicate check walks to the tail:
`InspectedReq` is the entry that `wait_req` points at after the walk of
`do_object_write_ack`. `CondSignal` wakes any one waiter; `SpuriousWakeup` is what POSIX
allows besides. A send fails or succeeds freely. An OSD that was sent a request may
acknowledge it once, in any order, before or after the call has ended (`AckFound`,
`AckNotFound`), or never. `reached`, `acked` and `result` record what was sent,
processed and returned.

Left out: `ack->result`, which the code does not read; `client_id`, which is 0 for every
client (`client.c:159`), so that the test at `client.c:33` never fails; a failing
`malloc`, which the code does not survive either.

`QuorumWrite` has neither threads nor list nor counters: a write begins, reaches OSDs, is
acknowledged by OSDs, and succeeds or fails. `Client` implements it with the mapping that
is the identity on `result`, `reached` and `acked`.

### Cluster

`Cluster` extends `Client` and puts OSDs where `Client` lets acks come freely. Every step of
the client in it is a step of `Client` (`BeginWrite`, `SendToOsd`, `WriterGoesOn`,
`RecvAck`), so that `ClusterSpec` implies `Spec` of `Client`. A request that was sent is in
`requests`; `IoWriteObject` takes any of them, since a worker of an OSD re-arms the
socket before it handles what it read (`messenger.c:291` and `302`) and the next worker may be
quicker; it appends to `log[o]`, the writes to the file of the object in their order, and
leaves the request in `written` until `SendAck` or `SendAckFails`. A write may fall short on
`BadDisks` and is acknowledged all the same, as in the code. `LoseRequest` and `LoseAck` are
the messages lost with a connection; `CrashAndRestart` takes everything an OSD had in memory
and leaves its files. All writes are to one object, at one offset and of one length, since
others do not meet. `known` records which OSDs had acknowledged which finished writes when a
call began.

The handler asserts `context == NULL` (`osd_msg_process.c:113`). `Cluster` is about a handler
that was registered that way, as the tests do; `cceph_osd_initial` (`osd.c:42`) passes the
OSD, which the assertion would end at its first message.

### Wire

One direction of one connection. A byte on its way is `<<i, f, k>>`, byte `k` of field `f` of
message `i`, so that a cut or mixed stream shows. `Fields(m)` is the format: `Checked` fields
return an error when `send` takes less than all of them, `Unchecked` ones (the integers) may
return success all the same (`io.c:27`). `BeginMessage` takes `conn->lock`, which
is held to the end of the message; `SendField`, `SendFieldShort` and `SendFieldFails` are the
outcomes of a `send`. `RecvBytes` is one `recv` of any length, `HaveField` the end of the loop of
`cceph_recv_from_conn`, and `RecvOp` to `RecvLast` what `read_msg` makes of a complete field. A
value that is read from other bytes than its own can be anything (`Values`). `AsInt16` is the
conversion of `strlen` to the 16-bit size, which holds `-SizeLimit` to `SizeLimit - 1` here. What
a negative size does to memory is undefined: the reader ends. `SizeTo(m, n)` is the length of the
first `n` fields, and `IsImage` says of bytes that each is at the place of its field.

### Messenger

Threads are `Callers` (application threads: `get_conn`, then `send_msg`), `Acceptors` (the
accept loop) and `Workers` (`start_epoll`). `pc`, `target`, `thread_fd` and `thread_peer`
are a thread's place and locals; `target` is a pointer in some places and an id in others,
as the code passes one or the other, and `HoldsPointer` says where it is a pointer.
Connections are named by their ids, which the code never reuses; memory (`mem`) and
descriptor numbers (`fd_owner`) are separate, so that use after free and descriptor reuse
show.

* `conn_list_lock`: a critical section under it is one action, with two exceptions.
  `send_msg` keeps it for reading while it waits for `conn->lock`: threads at `"lock"` are
  its readers. A thread that asks for it for writing is recorded (`insert_wait`,
  `unlink_wait`), because a waiting writer keeps new readers out
  (`PREFER_WRITER_NONRECURSIVE`, `messenger.c:338`). `CanRead` and `CanWrite` are the two
  ways in. The attribute object is used without `pthread_rwlockattr_init`; the model takes
  the kind that the next line sets.
* `conn->lock` is `lock[c]`, held across `write_message`.
* The kernel: `fd_owner` gives out any free number, as a later `socket` or `accept` may get
  the number just closed; `epoll` holds the one-shot registration of each number, which an
  event disarms, `EPOLL_CTL_MOD` re-arms and `close` drops.
* `conn->state` is not initialised by `add_conn`: `NewConn` lets it be anything.
* Errors: a connect, a read or a write may fail at any time; an unknown op drops the
  message and leaves the connection unarmed (`skipped`). The error tests `ret < -1` after
  `epoll_ctl` can never be true and are no branch of the model.
* `stop` is a thread of its own. The asserts on `state` oblige the application to have no
  call in progress when it calls stop and to start none later (the server calls it from
  the thread that was in accept), which is a guard of `StopWrite`, `GetConn*` and
  `Accept`; the workers may be anywhere.

The bytes of a message (see `Wire`), host names, the log and the failure paths of `cceph_messenger_new`
are left out.

### MemStore

`colls` is the store: collections by id, each with objects by name and a map, each object
with data (a sequence of bytes) and a map. A red-black tree is the finite function it holds.
`cceph_mem_store_submit_tran` holds the lock for the whole transaction, whose operations run
one by one: `Lock`, a `Do...` action for each operation, `Unlock`; `next_op` and `ret` are
the locals of its loop. The loop over the keys of a map update is one step, and its outcome is
stated for all keys at once (`MapUpdate`). A read takes the lock and gives it back in one step, since it changes
nothing. Errors are modelled where they are, which for the maps is not where one expects them
(a missing collection is `MAP_NODE_NOT_EXIST` for a map operation). With `MallocMayFail` each
allocation may be refused: a new collection or object, longer data, the node of any one key
of a map update (`Refusable`; the update stops there, with the old node of that key removed
and `CCEPH_OK` returned), a read's result, or the transaction itself (`BuildFails`).

`offset` of a touch is what the memory held before (`ObjTouch` has it as a parameter), and a
negative one meets the assertion that ends the process (`DoObjWriteAborts`, `aborted`).
`AsInt` is the conversion of the 64-bit length of a read to `int read_length`, which holds
`-IntLimit` to `IntLimit - 1`. `StoreSemantics` says what operations and reads mean without loops, extension or
errors of allocation: a map update is `Updated`, a write is `Overwritten`, a transaction is one
`ApplyOp` after the other (`ApplyFrom`). `ObjectStore` has these meanings as constants and adds to them threads, pending calls and one commit for each
transaction; `MemStore` implements it when malloc succeeds and no assertion fails, with
the transaction that holds the lock mapped to its whole outcome (`Outcome`): committed when
it got the lock.

Left out: names (collections, objects and keys are numbers), the order in which a tree lists
its entries beyond that it is sorted, offsets below 0 given to a write or a read.

### OsdCreate

`OsdCreate` extends `MemStore`. `step[t]` is which of the three calls of `cceph_osd_create`
thread `t` is at: `BeginCreate` and `NextCall` submit its transaction (or fail to build it,
`BuildFails`), the actions of `MemStore` run it, `CreateReturns` returns the first error or
`CCEPH_OK`. Any thread may create, any number of times, and those in `Users` use the store
otherwise in between. The store is in memory, so that nothing of a half made OSD outlives
the process; within it `HalfMadeStays` says that a meta collection that lacks an attribute
while nobody is creating (`HalfMade`) lacks one for ever: no later call makes it whole, be it
another create. What return codes say of it is `OneOsdInTheStore`, by the way of `created`.

### Transaction and StoreUser

`op_buffer` grows by `LIST_SIZE` places when full. `op_buffer_length` is what the code
believes its size to be and `allocated` what it is: the two differ after `AppendFails`, and a
caller that goes on (`KeepsGoing`) then writes past the end. `accepted` records
the appends that returned `CCEPH_OK`. The content of an operation is that of `MemStore`.

In `OsdCreate` a transaction is submitted as a whole. `StoreUser` puts before that what a
caller like those of `object_store.c` does: `AppendNext`, the transaction given up when an
append fails (`GiveUp`), and `SubmitBuilt`, which hands to the store what `op_buffer` holds
(`Built`). That this is a use of `OsdCreate` is a theorem (`UserImplements`). The functions
that build a transaction submit and free it before they return, which is why a user does
nothing else with one in its hands (`NoTran`).

### RBTree

A node is its key. `tree` is the memory (`rb_left` and `rb_right` as `child`, the two parts of
`rb_parent_color` as `parent` and `color`) and the root. `Insert`, `EraseOuter` and `EraseInner`
are the calls up to the rebalancing loop, and each pass of a loop is a step with the locals
`node` and `parent` in between, so that the properties speak of the tree inside of a call too.
The source has a left and a right copy of most code; the model has a side as a parameter.
`RedBlack` says during a call that the loop's node is the only thing wrong with the tree. The
memory of an erased node belongs to the caller again, who frees it; the model clears it.

The trees of the store are used under its lock only, so that nothing runs beside a call. `MemStore` does not build on `RBTree`: that a tree
is the finite function `MemStore` takes it for is what `HoldsItsKeys` and `WalksAreRight` say.
`cceph_rb_replace_node` is left out; nothing calls it.

### Buffer and OsdmapCodec

A turn of a loop of `buffer.c` is an action: `CopyToNode` and `CopyToNewNode` of
append, `FlatNode`, `ReadNode`. Nodes are numbered along the chain, `used[i]` is
`node->ptr - node->data`, and `rnode`, `rptr` are the reader's place, `NULL` at the
end. `length`, `offset` and the bytes of `data` are what the code keeps; `appended`,
`consumed` and `flat` record what went in and came out.

`OsdmapCodec` extends it: each field is one append or one read, whose result neither side
looks at. Between calls, other users append, read, flatten and make a new reader. A field that
was not read keeps what the memory held (`IntRead`). An integer has two bits in two bytes here.
`Encoded` gives the fields of a map by their index, so that proofs need no induction over them.

Left out: the string codec, which nothing calls (its decoder does not terminate the string), and
the out-of-memory path of `cceph_buffer_new` and `cceph_buffer_reader_new`, which make nothing.

## Runs

| Run | Instance | Shows |
|---|---|---|
| `client_progress` | 2 threads, 3 OSDs, 2 writes, duplicate check on | the returned result is the truth; the wait list and its counters are exact; `QuorumWrite` is implemented; an acknowledged write returns if it is the oldest listed and no two threads were blocked at once; where no write fails some write returns, whatever signals go astray; a write that reached too few servers fails |
| `client_every_write_returns` | 2 threads, 1 OSD, duplicate check off | **violated**: a finished write may wait for ever |
| `cluster` | 1 thread, 3 OSDs, 1 of them with a bad disk, 2 writes, duplicate check on | the OSDs answer as the client expects; success means that a majority wrote first; later writes come later; only lost messages make a write hang |
| `messenger` | 1 caller, 1 acceptor, 2 workers, 3 descriptors, 2 connections besides the wake pipe | memory, descriptors, events and asserts; one reader per socket; numbers are reused |
| `messenger_returns` | 1 acceptor, 2 workers that also reply, 3 descriptors, 2 connections besides the wake pipe | stop returns and every add, send and close does, if peers do not keep them in a read or a write |
| `messenger_add_conn` | 1 caller, 1 worker | **violated**: `return conn->id` of a freed connection |
| `wire` | 2 threads, 2 messages out of 4, integers of 2 bytes, lengths of 2 bits | what is read is what was sent, whole and in order; a worker that reads gets free |
| `memstore_refinement` | 2 threads, 1 collection, 1 object, 2 keys, 11 transactions, 9 reads | the store implements `ObjectStore` |
| `osd_create` | 2 threads that create, 1 of them with transactions of 2 and 3 operations of its own in an array grown by 1, malloc may fail anywhere | one OSD in the store, a half made one stays; what was appended is submitted, in order; operations touch what they name and lose nothing; the lock is given back |
| `memstore_map_update` | 1 thread, malloc may fail | **violated**: a key is lost and `CCEPH_OK` returned |
| `rbtree` | 10 keys | keys, order, balance and walks of the tree; the loops end |
| `osdmap_codec` | nodes of 3 bytes, 12 bytes in all, chunks of 4, maps of 1 and 0 OSDs, malloc may fail | bytes come out once, whole and in order; a map that was encoded whole comes out as it went in |

The type invariants of `Client`, `Cluster`, `Messenger`, `Transaction` and `Buffer` are proved
for all instances and have no run, and so are four properties of the client: `OkMeansMajority`,
`FailedNeverMajority`, `OkWritesShareAnOSD`, and that a single writer is never left waiting
(`SingleWriterWakes`).

Bounds. Two threads are enough for every conflict at the wait list, since a step of the
client involves one writer and at most one other that it wakes; three OSDs are the
smallest number whose majority is neither one nor all. `MaxReq` bounds the writes that are ever
started: with two, a late ack of an ended write meets another write. The duplicate check is on, as `common/option.c:14` has it by default,
in `client_progress` and `cluster`; the proofs have both settings. It is off in
`client_every_write_returns` only, so that the trace found there is that of the signal: with the
check on there is another one, in which a newer write hangs since its acks are judged by the count
of the oldest (see `client.c:78` below), which is why `AckedWriteReturns` is about the oldest. In
`cluster` two writes are what `known`, `LaterWritesComeLater` and `SecondWriteStays` are about:
the second begins when the first has returned, with requests of the first still to come. A
third write breaks `SecondWriteStays`, which says two: three majorities of three OSDs need not
have a common member. In `messenger`, two
connections (ids 3 and 4, `MaxConn`, as the wake pipe has 2) on two descriptor numbers besides that of the
pipe (`Fds`) let a number be reused while a thread still holds it,
and the caller, the workers and the acceptor let a close race a send, an
accept and a second close; the proofs have any number of them. Liveness is not proved and has
`messenger_returns`: with two connections an accept meets workers that reply and close on the list lock. To
stay small it has no application threads, as an OSD's messenger has none; what a caller does to
the locks, a worker that replies does too. Since `MaxConn` bounds the adds, and with them the closes, it says nothing of
senders starved by an endless stream of these.
`wire` has two threads, so that the lock matters, and two messages of both kinds, with a
name that fits its length, one that makes it negative, and one that comes round to 1; the
bytes of a field come in one or two pieces, which is every way the loop can go. In
`osdmap_codec` three bytes to a node and fields of one and two bytes let each field end
before, at and beyond the end of a node (`NODE_LENGTH`, `MaxLength`).
Deadlock is not checked in these runs, since the systems may stop: the writes and
connections run out, and a client without acks waits by design. In `osd_create` and
`osdmap_codec` an assertion may end the process.

The store's state is finite once the transactions are given; they append, overlap, leave a
hole, write nothing, remove what exists and what does not, and fail in the middle. Two
threads show every order of two transactions and a read, and `memstore_refinement` checks
deadlock. In
`osd_create` two creators are the smallest number that can get in each other's way, and the
user of the store has two objects, so that an operation can touch one it does not name; its
array grows by one, so that a transaction of three operations grows it twice (`LIST_SIZE`, `MaxOps`). With
`IntLimit` = 4 an `int` holds -4 to 3, which the three bytes of the longest object still fit, and
the reads of `memstore_refinement` ask for -4 to 8 bytes, which the conversion makes negative,
zero and small: every length up to twice the range of an `int` (`ReadsFit`).

Ten is the smallest number of keys with which both loops of the tree go round more than once.
`rbtree` checks deadlock: a pass is
always possible, which with `PassesClimb` is why calls end, without any fairness.

Fairness. Threads that can run do (weak fairness of each thread's steps): they are POSIX
threads that nothing stops. `FairAckSpec` adds that OSDs answer what was sent to them; it
is assumed only where it is named. In the messenger a mutex is not withheld from one waiter
for ever (strong fairness of `SendLock \/ SendSeesClosed`) and `epoll_wait` returns the
ready wake pipe in its turn, to one worker or another (strong fairness of that event,
which the kernel's ready list provides). Nothing forces a peer to send or an application to
write or to connect, and nothing is assumed of a read or a write in progress: that no thread stays
in one is a premise of `StopReturns` and `CallsReturn` where they need it (`WritesEnd`, `ReadsEnd`), as is
that the process does not end at a message of kind `READ` (`Running`, `ReadNotImpl`). In `cluster`, threads run and a message that is sent arrives unless it is
lost; spurious wakeups, losses and crashes are never forced, but may go on for ever. In `wire`,
a `send` ends, and bytes that are there are received; nothing makes a thread begin a message.
In the store only the thread that holds the lock is assumed to go on; nothing is
assumed of the mutex.

Some properties state an exception instead of a weaker property, because the code does break
the full one. `OneReaderPerSocket` excludes descriptor numbers that have served two connections: a worker with an
event of the old connection reads from
the new one beside the worker that has its own event. `NoEventLost` holds with numbers reused, but for
the connection that gets the number of one closed before its own `epoll_ctl` (`stray`): that call
registers the new connection too early, and its own meets `EEXIST` and may leave it unread.
It also excludes the connections that sent an unknown op (`skipped`), which the code never arms
again.
`ReceivedAsSent` and `WorkersGetFree` except what follows a short send that went unseen, and
names whose length does not fit; `RoundTrip` and `EndIsTheEnd` except a reader that had
come to the end before, and maps of which an append failed.

## Findings

1. `client.c:81`: `pthread_cond_signal` with one condition variable for all callers; the
   test that joins 16 writers (`test/test_client_client.cc:256-258`) can hang.
2. `messenger.c:456`: use after free of a connection that a worker closed at once.
3. `os/types.c:268`: a map update that finds no memory for a new value has already removed
   the old one and returns `CCEPH_OK`; the rule of `os/types.h:69` is to update it.

More disagreements are in the modules, where they shape an action, and have no run:

* `client.c:78` (`InspectedReq`): with the duplicate check on, the entry tested after the walk is
  the last of the list, so the ack that finishes another request may signal nobody;
  `client.h:37` says the condition variable is signalled when a request finishes.
* `messenger.c:143` (`ReadNotImpl`): for a message of kind `READ` or `READ_ACK` the assertion
  "Not Impl" never fires and the log line at 167 dereferences a null pointer.
* `messenger.c:519` (`NewConn`, `SendSeesClosed`): `conn->state` is read before it was ever
  written, so that a send may refuse a new connection, which stays open and listed;
  `messenger.h:89` says "if success return 0, else -1 and close the conn".
* `message/io.c:27` (`SendFieldShort`): a short send of an integer may count as success, and
  `send_msg` returns 0 for a message that did not go out; `SuccessMeansSent` in `Wire` is
  what `messenger.h:89` promises, and is the exception of `WorkersGetFree`.
* `message/io.c:52` (`AsInt16`): the length of a name is cut to 16 bits.
* `osd_msg_process.c:113`: the handler asserts that it has no context, and `osd.c:42` gives it one.
* `osd_create.c:23` (`HalfMadeStays`): a create that failed behind its first call cannot be
  repeated; and as a map update without memory returns `CCEPH_OK` (finding 3), `cceph_osd_create`
  may return `CCEPH_OK` with attributes missing.
* `common/buffer.c:217` (`ReadAborts`): a read of an empty buffer meets an assertion;
  `buffer.h:62` says "If there is no enough content, return CCEPH_ERR_BUFFER_END".
* `common/buffer.c:228` (`EndIsTheEnd`): a reader that has come to the end never sees what is
  appended later.
* `common/osdmap.c:17` and on (`EncodeField`, `DecodeAsk`): the errors of appends and reads are ignored, and
  `CCEPH_OK` returned for a map that was cut.
* `os/mem_store.c:190` (`DoCollCreate`, `ApplyOp`): creating a collection that exists fails, and with it
  the rest of the transaction, which `test/test_os.cc:20-21` demands ("Already Exist",
  `CCEPH_ERR_COLL_ALREADY_EXIST`); `os/transaction.h:43` says "do nothing". `ObjectStore` is on the side of
  the code and the test.
* `os/mem_store.c:573` (`ReadLength`): the 64-bit length of a read is cut to an `int`;
  `os/object_store.h:33` promises the whole content for every length beyond it, and a length beyond 4 GB
  (`2 * IntLimit`) may read less.
* `os/mem_store.c:291` (`DoObjWriteAborts`): the assertion on the offset of a touch, which
  `cceph_os_tran_obj_touch` leaves uninitialised.
* `os/transaction.c:86` (`AppendFails`): the length of the array has grown although its
  allocation failed; the next append takes the path commented "There is still enough space".
  Callers in the repository all give up after a failure.

## Proofs

`ClientProofs` proves for every number of threads, OSDs and writes and both settings of the
duplicate check: `TypeCorrect`, `WaitListExact`, `AcksCountedOnce`, `OkNeedsMajority`,
`FailureIsFinal`, `OkWritesIntersect`, the refinement `Refinement`, and `SingleWriterWakes` for a single
thread. The assumptions are those of `Client`: `OsdCount` and `MaxReq` are naturals and
`CheckDup` a Boolean.

The properties are not inductive: that a returned write has a majority needs that its
counter equals the acks processed, which needs that its entry was listed all along, alone
of its kind, and untouched by other threads. The inductive invariant `IInv` says so: types;
each thread in a call has a request of its own that is pending, drawn from `req_id`; a
thread past `AddReqToWaitList` has exactly one entry, and every entry has a thread; a listed
request's counter is the number of OSDs in `acked`; `success_count` is the size of
`reached` for a thread in its loop; and what the two kinds of result imply about `acked` and
`reached`. The intersection of two majorities is a lemma on finite sets. The refinement has
one step per action: each maps to the action of `QuorumWrite` of the same meaning or to a
stutter.

`ClusterProofs` proves the same kind of facts with the OSDs in: `ClusterHoldsClient` is that
`ClusterSpec` implies the specification of `Client`, with which every theorem of `ClientProofs` holds of
the cluster; then `ClusterTypeCorrect`, `AcksExpected`, `LaterWritesLater`,
`SecondWriteSurvives` and `ClusterRefinement`, for any number of threads, OSDs and writes, and any bad disks. The
inductive invariant `CInv` is `IInv` and four facts about where a write is: a pair of a request and
an OSD is in one place at most of not sent yet, on its way, written, its ack on its way, and
acknowledged (`OnePlace`), which is why an ack is expected; an OSD writes a request once, and
what is past that place is in its log (`WrittenOnce`); and an
entry of `known` is in the log before the write that knows it (`LogOrder`). The refinement
maps the acks of `QuorumWrite` to the logs. `SecondWriteSurvives` adds that a call that began after
a success knows a majority that acknowledged it (`KnownMajority`): it shares an OSD with the
majority of the second write, which has the two in their order. In the refinement
a call succeeds because the OSDs in `acked` are
among those that wrote, and those are a majority.

`MessengerProofs` proves for every number of threads of each kind, of descriptors and of
connections: `TypeCorrect`, `MemorySafe`, `ClosedOnce`, `ListSound`, `WritesApart`,
`DescriptorsManaged`, `EventsKept`, `ReadersApart` and `StopIsOrderly`. The inductive invariant `IInv` says, for every
connection, in whose hands it is: nobody has seen an id that is not given yet (`IdsGiven`) and
a connection has one open descriptor at most (`FdsKnown`); a listed connection is allocated and
its socket open (`Listed`); one that is being added is known to its thread alone (`Adding`); one
whose lock a sender waits for stays listed, because the sender holds the list lock for reading
(`Locking`); one that is written to is kept from its closer by `conn->lock` (`Writing`); and one
off the list belongs to the one thread that took it off (`Closing`). Most actions change the place of
one thread and no connection: the lemma `QuietStep` covers those, and the rest of the proof is
about the dozen that list, unlink, lock, close or free. `ReadersApart` has an invariant of its own, `EpollInv`:
a descriptor number in hand or registered is that of a connection, and
of the one its thread works on (`OwnFd`); the thread that adds a connection is the only one to
register it (`Unregistered`); and, as long as the number was not reused, a worker
that has its event is alone with it while it is disarmed (`EventsApart`). `EventsKept` says nothing of who was there
before, so that it holds with numbers reused. `EventInv` is what it needs: a closed number is not registered (`FreeUnregistered`), as
`close` takes it out of the epoll set; a listed connection is registered or about to be
(`ListedRegistered`); and the number of one that is not listed yet is not, unless it went `stray`
(`NewUnregistered`). `StopIsOrderly` has an invariant
of its own, since `stop` is about workers and the messenger state, not about connections.

`TransactionProofs` proves `TypeCorrect` and, for callers that give up after a failure
(`~KeepsGoing`), `OrderKept`. The invariant behind it is that `op_buffer_length` is what was
allocated unless the last append failed, and after that nothing happens any more until the
transaction is freed. `UserOrderKept` and `UserImplements` carry it to `StoreUser`: what such a user does with its
list is a step of the list, what it submits is what it appended (`BuiltIsAccepted`), and so each of its
behaviours is one of `OsdCreate`, of which the theorems of `StoreProofs` speak.

`SingleWriterWakes` is about an application with one thread, with either setting of the
duplicate check; `client_progress` checks two threads, as `AckedWriteReturns`,
for executions in which the two are never blocked at once, and with the duplicate check on for the oldest
listed write only.

`OsdmapCodecProofs` proves first of the buffer, for nodes of any length, for appends of any bytes and reads of any
length (`BufferSpec`, of which `Spec` is a case), and wherever malloc fails, all that
`osdmap_codec` checks of the buffer: `TypeCorrect`, `ChainExact`, `ReadInOrder`,
`AbortOnlyEmpty`, `FlatIsAll` and `EndMeansEnd`. The invariant `BInv` gives each byte
its place: node `i` begins at byte `Pos(i)` of what was appended, and all nodes but the last are
full (`ChainByPos`); a reader that has not ended stands before a byte, `Pos(rnode) + rptr` bytes
having been read (`ReaderInPlace`), which is why its reads make progress and the assertion at
`buffer.c:217` needs an empty buffer; a call in progress has something left to do, and a copy
that flattens has reached `Pos(node)` (`CallsInProgress`).

It then proves that encoding and decoding are calls of the buffer
(`CodecHoldsBuffer`), with which the theorems above hold of `OsdmapCodec`; and
`RoundTripHolds`, for any maps with at most as many OSDs as the integer can count, next to any
other users. `CodecInv` says what is where: `At(f)` is where the field behind the first `f`
begins, the fields that were sent are in the chain or in the append that runs
(`EncodedSoFar`), the decoder is where the fields it has read end, and its result agrees with them
(`DecodedSoFar`). That it takes the right number of OSDs comes from the count it has read before.
The proof assumes of bytes what the model does: they are bits (`BitsAssumption`), and the values of
a map fit its integers (`MapsAssumption`).

`WireProofs` proves `ReadsWhatWasSent` for any number of threads and messages, any writes and acks
(`MessagesAssumption`) and integers of any width. The property speaks of what was read; the
invariant `WInv` gives every byte on its way its place. `base[i]` bytes were sent before those of
message `i`; byte `p` of the stream is number `Taken(base) + p`, and belongs to the message between whose bases
it lies, at `SizeTo` of the fields before it plus its place in its own (`StreamInPlace`). A message is `Exact` when no
send of it was short unseen: the bytes it has sent are those of the fields it has passed. The
reader stands at the end of what it has taken, in message `Len(received) + 1`, and what it knows of that message
is right (`ReaderInPlace`), so that the next field has the width it waits for
(`WidthIsKnown`), and the bytes that come are those of that field (`NextBytes`), since no other
place has their number (`OnePlace`). At the sending end `LockHeld`, `SuccessIsKnown` and
`FailedIsCut` say that only the last message can be unfinished or have failed, and that one that failed
misses bytes, unless it is a write of no data.

`StoreProofs` proves for any threads, transactions, reads and failing
allocations (`StoreSpec`) `NothingLost` and `NamedOnly`. The invariant `SInv` is that the store is a map of
collections whose maps hold no empty value (`StoreOK`), that only the thread that
has the lock is at an operation, and that what it runs is a transaction (`TransKnown`); the proof looks at
each operation that can fail, and at what each names. `StoreRefines` is the refinement of `ObjectStore`,
where malloc refuses nothing (`MallocMayFail = FALSE`) and what is written and asked for fits an `int` (`WritesFit`,
`ReadsFit`): without the first a map update loses a key, without the second a read returns less than it
should. The store of `ObjectStore` is what the transaction that has the lock will have
made of it, `ApplyFrom` of its remaining operations. That this does not change from operation to operation
unfolds the recursive function from its start, although it runs from its end: `RunExists` and `RunIs`
show that there is such a function and how it goes, by the least number of operations for
which they would not (`Least`).

Of any number of threads that create and use a store it proves
`NothingLostCreating` and `NamedOnlyCreating`, as creating is a use of the store; `OneOsd`; and `HalfMadeForever`. The
invariant `CInv` says that one thread at most is past the operation that makes the
meta collection (`Past`, `OneCreator`) and that the attributes there are its; what is
submitted stays known (`Submitted`). A half made store is `Abandoned`: the collection is there, it lacks
an attribute, and no create is behind its first call (`Behind`), nor can one come there, since the operation
that makes the collection fails from now on; and who is not behind it does not submit an attribute. The assumption `UsersAssumption` is that the other
users leave the meta collection alone.

`RBTreeProofs` proves for any set of keys every property that `rbtree` checks: `HoldsItsKeysAlways`, `RedBlackAlways`,
`WalksAreRightAlways` and `PassesClimbAlways`. None of them is inductive, and none could be stated of a step
as it is, since the walks, the paths and the counts of blacks follow the shape of the tree. The inductive
invariant `TreeInv` (`TreeInvHolds`) says instead that there are

- `sub`, the set of the nodes at and below each node: it is made of the node and the two sets of its children, what
  is in them is on its side, and that of the root is all the keys (`Ordered`). With pointers that go both ways
  (`Pointers`) this is what makes the memory a tree in order;
- `bh`, the number of blacks from each node down: it is one more than that of either child for a black node, and the same
  for a red one (`Balanced`), but for one place that an erase has left one short.

What is wrong with the tree while a call is in progress is the rest: `Inserting` lets the loop's node be red below
a red one or at the root, `Erasing` lets the place of the loop's node be one short, and lets it and those right
below it be red where they should not. `Resting` lets nothing.

A pass of a loop stores up to a dozen pointers and colors. `RotateKeeps` and `PaintKeeps` say once what a rotation and a
painted node do to `Pointers` and `Ordered`: `sub` changes at the two nodes that are turned only. Each branch of the loops is
then one lemma about `bh` and the red nodes: `RecolorInserts`, `InnerTurn` and `OuterTurn` for an insert, `SiblingTurn`,
`FarTurn`, `LastTurn` and `RecolorErases` for an erase. `EraseInner`, which moves the
successor to the place of a node with two children, is proved to do what taking out the successor, a node
with one child at most, and then renaming the erased node to it would do (`SuccessorRenames`), so that `RemoveBalances`
covers it too.

The walks are recursive functions, and induction over the shape of a tree is not available to the provers. For each,
what it finds is stated of `sub` (`EndsAt` for a search, `Utmost` for first and last, `Nearest` of `Beyond` for next and
prev, `Sorted` for the walk from left to right, `Above` for a path). A function made of these results satisfies the equation of the
walk, so that the walk is a function that does; and if it gave anything else at some node, it would at a lowest
one (`Lowest`) or at an uppermost one (`Downwards`), whose children or parent it is right of, which its own
equation excludes. That all ways down count the same blacks (`BlacksCount`) is the same argument from the root.
`PassesClimbAlways` compares the nodes above the loop's node before and after a pass, and shows
that a pass that rotates, or that has turned up a red sibling, is the last.

Model-checked only: liveness, which is outside the proof system (`AckedWriteReturns`, `SomeWriteReturns`,
`WriteToFewServersFails`, `WritesReturnUnlessAcksAreLost`, `StopReturns`, `CallsReturn`,
`WorkersGetFree`, `LockIsReleased`). Every invariant the runs check is a theorem.

## Plan

What is left to prove is what the proofs assume of the parts they do not meet: that the finite functions of
`MemStore` are the maps of `RBTree`, as a refinement of one by the other, and that calls of `cceph_os_map_update` on trees are
those on functions. What is left to model are `cceph_rb_replace_node`, the string codec and the
start of the messenger with its failures, should they come to be used.

## Not modelled

Logging, options, error strings and `ascii.h` keep no state a property could be about.
`pg.c` has a constructor and a destructor that nothing uses. The main program and
`cceph_osd_initial` run once, before there is anything to interleave with. The OSD's write path
does not use the object store yet, so `Cluster` and `MemStore` do not meet.
