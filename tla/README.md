# hev-lib in TLA+

hev-lib is a small C library: an event loop over edge triggered epoll, the
event sources it drives, a ring buffer, a queue between threads, a hash table,
lists and two memory allocators, with demo programs (an echo server, a TCP
splicer). This directory models the parts whose correctness depends on the
order of things, checks them with TLC on small instances, and proves the main
invariants with TLAPS for every size.

Paths below are those of the repository (`src/` is the library, `demos/` the
programs). `PROJECT.json` lists the runs, the mutants, the hazards, the
theorems, and for every definition the lines of C it models.

## 1. Inventory

| Component | State | Operations | What is hard | What makes it correct |
|---|---|---|---|---|
| Event loop (`hev-event-loop.c`) | `run`, `sources`, `fd_list` (sorted by priority), an epoll instance, a reference count | new, ref, unref, run, quit, add_source, del_source | events reported once; callbacks that change everything the loop stands on; one dispatch per turn | no event lost, no sleep on work, the queue and its head stay valid, the kernel holds no dangling pointer |
| Event sources (`hev-event-source*.c`) | reference count, loop pointer, priority, list of descriptor objects; a timerfd, eventfd or signalfd | new, ref, unref, set_priority, add_fd, del_fd; prepare, check, dispatch, finalize | lifetime shared by program and loop; rearming; a refused `epoll_ctl`; a list pointer read from a freed node | counts exact, nothing leaked, timers and idle sources never forgotten |
| Descriptor objects (`hev-event-source-fd.h`) | descriptor, `revents`, dispatched mark, source, reference count | new, ref, unref, dispatch, dispatch_finish, clear_source | shared by source and `fd_list`, may outlive its source | freed exactly once, after both let go |
| Ring buffer (`hev-ring-buffer.c`) | cells, read and write position, `full` | writing / write_finish, reading / read_finish, reset | two-phase calls interleave; full and empty look alike; wrapped data | a bounded FIFO |
| Async queue (`hev-async-queue.c` over `hev-queue.c`) | list, mutex, condition variable, `waiting_threads`, reference count | new, ref, unref, push, pop | lost wakeups, spurious wakeups, steals, NULL items | exact counts, no lost wakeup, progress |
| Hash table (`hev-hash-table.c`) | open addressing with tombstones, occupancy counters, keys and values that may share one array | insert, replace, add, remove, steal, foreach and all forms | probes that must end, resizing both ways, ownership of equal keys | a map that owns what it keeps |
| Lists (`hev-slist.c`, `hev-list.c`), queue | nodes linked one way or both ways, each a block of the default allocator | append, prepend, insert, remove, remove_all, remove_next, set_data, free | links at either end; use of a freed node in `remove_next` | sequences; links that are inverse; nodes owned by one list |
| Allocators (`hev-memory-allocator*.c`) | default allocator; free lists per size with a common bound; a header in front of each block | new, ref, unref, alloc, free, set_default | change of the default while blocks live; the bound; threads | no block lost or given out twice, each back to a list of its size; the count exact, the bound kept |
| Demo servers (`demos/echo-server.c`, `demos/splicer.c`) | clients or sessions in a list, ring buffers, the remembered events of a session | handlers on the loop: accept, relay, timeout, signal | edge triggered sockets against full and empty rings; a session's two descriptors; removal in handlers and by the timer | no byte stuck, connections released once, silent ones in the end |
| Other demos | one or two sources, one object | handlers that print | - | the calls they make are those of the loop |
| Build files | none | - | - | no behaviour |

How they interact: the loop calls a source's `prepare`, `check` and `dispatch`;
`dispatch` calls the user's callback, which may call any public function of the
loop and of the sources; sources call back into the loop to watch or forget a
descriptor; `fd_list` and the kernel share the descriptor objects. The servers put
a ring buffer between two descriptors. The async queue wraps a queue, which
wraps a list. Everything is allocated by the default allocator.

## 2. Modules

| Module | Models |
|---|---|
| `EventLoop` | event loop, sources of the four kinds, descriptor objects, the epoll instance |
| `EventLoopLive` | `EventLoop` under fair scheduling, with a program that sets up and runs |
| `EventLoopProofs` | theorems about `EventLoop`: counts, queue, kernel pointers |
| `EventLoopWorkProofs` | theorems about `EventLoop`: what it owes to its sources |
| `BoundedFifo` | abstract: what the ring buffer promises |
| `RingBuffer` | the ring buffer with its producer and consumer; implements `BoundedFifo` |
| `RingBufferProofs` | theorems about `RingBuffer`, the refinement included |
| `AsyncQueue` | the queue between threads |
| `AsyncQueueProofs` | theorems about `AsyncQueue` |
| `Dictionary` | abstract: a map that owns its keys and, optionally, its values |
| `HashTable` | the hash table; implements `Dictionary` |
| `HashTableProofs` | theorems about `HashTable`, the refinement included |
| `SliceAllocator` | the default allocator, the plain and the slice allocators |
| `SliceAllocatorProofs` | theorems about `SliceAllocator` |
| `Nodes` | what both kinds of lists need of the allocator and of chains |
| `SList`, `List` | the lists, node by node, and the queue over `SList` |
| `Memory` | composition: a program with a list of each kind over changing allocators |
| `MemoryProofs` | theorems about `Memory`: both lists, and the allocators under them |
| `Connections` | what the servers share: sockets, the queue of the loop, the connection list, read_data and write_data |
| `Splicer`, `EchoServer` | the handlers of the two servers |
| `Servers` | composition: either server, the kernel, the peers and the loop |
| `ServersProofs` | theorems about `Servers` |
| `MC...` | instances for TLC; the `.cfg` files give the constants |

`BoundedFifo` and `Dictionary` state promises and model no code.

### EventLoop

The library is single threaded, so one variable, `pc`, says who runs: the
program outside `hev_event_loop_run` (`"user"`), the loop waiting, queueing or
dispatching, or a callback (`"callback"`). Every public function is one action,
enabled in `"user"` and in `"callback"`; so a callback may call any of them, any
number of times, before it returns. `"freed"` is the state after the last
`hev_event_loop_unref`.

| Variable | Code |
|---|---|
| `src[s]` | the fields `ref_count`, `loop`, `priority`, `fds` of `struct _HevEventSource`; `fds` is the list of objects, the newest first; `wild` (not in the code) says that its pointer was read from a freed node and is garbage |
| `efd[d]` | `struct _HevEventSourceFD`; `d` is a heap cell, used again once freed |
| `uref[s]` | references on `s` the program holds (not in the code) |
| `run`, `sources`, `fd_list`, `lref` | `struct _HevEventLoop` |
| `timeout`, `batch`, `cur` | locals: the timeout of `epoll_wait`, the events it returned and the loop has not yet queued, the entry being dispatched |
| `level`, `edge`, `reg`, `armed` | the kernel: what `poll` would report, the ready list of the epoll instance, the `data.ptr` it holds, running timers |

epoll is edge triggered: an event puts a watched descriptor on the ready list
(`Happens`), `epoll_wait` takes it off (`EpollWait`), and nothing reports it
again. Closing a descriptor makes the kernel forget it. The return of a callback
models the whole tail of `dispatch_events`: `prepare`, the removal of a source
whose callback returned false, and whether the entry stays the head.

`_hev_event_source_set_loop (source, NULL)` has no effect in the code, so
`src[s].loop` is never reset by `DeleteSource`. That is the root of two of the
findings below.

Assumptions on the program: a descriptor belongs to one source; timeout, idle
and signal sources watch only their own descriptor; no nested
`hev_event_loop_run` and no release of the loop inside a callback; after the
loop is freed the program only creates sources and takes or drops references; a
pointer is used only while the program holds a reference, or while it knows the
loop does (as the demos do). Memory is never exhausted. Three constants open
behaviours the other runs exclude: `AfterRemoval` (calls on a source that
already left the loop), `LatePriority` (priorities changed while queued),
`MayRefuse` (the kernel may refuse a watch). Dispatching the descriptors still
queued of a removed source is not one of these calls: it happens in every run.

Two paths leave a list pointer of a source in a state the code does not define.

* `hev_event_source_add_fd` frees a refused object but keeps it on the list
  (`hev-event-source.c:141-144`), in every case.
* `hev_event_source_del_fd` of the newest descriptor of a source calls
  `hev_slist_remove_next (self->fds, NULL)` (`hev-event-source.c:167`), which
  frees the head node and then reads `next` from it (`hev-slist.c:192-193`). A
  slice allocator keeps that word, so the list is what it should be; with the
  plain default allocator the block is back in malloc and the word may be
  anything. `DelFd` has both outcomes, `overwritten` or not, whenever the object
  is the first of the list; of any other object the removal is always clean.

The guard `Intact` of `Next` ends the behaviour in the state after either: the
calls the code makes in the same step (the kernel is told, the object loses its
source and a reference) still happen, and nothing is claimed of what a later walk
of the list does. So every result about `EventLoop`, checked or proved, says what
holds as long as the lists of the sources are intact, and up to and including the
step that breaks one. Under a slice allocator, and for a program that does not
have a watch refused, that is always.

### RingBuffer

Positions, `full` and the iovecs are those of the code. `ReadIov` and `WriteIov`
are the case distinctions of reading and writing. The finish functions have the
same cases written out once more; what they do to a position is `Advanced`, and
`WriteAssertion` and `ReadAssertion` are their assertions. `Fill` and `Copy` are
the `recvmsg` and `sendmsg` of the demos. Both sides interleave freely. The
reference count is left out. `Reset` is allowed only between the phases: the
header gives it no meaning inside one.

### AsyncQueue

The mutex is held from the start of every call to its end or to
`pthread_cond_wait`, so a call is one step (`Push`, `Ref`, `Unref`) or a step up
to the wait (`Pop`) and one per wakeup (`Resume`). Wakeups may be spurious.
Every thread holds at most one reference, and calls only with one. `MaxLen`
bounds what the program queues. Items may be NULL: `pop` throws a NULL it finds
away and goes to sleep, although the signal that announced it may have been the
one for an item behind it. `skipped` (not in the code) says that such items are
in the queue: it becomes TRUE when a `pop` drops a NULL and goes to sleep beside
what was behind it, and FALSE when the queue is empty again. The two properties
about wakeups make an exception for these items only, and hold again afterwards.

### HashTable

A call is one step. `LookupNode` is the probe loop as a search over the probe
sequence; `ProbesEnd` says that the search ends, which the loop of the code
needs. `MinShift` is `HASH_TABLE_MIN_SHIFT`, 3 in the code and 2 in the run, so
that four keys fill a table. The size is an `int`, so `MaxShift` is 30 and a
program has fewer than 2^29 different keys. A resize is one recursive function
over the buckets of the old table (`Moves`). `destroys` says whether a `value_destroy_notify` is set; keys always have a notification. The
program hands over pointers the table does not own yet; sets
(`hev_hash_table_add`) have no `value_destroy_notify`, as each entry would be
destroyed twice; callbacks do not call the table back.

### SliceAllocator

`heap` is one record: the lists of every slice allocator (`cached`), its
`cached_count` (`count`, an `unsigned int`, modulo `Width`), the list that the
header of a block names (`owner`), and the blocks malloc gave out (`taken`).
`live[b]` is the size the program asked for while it has block `b`. A block
returned to malloc may be given out again, so addresses are used over and over.
`Freed` and `Allocated` are the bodies of free and alloc as functions of the
heap, because the lists call them several times in one step. The free of a slice
allocator files the block under the list in its header but counts it in the
allocator it was called on; `mixed` (not in the code) remembers that a block
went through an allocator that had not made it, and `CachedExact` is stated
until then: from there on the count may wrap, and the bound is not kept, while
`NothingLost` and `GoesBack` still hold.

Assumptions on the program: it changes between the plain allocator and a slice
allocator only while no block is in use, as the header in front of a block is
missing or in the way otherwise; it drops the last reference to an allocator
only when it is not the default and no block in use names one of its lists.
malloc always has memory.

### SList, List and Memory

The lists are modelled pointer by pointer: `snode` and `lnode` map blocks to
nodes. A call looks for its place along the chain as it is (`Walk`), and then
links and frees nodes through the allocator. A call that removes goes over the
chain node by node (`SScan`, `LScan`), on pointers it changes on the way.
`SListIsSequence` and `ListIsSequence` say of each call what it does to the
sequence of the data. `hev_slist_remove_next` with a NULL
sibling reads the head it has just freed (`hev-slist.c:192-193`): a block that
went into a free list still holds the pointer, one that went back to malloc may
hold anything, and the list is then `Wild` and not used any more. `Memory` is a
program with a list of each kind and other blocks besides, that changes its
allocators meanwhile; `NodesOwned` says that nodes and chains are the same.

### Servers

Of the bytes only their number counts: that a ring keeps their order is what
`RingBuffer` shows. A socket is what the peer did, the bytes that wait in it
either way, and whether a writer found no room, which is when the kernel wakes
it again. `ReadData` and `WriteData` are `read_data` and `write_data` with their
answers: a number of bytes, -1 with EAGAIN, -2 when the ring leaves nothing to
do, or an error. A handler is one step, as the program has one thread and its
sockets do not block; the steps of the peers come between handlers. The
splicer's handler is its four calls in the order of the code, each on what the
one before left (`Call`, `Answered`); `want` is `session->revents`.

The loop is taken from `EventLoop` in a coarser form: a queue sorted by
priority, whose head is called until its events are used up. Two things are
folded: an entry whose source is gone takes one turn without effect in the code
and leaves at once here, and the timer's entry leaves with the callback and not
one turn later. A server accepts only while there is memory for the connection;
an `accept` that fails for want of descriptors would keep its event, and the
listener, of a higher priority than the clients, would spin (`echo-server.c:180`).
`Quit` is the signal handler and the end of `main`. Both servers end a
connection with `hev_event_source_del_fd` (`echo-server.c:52`,
`splicer.c:73,77`), often of the newest descriptor of a source, and set no
allocator: `Servers` assumes that the lists of the sources stay intact (see
`EventLoop`), that is, that a freed node keeps its `next`.

The echo server keeps an `EPOLLOUT` while bytes wait in the ring, also when the
socket takes none: `Spins` is such a call without effect.

## 3. Runs

| Run | Bounds | Shows |
|---|---|---|
| `loop_timers` | a descriptor source and a timeout source, 2 descriptors, 3 heap cells, 2 priorities, 1 reference each | exact counts, queue order, rearming, no leak |
| `loop_fds` | 1 source, 2 descriptors, 3 cells, 2 references, 1 event per wait, refusals | the queue, kernel pointers, no lost readiness |
| `loop_owners` | a timeout, an idle and a signal source, 1 event per wait, refusals | no lost event, rearming of timers and of idle sources, no sleep on work |
| `loop_live` | 2 descriptors and an idle source, 2 arrivals | every ready descriptor and every idle source is served |
| `ring_buffer` | 4 cells, 2 byte values | bounded FIFO, assertions, no overwriting |
| `async_queue` | 4 threads, one item and NULL, 3 queued | counts, no lost wakeup, progress |
| `hash_table` | 4 keys (two with one full hash, one more with their first bucket), 5 key pointers, 2 values | searches end and find, counts, a map with ownership |
| `memory` | 3 blocks, 2 slice allocators, the sizes of the two kinds of nodes and a big one, at most 2 cached, counts modulo 4, 2 references, 2 data | no block lost, the count exact, links inverse, lists are sequences |
| `servers` | echo server with 2 clients, or splicer with 1 session; 1 byte in a receive and in a send buffer, rings of 1 and 2 bytes, 1 connection waiting | no stall, connections listed once, bytes move, silent connections end |
| `loop_twice`, `loop_removed`, `loop_priority` | one or two sources, 2 descriptors | the findings |

Why the bounds are enough. Two descriptors of one source are what it takes to
remove the other one's entry, or one's own, inside a callback; three cells let a
descriptor be added again while its old object is still queued. With one event
per wait (`MaxEvents`, 256 in the code) events stay on the kernel's list while
others are dispatched. Four cells of the ring reach every pair of positions,
equal ones with and without `full`, with data that wraps. Three waiting threads
and one that pushes or steals cover a signal that meets a thread that was woken
but has not run. The hash table grows from 4 to 8 and 16 buckets, shrinks, and
fills up with tombstones. Three blocks make a list with two ends and a middle,
or fill a free list beyond its limit of two; with two slice allocators a block
comes to be freed through the other one and the count to wrap. In the servers
one byte fills a socket and the echo server's ring, so every call meets full,
empty and broken ends; the splicer's ring of two can also be half full; two
clients are what it takes for one to hold up another, and one session already
has two descriptors and two directions. Descriptor objects, blocks, slice
allocators and data are symmetric, and TLC uses that in runs without liveness
(none of the properties of `memory` is a liveness property).

`CHECK_DEADLOCK FALSE` is set for the event loop, where a freed loop and the
undefined states above are ends, for the async queue, where all threads may
sleep or the queue be freed, for `memory`, where a program may hold all the
memory and have lost its list, and for the servers, which `Quit` ends.

Every property of a passing run has a mutant in `PROJECT.json`: a change of the
model a plausible bug would make, defined next to the original (`KeptSource`,
`FinishAndBlock`, ...), that TLC finds to violate the property.

### Findings

* `loop_twice`: a callback that removes its own source with
  `hev_event_loop_del_source` and then returns false has it removed twice, and
  the second removal drops a reference the program holds. The guard
  `source->loop != self` was meant to refuse it but the pointer is never reset.
* `loop_removed`: descriptors still queued when their source is removed from
  the loop are called back, for the same reason.
* `loop_priority`: `hev_event_source_set_priority` does not move the entries
  already queued, so the head is not always of the highest priority, as the
  comments of the loop say.

### Fairness

`EventLoopLive`: the steps of the loop are weakly fair because it is a
sequential program that nothing stops; a callback returns (weak fairness of
`ReturnTrue`), and one that is called again and again reads its descriptor
(strong fairness of `ReadFd`: between two calls the action is not enabled),
which all demos do in every call. No fairness is assumed of the world or of the
program outside callbacks. Arrivals are bounded (`MaxArrivals`): the loop
dispatches the head of `fd_list` until it runs dry, so a descriptor that never
runs dry starves the others by design.

`AsyncQueue`: a woken thread gets the mutex in the end (weak fairness of
`Resume`). Nobody has to push, pop or unref.

`Servers`: the loop is one thread that waits and calls the handler of its head
(weak fairness of `Wait` and of `ServerStep`; the latter is written out with its
enabling condition, that the head has a handler that changes something). Peers,
timer and signal are under no fairness. `BytesMove` has the premise that every
peer reads what it was sent: the echo server calls the handler of a client that
does not read again and again, and starves the clients behind it meanwhile.
`IdleEnds` has the premise that the timer expires again and again; the timer of
the splicer has the lowest priority, so several busy sessions may keep it
waiting, and the run has one.

## 4. Proofs

All proofs are checked by `tlapm` for every value of the constants.

**EventLoopProofs** assumes `AfterRemoval = {}`: the program leaves alone a
source it took out of the loop; `loop_twice` shows that this is needed. The
type invariant and the three named invariants `CountsExact`, `QueueExact`,
`KernelPointers` are not inductive even together. `IInv` adds `FreedClean` (a
freed cell holds nothing, so that a cell used again starts clean), `Linked`
(`source->fds` and `fd->source` are inverse, so that freeing a source finds its
objects) and `InLoop` (the loop pointer of a member or of a queued object's
source is set, so that `DelFd` tells the kernel). The type invariant says that a
source's list holds no object twice, so that taking one place out of it removes
that object and no other (`ListAdds`, `ListLoses`). All of it is shown of steps
from a state where the lists are `Intact`, as `Next` demands. Each action has a lemma; what
several share is stated once: `ReleasedFacts` (dropping references in the heap),
`InsertFacts` (sorted insertion keeps the queue a permutation), `FinishInv` (the
end of `dispatch_events`), `RemovalInv` (a source leaving). `ReferencesHold`
follows from `CountsExact`.

**EventLoopWorkProofs** goes on under the same assumption. What the loop owes to
its sources is stated with `epoll_wait` in mind, so its invariant `WInv` needs
to know when nothing is queued and who watches what: `IInv`, `NoLostReadiness`
and `Rearmed`, with `Wired` (a timeout, idle or signal source watches its own
descriptor and no other, so that an event of a timer is its owner's), `Drained`
(`fd_list` is empty before the first wait, when the loop sleeps and after it is
freed) and `TimersOwned` (a running timer has a living owner). `Objects` says of
every step that a descriptor object keeps its source and descriptor, or is made
out of a free cell, or loses its source; `NoLostReadiness` and `Rearmed` are then
shown per object, action by action. `NeverSleepsOnWork` and `NoLeak` follow from
`WInv`. `HighestFirst` needs `LatePriority = FALSE` as well (`loop_priority`
shows why): entries keep their source's priority while they are queued
(`EntriesKeep`), and sorted insertion keeps the order, as `MaxPrio` bounds every
priority (`PriorityAssumption`; the code's is an `int`).

**RingBufferProofs**: `RInv` describes every position by one number, `Count`,
the bytes in the ring, and one function, `Cell`, the cell of the i-th of them;
`WriterView` and `ReaderView` say that an iovec handed out earlier is still a
prefix of what could be handed out now. From it follow the size equation, the
assertions, `WriterApart`, and by a mapping of `Content` the refinement
`RingIsFifo`: each action is a step of `BoundedFifo` or a stutter.

**AsyncQueueProofs**: `QInv`, the types, `WaitingExact` and what is needed to
count references (`RefsHeld`: threads inside `pop` hold one), is inductive for
any number of threads; `WakeupsKept` proves `NoLostWakeup` on top of it.

**SliceAllocatorProofs** is about `AllocatorSpec`, a program that calls alloc
and free one at a time, for any set of blocks, sizes and slice allocators and
any limit. The four invariants are inductive together with `DefaultExists` (the
default allocator was not freed). A lemma says what each operation leaves of a
heap (`ReturnedParts`, `FreshParts`, `PoppedParts`, ...), one what `unsigned`
arithmetic does within the bound (`CountSteps`), and the others follow the
actions. A list call frees several blocks in one step, so what free preserves is
said of any heap and any blocks in use (`HeapOK`), not of two states.

**MemoryProofs** is about `MemorySpec`: the same program with a list of each
kind, for any number of blocks. `NodesOwned` and `LinksInverse` are not
inductive: they do not say in which order the pointers lead through the nodes,
and an insert or a removal changes two pointers that only together keep the
chain. The invariant `MInv` is that of the allocators with `SInv` and `LInv`:
the chain that is reached from the program's pointer visits each node of the
list once, following `next` (and `prev` backwards), ends with Null, every node
is a block in use of the size of its kind, and the program's pointer into the
doubly linked list is on the chain. Once the head of a freed block was read
(`Wild`) nothing is claimed of the singly linked chain but that its blocks are
still counted as in use. `Walk` is a recursive function, so each lemma about a
call names the sequence the chain must be afterwards, shows that it is linked,
and that a walk has no choice (`IsChain`, `SChainNext`). The loops that remove
are followed node by node: `Progress` says, of the part of the chain already
seen, which nodes are gone, that the rest is linked, and that what it holds is
`Without` the datum, or has lost one. The frees of one call are followed by the
allocator's `HeapOK`. From `MInv` follow the four properties of the lists;
the four of the allocators hold under the lists as they do alone.

**HashTableProofs** shows first that the probes see every bucket
(`ProbeFacts`): two probes at `m < n` meet in one bucket only if the size
divides `(n - m)(n + m + 1) / 2`; one of the factors is odd, the size is a power
of two and the other factor is too small (`OddFactor`, `ProbesDiffer`), and as
many different probes as buckets leave none out. So a search ends when a bucket
is unused, and finds the key if it is stored (`SearchEnds`, `LookupFound`). The
invariant `HInv` says that, between calls, both counters are exact, a bucket is
unused, a key is stored at most once and where a search for it leads, and the
pointers owned are those of the entries. A resize is followed bucket by bucket:
`ResizeFacts` says of every prefix of `Moves` that the new table holds the
entries of the buckets moved so far, in room that was chosen for all of them
(`ShiftFacts`). `ImplementsDictionary` follows with the map of `Dictionary`
read off the buckets.

The library's induction theorems cannot be used, but induction over a recursive
function on `0..N` can be had without them: a set of naturals that misses 0 and
contains `n - 1` with every `n` is empty, as it has no least element (`Least`,
`Upwards`).

**ServersProofs** is about either server with any finite sets of clients and
sessions and any sizes of rings and buffers. epoll reports an edge once, so the
invariant `IInv` follows every edge until its bytes have moved: it is still to be
reported (`edge`), or in the `revents` of a queued object, or remembered in
`session->revents`, or the kernel will make it, as it knows of a writer that
found no room (`nospace`). For the splicer `FlowOK` says this of each of the two
directions by itself. What makes it inductive is the order of the handler's four
calls, the write that empties a ring before the read that fills it: a session
that remembers `EPOLLIN` beyond its reported event has bytes in that ring, and
when it remembers `EPOLLOUT` too, the other descriptor is in the queue to carry
them on. `Put` and `Got` say what one call can do, `SameIn` and `SameOut` what it
leaves of the other direction, and `FlowStep` takes a direction through all four.
`EchoOK` is the simple case of one descriptor and no memory. `SockOK` (a reset is
always reported, a closed socket leaves nothing behind) and `ConnOK` (which
sockets a connection has) tie the sockets to `ListedOnce`. A handler changes one
connection; `ApartFacts` keeps the others, `FreeStep` ends any set of them and
`AcceptedStep` begins one.

Model-checked only: the liveness properties `ReadyServed` and `IdleRuns` of
`EventLoopLive`, `NeverStuck` of `AsyncQueue`, `BytesMove` and `IdleEnds` of
`Servers`, which need fairness and ENABLED. Every invariant and action property
of a passing run is a theorem.

## 5. Not modelled

* Exhausted memory: malloc, `epoll_create` and the creation of a timerfd,
  eventfd or signalfd never fail; nor does `epoll_wait`, except for EINTR, nor
  `accept`, except for EAGAIN.
* Names, callback data and its notification: they have no effect on the loop.
* The reference counts of the ring buffer, the hash table and `hev-queue.c`,
  which are all of the pattern that is modelled for sources and for the async
  queue.
* The walks of the hash table and of the lists that change nothing, and the hash
  functions: the model takes the hash of every key as a constant.
* Data in a ring when a connection ends: both servers drop it, and the model
  only counts bytes of connections that live.
* `demos/object.c`, which counts references on an object of its own, and the
  build files.

Each hazard of `PROJECT.json` without a property says why.

## 6. Plan

Done: all parts of the plan that led here. `EventLoop`, `RingBuffer`,
`AsyncQueue`, `HashTable`, then `SliceAllocator` with the lists and `Memory`,
then the servers; theorems for `EventLoop` (all its safety invariants),
`RingBuffer` and `HashTable` (both with their refinements), `AsyncQueue`,
`SliceAllocator`, `Memory` with its lists, and `Servers` (all its safety
invariants).

What could still be added: a refinement of the servers' queue by `EventLoop`;
the async queue over the list of `SList` instead of a sequence; several sessions
of the splicer with the timer at a priority of its own.
