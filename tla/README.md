# TLA+ models of Socket::Class

Socket::Class is a Perl extension written in C: socket objects for Perl
programs, usable from several Perl threads at once, and `Socket::Class::SSL` on
top of it. This directory holds TLA+ modules of its core logic, the TLC
configurations that check them, and TLAPS proofs about them. Paths below are
relative to `src/`.

## 1. Inventory

| component | files | state it keeps | operations |
|---|---|---|---|
| registry | `socket_class.h`, `socket_class.c:5-97`, `sc_mod_def.c:4-30,286-351`, `Class.xs:10-185` | `sc_global`: 32 chains of `socket_class_t`, id counter, mutex, `destroyed`; per socket `id`, `refcnt`, `thread_id`, `do_clone` | `new`, `accept` (register), search at the start of every method, `free`, `DESTROY`, `CLONE`, `END` |
| endpoint | `sc_mod_def.c:4-291,353-769,1727-1956` | `sock`, `state`, `non_blocking`, `timeout`, `l_addr`, `r_addr`, `last_errno` | create, connect, reconnect, bind, listen, accept, send/recv families, shutdown, close, set_blocking, set_timeout, select, is_readable, is_writable |
| stream readers | `sc_mod_def.c:771-790,896-1113` | `buffer`, `buffer_len`; the kernel's receive queue | `readline`, `read_packet`, `writeln`, `available` |
| Perl calling layer | `Class.xs`, `Class.pm` | none of its own | argument conversion, slices of `write`, `reconnect` |
| addresses and names | `socket_class.c:151-398`, `sc_mod_def.c:1115-1725`, `Bluetooth.xs`, `sc_bluez.c`, `sc_ws2bth.c` | none | packing, unpacking, name lookup, formatting |
| constants | `xs/sc_const` | none | export of constants |
| SSL streams | `xs/sc_ssl/sc_ssl_mod_def.c:5-722,787-834`, `SSL.xs` | `ssl`, peek buffer `rcvbuf`, context of the socket | connect, accept, recv, readline, read_packet, available, send, write, writeline, print, shutdown, starttls |
| SSL contexts | `xs/sc_ssl/sc_ssl_mod_def.c:852-1416`, `SSL.xs` | list of contexts, their `refcnt` | create, share (`use_ctx`), set arguments, destroy, CLONE, END |
| OpenSSL | `xs/sc_ssl/openssl` | record buffers `rrec`, `wbuf`, `wnum`, `wpend_*`; the thread's error queue | vendored; `SSL_read`, `SSL_write`, `SSL_pending`, `SSL_get_error` are what the SSL layer rests on |

How they interact. A Perl object holds a number. Every method searches the
registry for that number under the global mutex, releases the mutex, and only
then works on the socket: the endpoint, the readers and the SSL layer run
without any lock, on a pointer that another thread may be freeing. Perl copies
objects into new threads; `CLONE` (called in the creating thread) and `DESTROY`
(called in each interpreter) keep a reference count meant to say when the
socket may go. SSL hooks itself into a socket as `user_data` with a destructor
the registry calls when it frees the socket. The kernel's side (connection
state, receive queue, what is pending on a descriptor) changes between any two
system calls.

What is hard: unlocked work between two locked sections; reference counts
spread over interpreters; freed addresses that come back; calls of other threads
and global destruction after `END`; a connect whose parts fail one by one and
leave `state`, the descriptor, the kernel's blocking flag and the stored timeout
to be brought back into step; peek-then-consume reads while data keep arriving;
three queues in a row (kernel, OpenSSL's record, `rcvbuf`) of which each method
looks into another one; a write that would block and has to be repeated exactly;
contexts counted without the mutex that protects their list; files of AF_UNIX
paths that outlive their socket or are removed under it.

What makes each component correct:

* registry: no use or free of freed memory; a call works on the socket its
  object names; nothing allocated is lost; the reference count equals the number
  of interpreters that hold the socket; the mutex is always given back;
* endpoint: `state` and the descriptor agree; errors are sticky where documented;
  the kernel's blocking mode is the one the object reports; an operation that
  fails leaves the socket usable for a retry; the path of an AF_UNIX socket leads
  to it;
* readers: no byte of the stream is lost, duplicated or attributed to the wrong
  line;
* SSL: the peek buffer, OpenSSL's record and the kernel are together one stream;
  a text that is reported as written is handed over once, whole and in order; a
  context lives as long as a socket or an object uses it, and no longer.

## 2. Plan

| step | modules | state |
|---|---|---|
| 1 | `Registry`, abstract `HandleTable`, refinement, proofs | done |
| 2 | `Endpoint`: the life of one stream socket against a kernel and a peer; AF_UNIX paths; the end of a forked child; proofs | done |
| 3 | `LineScan`, `LineReader`: readline and read_packet, peek and take against an arriving stream; proofs | done |
| 4 | `SslStream` refining `ByteStream`, `SslWriter`, `SslReader`, `SslContext`; proofs | done |
| 5 | numeric conversions: timeouts, the width of `counter`, the slices of `write`, as operators against reference definitions | left out: see section 6 |
| 6 | chains as linked lists refining the sets of `Registry`; `Registry` composed with the bodies of `Endpoint`'s calls; `SslSession`, the SSL state of a socket through connect, accept, starttls and close | left out: see section 6 |

Which module composes which: `Registry` instances `HandleTable`, and
`SslStream` instances `ByteStream`, as what they implement. `LineScan` is the
code `readline` and `read_packet` have twice, once over `recv` and once over
`SSL_read`: `LineReader` and `SslReader` both extend it. `SslWriter` and
`SslStream` are the two directions of one connection and share nothing but the
lock-step of the calls.

## 3. Modules

### Registry

`Registry.tla` models what several Perl threads do to `sc_global`. Variables
`counter`, `chain`, `destroyed`, `lock`, `mutexUp` are the shared structure;
`heap`, `sid`, `refcnt`, `owner`, `doClone` the blocks of the C heap (a freed
block keeps its contents and its address may be handed out again); `handles` the
numbers the live Perl objects of each interpreter hold; `pc`, `op`, `hnd`, `ptr`,
`tmp`, `todo`, `kid` the C locals of a call.

| code | actions |
|---|---|
| `mod_sc_create` / `mod_sc_accept`: Newxz, error labels | `NewAlloc`, `NewFail` |
| `socket_class_add` | `NewLock`, `NewInsert` |
| `mod_sc_create_class`; its failure in `new` | `NewBless`, `NewReject` |
| `socket_class_find` | `FindRefused`, `FindEnter`, `FindLock`, `FindMiss`, `FindHit` |
| body of any other method | `UseSocket` |
| `DESTROY`, `mod_sc_refcnt_dec` | `DropFlag`, `DecRead`, `DecWrite`, `DecKeep`, `DecLast` |
| `socket_class_rem`, `socket_class_free` | `RemLock`, `RemUnlink`, `RemFree` |
| `threads->create` and `CLONE` | `Spawn`, `CloneLock`, `ClonePick`, `CloneSkip`, `CloneWrite`, `CloneDone` |
| end of a thread, `END` | `Exit`, `EndEnter`, `EndLock`, `EndFree` |

One step is one access to shared memory outside the mutex, or one locked
section. `refcnt --` and `refcnt ++` are a load and a store; the test
`refcnt <= 0` may use the register or read the field again, as a compiler may.
Under the mutex nothing else runs except the unlocked halves of other calls, so
`CLONE`, whose counting meets those, is modelled visit by visit. A chain is the
set of its blocks: the code searches by number and unlinks by address, so the
order in a chain is never observed. `EndFree` is one step because no other
thread's access to a linked block can be told apart from one before or after it
(a call in flight is recorded as a fault when it next touches the block).

A use of freed memory sets `fault`; the behaviour then goes on with the block's
old contents.

Nothing in the code keeps two threads from working on one socket, or `END` from
running beside them, so the model allows every overlap. Three history variables,
which no guard reads, say what has happened:

* `raced`: a socket was unlinked while a call of another thread worked on its
  pointer, `END` destroyed the mutex while a call was under way, or a call that
  creates a socket or a thread began after it;
* `miscounted`: a `refcnt` was stored over one that another thread had changed
  since it was loaded, or `CLONE` counted a socket of which the new thread gets no
  object, or did not count one of which it does;
* `freed`: the numbers `free()` found a socket for.

The first two name what the code leaves open: pointers used after the mutex is
released, and counts kept without it or for the wrong threads. The invariants say that
the registry goes wrong through nothing else: they hold up to the first of them, also
while calls on one socket overlap. That it does happen, `registry_use_after_free` and
`registry_clone_leak` show.

`HandleTable.tla` is what the registry promises without blocks, chains, counts
or a mutex: numbers are issued once; a call that asks for a live number gets
that socket and no other; one that asks for a retired number gets nothing.
`Registry` implements it (`ImplementsTable`): `live` is the set of registered
numbers, a call `want`s a number while it searches and has `held` it while it
works on the pointer, and callers that retire a socket beside another's call have
`broken` the table. The refinement says that until then the search and the later,
unlocked use of the pointer are together as good as one atomic operation, with any
number of calls holding one socket.

### Endpoint

`Endpoint.tla` models one stream socket: the record a `Socket::Class` object
points to, its descriptor in the kernel, and the peer. Calls on one object do not
overlap (what happens if they do is the registry's subject); between two calls,
and while connect waits, the world moves.

| code | variable |
|---|---|
| `sc->sock`, `state`, `non_blocking`, `timeout`, `l_addr`, `r_addr`, `last_errno` | `sock`, `state`, `nonBlocking`, `timeout`, `laddr`, `raddr`, `errno` |
| the kernel's sockets: state of the connection, `O_NONBLOCK`, peer, data waiting | `kern` |
| descriptors a failed `new` leaves open; those of accepted objects | `left`, `others` |
| the AF_UNIX name of a descriptor; who made the file at a path | `named`, `files` |
| the length of `l_addr` after `getsockname` on an AF_UNIX socket without a name (the path stays in the buffer) | `bare` |
| where connect waits, and whether inside `new`; what a call returned | `pc`, `new`, `bl`, `res` |

| code | actions |
|---|---|
| `mod_sc_create`, its error labels | `Create`, `CreateFail` |
| `mod_sc_accept`, as listener, as new object | `Accept`, `FromAccept` |
| `mod_sc_connect` and the same code in `mod_sc_create` | `ConnectUnresolved`, `ConnectNoSocket`, `Connect`, `SelectTimedOut`, `SelectReady`, `BlockedReturns` |
| `mod_sc_bind`, `mod_sc_listen` | `BindUnresolved`, `BindNoSocket`, `Bind`, `Listen` |
| `mod_sc_recv`, `mod_sc_read`, `mod_sc_recvfrom` | `Recv`, `RecvFrom` |
| `mod_sc_send`, `Socket_write`, `mod_sc_sendto` | `Send`, `SendTo` |
| `mod_sc_select`, `is_readable`, `is_writable` | `Select` |
| `mod_sc_shutdown`, `mod_sc_close`, `socket_class_free` | `Shutdown`, `Close`, `Free` |
| `mod_sc_set_blocking`, `mod_sc_set_timeout` | `SetBlocking`, `SetTimeout` |
| `DESTROY` in a forked child | `ForkedChildEnds` |
| peer and network; objects returned by accept | `World`, `OtherClosed` |

The kernel is external and modelled as Linux behaves: `Connecting` gives the
outcomes of connect(2) for a socket in each state (fresh, already connecting,
failed with the error pending or fetched, connected but not yet told so, found an
AF_UNIX listener's queue full), and `World` finishes, refuses, closes or resets a
connection. `Bindable`, `Listenable` and `ShutTo` say the same of bind(2),
listen(2) and shutdown(2). `Good`, `Again` and `Broken` are the three ways the
transfers end. A call on an object whose descriptor is closed is allowed, and
`Select` on one may do anything but change the descriptors, for `FD_SET( -1 )`
writes outside the set.

For AF_UNIX a descriptor may have a name (`named`) and a path a file that some
bind has made (`files`). The code removes the path in `l_addr` in bind, close and
`socket_class_free`; it keeps `l_addr` when it opens a new descriptor. What is at
a path belongs to whoever bound it last: an accepted object's `l_addr` is the
listener's name, and its close removes the listener's file.

`ForkedChildEnds` is `DESTROY` in a child that has just been forked: `END` is
skipped there (`process_id`), but the child's copy of a CONNECTED object shuts
the connection down, which is the parent's too, and removes its path.

The variable `usage` is a set of habits, chosen at the start from `Usages`, that
says what scripts and the system do:

* `reopen`: a closed or connected object is connected or bound again;
* `retry`: connect is called again on a descriptor whose connect has failed;
* `addresses`: `sendto` and `recvfrom`, which write `r_addr`, are called on a
  stream;
* `fork`: children are forked, and end;
* `unix`: the socket is of AF_UNIX; for these `busy`: queues of listeners may be
  full; `share`: accepted objects are closed before the listener; `rebind`: bind is
  called on an object that already has a name.

A habit that a property's text excludes is one under which the code does break
it; the invariant says so by naming it.

### LineScan, LineReader

`LineScan.tla` is the search of a peeked chunk for a line end or for the
separator, with the kept buffer `sock->buffer`, and `LineReader.tla` puts
`mod_sc_readline` and `mod_sc_read_packet` around it: `sent` is all the peer has
sent, `taken` how much of it the process has taken, `ended` how the peer ended the
stream; `call` holds the locals of the call under way.

| code | actions |
|---|---|
| entry of the method | `Begin` |
| recv with `MSG_PEEK` returning nothing or an error | `PeekNothing` |
| the peek and the search of a chunk | `Peek` |
| the recv that takes, and the return or the next chunk | `Take` |
| the peer sends, closes, resets (external) | `Arrive`, `PeerEnds` |

Peek and take are two steps, so bytes arrive, and a reset empties the queue,
between them. `Renew` leaves the bytes beyond the old length unwritten: the value
`Unwritten` reads as any byte, which `SecondEnd` turns into a choice. Bytes of
an earlier call lie in the buffer behind those of the last peek, exactly as in C.

### SslStream, ByteStream

`SslStream.tla` is the receiving side of an SSL connection. A byte passes three
queues: whole records in the kernel, the rest of the record OpenSSL has decrypted
(`read` to `recordEnd`), and `rcvbuf`, where a peek leaves what it has read.

| code | actions |
|---|---|
| `mod_sc_ssl_recv` with enough in `rcvbuf`; with an SSL_read that gives bytes, would block, or fails | `RecvBuffered`, `RecvRead`, `RecvWouldBlock`, `RecvFails` |
| `mod_sc_ssl_available`; `is_readable` (inherited) | `Available`, `IsReadable` |
| `mod_sc_ssl_close`; another SSL object's call fails in this thread | `Close`, `OtherCallFails` |
| the peer sends records, part of a record, ends (external) | `RecordArrives`, `PartArrives`, `PeerEnds` |

`ByteStream.tla` is the promise: a stream of which a take gives the next bytes and
a peek shows them. `SslStream` implements it (`ImplementsStream`). `errors` counts
the entries in OpenSSL's error queue of the thread, which any object leaves and
`SSL_get_error` reads.

### SslReader

`SslReader.tla` is `readline` and `read_packet` of the SSL module: `LineScan` over
the three queues above, with `recv` of scripts in between. `Peek`, `Take` and
`Recv` go through `rcvbuf` as `mod_sc_ssl_recv` does; a call fails where the code
returns an error between the two.

| code | actions |
|---|---|
| entry; peek and search; take | `Begin`, `Peek`, `Take` |
| `recv` of a script, `close`, the peer | `Recv`, `Close`, `Peer` |

### SslWriter

`SslWriter.tla` is the sending side: `handed` is what has been given to the
kernel in whole records, `owed` what a would-block has left in OpenSSL (`wpend_*`,
`wnum`). `SslWrite` is `SSL_write` down to `ssl3_write_pending`: it writes all,
writes part and would block (`WritesAll`, `WritesPart`), refuses a retry that is
not the same (`Refuses`), or is stopped by the handshake that a client's first
write after starttls makes (`HandshakeStops`). The handshake begins by clearing the
thread's error entries (`ERR_clear_error` in `s23_clnt.c:97`, `s3_clnt.c:179` and
their server twins), which is `Left`.

| code | actions |
|---|---|
| `mod_sc_ssl_write` (send, write), `mod_sc_ssl_writeln`, print | `Write`, `WriteLine`, `SslPrint` |
| send of nothing, which OpenSSL calls an error | `SendNothing` |
| a readline that moves the socket's buffer | `ReadLine` |
| another object's error; a lost connection | `OtherCallFails`, `Break` |

`Scalars` are the addresses of Perl's strings; `Heap` those of the socket's own
buffer, from which writeline writes. `Repeats` says that a script repeats a call
which has not written its text, as the documentation of OpenSSL demands.

### SslContext

`SslContext.tla` is the list of `sc_ssl_ctx_t` that sockets and the CTX objects of
all threads share. Counts change in a load and a store, without the mutex of
the list; CLONE counts under it.

| code | actions |
|---|---|
| `CTX->new`, DESTROY of a CTX object | `CtxNew`, `CtxDestroy` |
| `new` with or without `use_ctx`, and its failure; `accept` | `New`, `Accept` |
| `starttls` on a plain and on an SSL socket | `StartTls`, `StartTlsAgain` |
| the socket's `free_user_data` | `Free` |
| a count given back, with removal at 0; a count taken | `DecRead`, `DecWrite`, `Remove`; `IncRead`, `IncWrite` |
| `threads->create`, `CLONE` | `Spawn`, `CloneLock`, `CloneRead`, `CloneWrite`, `CloneDone` |

`extra` is a history variable: how often CLONE has counted a context for a thread
that got no object of it. Calls of several threads on one context overlap as they
please; `miscounted` is set by a store (`Store`) that hits a count which has changed
since it was loaded, and the claims are made up to there. Calls on one socket do not
overlap in this module: those are `Registry`'s.

## 4. Runs

| run | instance | shows |
|---|---|---|
| `registry_overlaps` | 3 threads, 2 blocks, 2 chains, 4 threads and sockets in all, every overlap, `FairSpec` | no fault, sound chains, blocks accounted for and refinement of `HandleTable` up to the first race; exact counts, no leak and no early free up to the first race or miscount; no deadlock inside calls, and whoever takes the mutex releases it, without such a limit |
| `registry_use_after_free` | 5 threads and sockets, symmetric | violated (`NoUseAfterFree`): a DESTROY works on a block that another thread's `free()` has freed, as can happen to the threaded example of `Class.pod` |
| `registry_clone_leak` | the same | violated (`NeverLeaks`): `CLONE` counts sockets the creating thread does not hold |
| `endpoint_life` | 2 descriptors, 2 addresses, five sets of habits (`Lives`) | state, blocking mode, peer and path are the descriptor's; no descriptor lost or closed twice; no file outlives its socket |
| `endpoint_unix_full` | `unix`, `busy` | violated (`ConnectedIsReal`): an AF_UNIX connect that met a full queue is reported CONNECTED |
| `reader_stream` | chunks of 2, 5 bytes, separator CR LF, maxsize 0, 1 or 3 | what is returned is the stream in order; lines and packets end where they should, nothing behind a packet is taken; maxsize holds |
| `reader_loses_byte` | the same | violated (`LineStops`): readline decides by a byte the peek has not written, and one that arrives is lost |
| `ssl_reads` | 3 bytes in records of 1 to 3, `len` 1, 2, 4, `FairSpec` | the three queues are one stream; an empty recv leaves nothing behind; who goes on reading gets everything |
| `ssl_unseen_data` | the same | violated (`UnreadIsSeen`): is_readable says FALSE while OpenSSL holds bytes |
| `ssl_readers` | chunks of 2, 4 bytes in records of 1 to 3, maxsize 0, 2, 3 | readline and read_packet over SSL return the stream in order, and peek again only behind a full chunk |
| `ssl_writes` | records of 2, texts and lines of 1 to 3 records, 9 bytes, `Repeats`, `FairSpec` | each reported text is handed over once and in order; a repeated write is accepted and completes |
| `ssl_contexts` | 3 threads, 3 sockets, 2 contexts, every overlap of calls on a context, up to the first stale count, symmetric | counts are exact, nothing is freed in use, nothing is forgotten |

The five violated ones are disagreements between the code and what the
documentation says of it, listed in `PROJECT.json` under findings. The properties
of the passing runs name, as a history variable or a habit, what excludes them:
the run says that nothing else breaks it.

Bounds of the registry: two blocks make an address be reused while an object of
its old number survives; two chains distinguish the right chain from a wrong
one; three threads are needed for a creator, a holder and a thread created from
the holder. `MaxLoad` bounds the threads and sockets of a behaviour together: with 4,
one thread creates three sockets over two blocks, two threads two, or three threads
one, which is enough for every pair of overlapping calls on one socket and for a
stale object of a block that has come back; the two violated runs have 5.
With symmetry, blocks and the threads other than the main one are
permuted; the run with a liveness property uses none.

Bounds of the endpoint: two descriptors are the old and the new one of a connect
that replaces, or an object's and one that is left behind or accepted. Two
addresses tell the wanted peer, or path, from another. `MaxTimeout` 1 tells a
timeout from none; no guard compares two of them. Of the habits those are put
together that no property excludes together; all of them at once would only show
what the single properties leave out.

Bounds of the readers: `Chunk`, 1024 in the code, is 2, the least that puts a
two-byte end inside a chunk and across two; five bytes are two full chunks and
a part of a third; over SSL four, in records shorter than, as long as and longer
than a chunk. The maxima fall inside a chunk, at none, and inside the second. Only
CR, LF and one other byte are sent; NUL ends a line alone, as any single end does.

Bounds of the SSL streams: lengths below, at and above a record's; texts of one,
two and three records, so that a write can stop before, between and behind the
records of a text. `MaxErrors` 1 leaves one foreign entry in the error queue, which
is all the code distinguishes from none. `MaxMoves` 1 lets the socket's buffer move
once between two tries. `MaxHanded` bounds what a behaviour writes. Of contexts,
two are one's own and the shared one; three threads are a creator, a holder and the
thread created; three sockets are two that share a context, in the calls of two
threads, and one that is given up. The constraint `NoneStale` of `ssl_contexts` stops
TLC at the first state in which `miscounted` is set (it still checks that state):
behind it the invariants but `TypeOK`, which is proved, say nothing, and counts
would grow without a bound.

Fairness. `Fairness` of the registry is weak fairness of each thread's step
inside a call and of `END` once begun, which is what an operating system
scheduler gives; nothing is assumed about scripts calling anything, and mutex
acquisition needs no strong fairness for what is checked. `FairSpec` of
`SslStream` says that a script goes on calling recv (`Reads`), that of `SslWriter`
that it goes on repeating what was not written and the kernel goes on taking
records (`Completes`): both are what a property of the form "who goes on gets it
all" is about, and neither assumes that the peer sends anything. The endpoint and
the plain readers state no liveness: a blocking call may wait for ever, and the
peer need never answer.

Deadlock is not checked where the system may stop. The registry: all threads
done, or the bound on numbers reached; `SomeCallCanStep` is checked instead
(while any call is under way, some step of a call is possible). The endpoint:
failed calls of `new` may have left every descriptor open, so that none can be
made any more. The contexts: the bound on contexts is reached and everything given
back. In the readers and the SSL streams it is checked: every call ends, for a recv
that would wait may also return.

### Seen while modelling

In the code and in the models. Those in the first list are violations a run
would show if what the property excepts were not excepted:

* `ObjectKeepsSocket` without its `~miscounted`: after the creator's `DESTROY` has
  cleared `do_clone`, copies are not counted, and the socket is freed under them;
* `NoLeak` without it: two decrements overlap and one is lost;
* `NoFault` without its `~raced`: a method uses, or both of two DESTROYs that see zero
  free, a freed block; `END` destroys the mutex another thread is about to lock;
* `pc = "connect"` is reachable under `reopen`: a non-blocking object that is
  connected again gets a blocking descriptor and waits in connect(2), where no
  timeout applies;
* `PeerIsRemote` under `reopen` and `retry`: a connect that timed out completes,
  and the next one, to another address, is told "connected";
* `FileLeadsToSocket` under `share`: closing an accepted AF_UNIX object removes the
  listener's path; under `fork`: so does a child that ends; under `rebind`: bind on a
  bound object removes a file and then fails;
* `HandedInOrder` without `Repeats`: writeline "a" would block, then writeline
  "bcd" succeeds, and the peer gets "a\rd\r\n";
* `CountExact` without its `~miscounted`: a count is lost.

And these:

* the state ERROR stays after later calls succeed, until connect, bind, listen,
  shutdown or close; `select` leaves in `sock->timeout` what is left of the time;
  close zeroes `r_addr`, so the `reconnect` of `Class.pm:44-54` has no address to go
  to (`Class.pod:548`); a connect that fails leaves the descriptor non-blocking
  while `get_blocking` reports blocking; a `new` that fails after bind leaves the
  descriptor and the file;
* readline over SSL, too, takes a byte too many behind the last byte of a full
  chunk; `SSL_read` of `SSL.xs:443-466` returns the length asked for and not the one
  read; `rcvbuf` and the SSL state survive close; send of an empty string is an error;
  `writeln` grows the buffer to `len` and writes `len + 2` bytes
  (`sc_mod_def.c:771-790`);
* print and printf cannot repeat a write that would block, nor can writeline once the
  socket's buffer has moved; the error queue of OpenSSL is the thread's, and the
  library takes only one of several entries out of it;
* starttls does not free an SSL state the socket already had; `set_verify_locations`
  does not free a previous `ca_path`; a class derived from `Socket::Class` inherits
  `CLONE`, which then counts twice;
* `new` converts its timeout to a negative `tv_usec` when it is not whole seconds
  (`sc_mod_def.c:141`): select then fails with EINVAL at once, which connect takes for
  timed out; a negative length of `write` counts from the end of the whole buffer and
  not of the part behind `start` (`Class.xs:527-535`), so that `write( "abcd", 2, -1 )`
  writes two bytes and not one. The number of a socket is an int that is never
  reset (`socket_class.c:9`).

## 5. Proofs

`Registry_proofs.tla`, for any number of threads, blocks, chains and sockets (the
counts of references are its second half):

* `TypeCorrect`: `TypeOK`, and that no method dereferences NULL;
* `MemorySafe` (`NoFault`), `RegistrySound` (`ChainsSound`), `NothingLost`
  (`BlocksAccounted`), and `NoAliasing` (`CallOnItsSocket`: a call works on the
  registered socket its object names), up to the first race;
* `RegistryIsTable` (`ImplementsTable`), a refinement proof, up to the first race;
* `RefcntCounts` (`RefcntExact`), `NoSocketLeaks` (`NoLeak`), `SocketsKept`
  (`ObjectKeepsSocket`), up to the first race or miscount;
* without such a limit: `NumbersNotReused` (`NeverRevived`), `MutexExcludes`,
  `NoDeadlock`, `CallsEnd`, `HolderReleases`, `WalkShrinks`.

All are theorems `Spec => ...` without a hypothesis on scripts: any calls of any
threads may overlap. The limits are in the properties themselves, and are what the
code does not prevent.

None of these is inductive alone. `IInv` holds until `raced` is set, and adds: the
mutex is held exactly by the thread inside a locked section (`LockHeld`); a call has an
issued number (`CallNumber`); a block waiting to be linked or freed is allocated,
unlinked, and in one thread's hands (`OwnedBlock`), and there is no other unlinked
block (`NoOrphan`); the walk of CLONE only has linked blocks before it (`CloneWalk`),
which holds because unlinking needs the mutex; the thread being created does nothing
yet (`KidWaits`); once `END` has destroyed the mutex nobody is inside a call but to
free an unlinked block (`Shutdown`). Each action has a lemma that it preserves `IInv`;
steps that touch neither heap nor chains go through `QuietStep`. That `raced` stays
(`RacedStays`) makes `InvCorrect`, `Spec => [](raced \/ IInv)`, of it. Two calls may
hold one pointer all the time: what keeps it valid is that no removal has found another
call beside it.

The counts rest on `IInv` and on `CountInv`, which says what `refcnt` counts in the
middle of calls. A user of a socket (`Users`) is an interpreter with an object of it
that `CLONE` has already come to (`Awaited` names the copies it has not), or one whose
call has a count without an object (`Giving`): from the registration of a new socket to
its object, and from the end of an object to the decrement. `Counts`: `refcnt` is the
number of users, until `END` has begun, when a DESTROY no longer counts and it is at
least that number. `Zero` and `Alive`: at zero exactly the calls that have seen it are
left, and one of them will free the socket. `ObjectKeepsSocket` is part of it. `Habits`
ties a call to the objects: what an operation has of its number (`Calling`), that
nobody else knows the number of a socket that `new` has not returned (`Handed`), that a
thread being created has the objects of its creator (`Copied`), and others that do not
run have none (`Unborn`). That `END` empties the chains is `Ended`. Every action has a lemma
on which set of users it enlarges or shrinks by one. Decrements of two threads may be
between load and store at once: the second store is a miscount, and nothing is claimed
behind it (`CountsCorrect`).

The last part of the module has no limit at all, so `IInv` is not at hand there:
behind a race memory is not safe. `Sections` (`LockHeld`, `KidWaits`, and that only the
main thread runs `END`) is inductive with `TypeOK` alone. It gives `MutexExcludes`, and
`NoDeadlock`: of the calls under way one does not wait for the mutex, or the mutex is
free. That is `SomeCallCanStep` with the guards in the place of ENABLED. `CallsEnd` is
an action property: `Ahead` ranks the places of a call, and no step of any thread takes
a call to a higher place, but for `CLONE` in its walk, which then has struck a socket
off `todo`, or ended the increment of one. `HolderReleases` and `WalkShrinks` are
liveness, under `Proceeds(t)`: the holder of the mutex does not hold it for ever without
a step. This is what weak fairness of `Steps(t)` says, for the steps of a holder have
no guard but their place.
`MutexReleased` follows from the two by induction on the number of sockets in `todo`;
an induction over temporal formulas is out of the prover's reach, so the property
itself stays with TLC.

`Endpoint_proofs.tla`, for any set of descriptors and addresses, any timeout and
any `Usages`, from `EndpointAssumption` alone:

* `TypeCorrect` (`TypeOK`);
* `DescriptorsKept` (`DescriptorsAccounted`);
* `StateTold` (`StateIsReal`);
* `ModeTold` (`ModeAgrees`), `PeerTold` (`PeerIsRemote`) and `PathsLead`
  (`FileLeadsToSocket`), each for the scripts its property speaks of;
* `ConnectedUnlessBusy`: `ConnectedIsReal`, which `endpoint_unix_full` finds violated,
  where no queue of an AF_UNIX listener fills up (`Room`).

The first three are proved together with two more conjuncts of the invariant.
`Waiting`: while connect waits the object has a descriptor on which a connect
has been begun and whose error nobody has fetched, and its state is neither
CONNECTED nor LISTEN; without it the step in which select ends could not conclude
that a socket without a pending error is connected, and a wait that ends in
nothing could leave an old CONNECTED in place. `Absent`: without an object there is
no descriptor. Each step is split in two: a lemma about what it does to the
descriptors (`Untouched`, `OwnChanges`, `Replaces`, `Closes`, `Abandons`,
`OpensOther`) gives the accounts and the kind of socket the object then has, and
the rest follows from the assignments of the action (`Together`).
`ConnectOutcome` says what connect(2) may return and leave. The types of names and
files follow separately (`NextNames`). The other three rest on that invariant and on
three more, preserved side by side (`NextKept`, `NextPaths`). `Mode`: if the object is
not opened again, its descriptor is in O_NONBLOCK whenever the object is
non-blocking, and while select waits; so the second switch of connect, which comes
only after a success, leaves the mode get_blocking tells. `Peers`: without a repeated
connect, `r_addr` is the peer from connect(2) on, also of the connection that is made
while select waits. `Paths`: the name of the object's descriptor is its `l_addr`, a
file that leads nowhere is at the `l_addr`, so that close removes it, and a connect of
AF_UNIX waits for nothing but a full queue. `ConnectedUnlessBusy` rests on `StateIsReal`
and on `NoneFull`: nothing but connect(2) on a busy listener ever makes a socket "full",
neither the repetition of a connect, nor bind, shutdown or fork. So the finding has no
other cause.

`LineScan_proofs.tla` has the lemmas on what `readline` and `read_packet` decide, for
any chunk, separator and maximum; both readers rest on them. `Shows` says that the
first cells of the buffer are the stream from where the call began. The search of
`read_packet`, which goes on from one chunk to the next with `matched` alone, is shown to
be one search over the stream: `Run` is such a search from the start of the call,
`SearchedTo` what it has reached after some bytes, `FoundAt` that it is complete there
for the first time. What a call knows before a peek is `Searched`, what it knows when it
has chosen is `Decided`, what it gives back is `Answers`; `Foreseen` bounds the take by
what the peek has shown, up to one byte for a line end in its last place. A lemma leads
from each to the next (`PeekDecides`, `TakeDecided`, `GoesOn` and so on). That the
search's recursive function exists is proved from the least argument at which it could
fail (`Minimum`, by the well-foundedness of `<`), because the library's theorem on
recursive definitions takes an operator and cannot be used here.

`LineReader_proofs.tla`, for any bytes, chunk, separator and maxima: `TypeCorrect`
(`TypeOK`), `ReadsInOrder` (`InOrder`), `LinesEnd` (`LineBounded`), `PacketsExact`
(`PacketExact`), `PacketsStop` (`PacketStops`). `IInv` says where a call stands at each of
its two steps: what is in the buffer up to `pos` is what has been taken since the call
began (`Position`); at a peek the search stands there (`AtPeek`); at a take it has
decided, and what was peeked is still the front of the queue, or the queue was reset
(`AtTake`); `AtReturn` is the result. `TakesGiveAll` is why the readers may ignore what
the second `recv` returns: it gives all it was asked for, in `read_packet` and between
the chunks of a line, if no reset has come since the peek. `LineStops` does not hold of this reader: see
`reader_loses_byte` in section 4.

`SslStream_proofs.tla`, for any bytes, records and lengths: `TypeCorrect`,
`QueuesSound` (`QueuesInOrder`), `RecvIsStream` (`ImplementsStream`, a refinement
proof: what `ByteStream` has not given out is `rcvbuf`, the rest of the record and
the kernel's queue), `NothingLost` (`NothingLeftBehind`). Its lemmas `RecvGives`,
`PeekShows` and `TakeGives` say what a `recv` of any length does, for the readers above
it: what it gives are the next bytes; a peek that shows less than it was asked for has
left OpenSSL without bytes; a take of no more than `rcvbuf` holds gives all of it.
`HeldIsRead` and `NextIsRead` are liveness, under `FairSpec`: while a script goes on
reading, what `rcvbuf` or OpenSSL hold is given out, also behind a reset or a close; and
the next byte sent is, unless the connection ends. They rest on `Forward` (nothing that
happens takes back what has been read or given out) and on `TakesSome` (a taking `recv`
gives a byte if one is at hand, whatever it asks for). Both have the hypothesis that
`Reads` is enabled when a byte is at hand (`AtHand`), because the prover cannot expand
ENABLED; TLC has checked it, and it is what the guards of `Recv` say. `EverythingRead`
follows from `NextIsRead` by induction on the bytes, and stays with TLC for that step.

`SslReader_proofs.tla`, for any bytes, records, chunk, separator and maxima:
`TypeCorrect` (`TypeOK`), `ReadsInOrder` (`InOrder`), `LinesStop` (`LineStops`),
`PacketsExact` (`PacketExact`), `PeeksBehindChunks` (`PeeksOnFullChunk`). It puts the two
modules above together: `LineScan_proofs` for what the readers decide, and an instance
`P` of `SslStream_proofs` for the connection. At a take `IInv` says more than in
`LineReader` (`AtTake`): the bytes the peek has shown lie in `rcvbuf`, and if they are
less than a chunk OpenSSL has none at hand (`Shown`), so that a take of the one byte
more that a stale cell may ask for finds nothing. This is why `LineStops` holds here but
behind a full chunk, and `PacketExact` also when the connection is reset, for what is
taken is no longer the kernel's. `ConnectionIsStream`: however calls of `readline`,
`read_packet` and `recv` follow one another, every step is one of `SslStream` or none,
so by `RecvIsStream` what they peek at and take is one `ByteStream`.

`SslWriter_proofs.tla`, for texts and records of any size: `TypeCorrect` (`TypeOK`),
`TextsHandedOnce` (`HandedInOrder`), `RepeatsAccepted` (`RepeatFits`); the first also for
scripts that do not repeat what was not written. For those that do:

* `OwedUntilWritten`, an action property: a text that is owed stays owed, and what has
  gone out of it is not taken back (`Kept`), until all of it is in the kernel behind what
  was reported before, and is reported once (`Finished`);
* `RepeatIsReady`: as long as the connection is not broken, nothing that happens between
  two repetitions makes the next one fail a guard of `Calls` or `WritesAll` (`Ready`);
* `WritesComplete`: `WriteCompletes`, under `FairSpec`. `Again`, an invariant beside
  `IInv`, keeps the repeated call one that `Next` has, within `MaxHanded`. The
  hypothesis `[](Ready => ENABLED <<Completes>>_vars)` is the one thing not proved:
  `Ready` is the conjunction of the guards of `Completes`, and the prover cannot
  expand ENABLED. TLC has checked it on the instance of `ssl_writes`.

`SslContext_proofs.tla`, for any number of threads, sockets and contexts:
`TypeCorrect`, `CountsExact` (`CountExact`), `ContextsLive` (`LiveWhileUsed`),
`UnusedFreed` (`FreedWhenUnused`), with calls that overlap on a context as they
please. `IInv` has `Steady` (types, the shape of a call at each of its places, sockets
free while a call builds them, children unborn until counted, the mutex, unissued
numbers), and then, each up to the first stale store, `LiveWhileUsed`, `Spent` (a
context at zero is with one call that will free it) and `CountExact`. Nothing is said
of the count a call has loaded: two calls may have loaded the same, and the second to
store is what `miscounted` records. A count is the cardinality of two sets of users,
so every action has lemmas on which set it enlarges or shrinks by one.

So every safety property of a passing run, with the refinements `ImplementsTable` and
`ImplementsStream`, is also a theorem, but for `SomeCallCanStep`, which speaks of
ENABLED and whose guards `NoDeadlock` proves. Of the liveness properties
`WriteCompletes` is proved up to one fact about ENABLED; of `MutexReleased` and
`EverythingRead` the single step is proved, and that the steps add up is only
model-checked.

## 6. Not modelled

Constants, build scripts, documentation and examples; address packing, name lookup
and formatting (pure conversions around library calls); Bluetooth device search;
Windows-only branches. Of the vendored OpenSSL, some 330,000 lines and nearly all of
the source under `src/`, only the record layer's reading and writing and the error
queue are modelled, as far as this code rests on them; cryptography, handshakes,
certificates and the command line tools are not the program's own logic. The
registry leaves out the `user_data` destructor (its SSL use is `Free` in
`SslContext`) and `mod_sc_refcnt_inc`, which no code in the repository calls. The
endpoint leaves out datagram sockets, socket options, and children that go on using
an object after a fork; the readers leave out `vprintf`. The SSL modules leave
out `recvfrom` and `sendto`, which forward; `mod_sc_ssl_shutdown`, which no method
reaches; renegotiation in the middle of a write; a retry with a shorter text, for
which OpenSSL's `wnum` runs past the end; the contents of a context (certificates,
keys, ciphers); `END` of the SSL module.

Three further models are left out. The order
inside a chain: the code searches a chain by number and unlinks by address, so no
call's outcome depends on it. `Registry` with the bodies of `Endpoint`'s calls: what
concerns both is whether the pointer of a call stays valid and is the right one, which
`UseSocket` shows for any body, and the product is beyond TLC. The SSL state of a
socket through connect, starttls and close: its queues are in `SslStream`, its
context in `SslContext`, and the handshake itself is OpenSSL's.

The numeric conversions (timeouts, the wrap of the socket counter, the slices of
`write`) are arithmetic of one line each,
with no state that several steps could bring out of order; what is wrong in them
stands in section 4.
