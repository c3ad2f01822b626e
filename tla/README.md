# Verification of libport / attguard

libport is an attestation library.  A process that starts other principals
(virtual machines, containers, jobs) tells a daemon on its host, *attguard*, who
they are; the daemon keeps the principals of the host and posts statements about
them to a remote *metadata service*, which it also asks whether a principal has a
property or may access an object.  This directory models the daemon, the client
library and its connection, and the port allocator, checks them with TLC on small
instances and proves their main invariants with TLAPS for every instance.

All paths below are relative to `libport-core/src/main/native/`.

## 1. Inventory

| component | state | operations | correct when |
|---|---|---|---|
| Port allocator `include/port_manager.h` | two ordered maps `free_map_`, `allocated_` of half-open ranges | `allocate(cnt)`, `allocate(lo, hi)`, `deallocate(p)`, `is_allocated` | no port is granted twice or lost; the queries are exact; an exact range that is free can be allocated |
| Attestation manager `server/manager.cc` | `gn_`, the multimap `principals_`, the mutex `plock_` | `dispatch` and one handler per command | names are unique and are never reused; only the speaker or root deletes; the daemon's table and the service agree; every command is answered |
| Metadata client `server/metadata.cc` | none of its own | one HTTP exchange per call | every way an exchange can end becomes a status |
| Session and server `server/session.cc`, `server/server.cc` | per connection a socket, `rcv_buf_`, `large_rcv_buf_`, `send_buf_`; one pool of threads | accept, `header_received`, `command_received`, `write_response`, `response_sent` | what is dispatched is what was sent; sessions of vanished clients end; the pool always has a thread for a continuation |
| Client connection and framing `client/client.cc` (`AttGuardClient`), `include/comm.h`, `common/utils.cc` | one socket; the bytes of a message that are not sent or read yet | `redial`, `post`, `proto_send_msg`, `proto_recv_msg`, `reliable_send`, `reliable_recv` | messages arrive whole, once and in order; `post()` returns the response to its own command, or fails; after a failure halfway the next call is not given what was left |
| Client library `client/client.cc` (`liblatte_*`), `include/libport.h` | the process-wide client, `port_usage`, the kernel's port ranges | `liblatte_init`; create and delete of principals with ports, endorse, check, get | a yes is the answer to the caller's own command, and a check says yes only if the service did; ports and principal of a child come and go together |
| Wire protocol `proto/` | none | wrap and unwrap of protobuf messages | a wrapper of the wrong kind yields nothing |
| Value classes and `CoreManager` `include/{principal,image,accessor_object,core_manager}.h` | declarations of an earlier in-process manager | not built | |
| Serialization, store `server/serialization.cc`, `store/` | not built | | |
| Configuration, log `common/` | process-wide settings | read at start | |
| Metadata stub `tools/metadata_stub.go`, Java binding `libport-java`, scripts, docker | tools around the above | | |

**Interaction.**  A client process blocks in `post()` on its unix socket.  The
session of that connection reads a length and then the command, and calls
`dispatch` of the manager *on the thread that completed the read*.  A handler
blocks on the HTTP exchanges it makes.  The HTTP client and the sessions use the
same pool (`include/server.h` takes `crossplat::threadpool::shared_instance()`),
so handlers of different sessions run concurrently and compete for threads with
the continuations they wait for.  The threads of a client process share one
`AttGuardClient` and its socket without a lock.  `PortManager` is a header without shared state
that the in-process users of the library call sequentially.

**What is hard.**  Handlers of several sessions interleave at `gn_`, at `plock_`
and at every HTTP exchange; an exchange may fail before or after the service has
applied it; the daemon ends and starts again without its state while the service
keeps its own; clients vanish at any point; `send` and `recv` end in the middle of a
message; the receive buffer is chosen in one
handler and used in another; responses do not name their command; statuses, error
codes and pointers share the integer that an entry point returns; the allocator's merges depend on the order of
earlier calls.  `hazards` in `PROJECT.json` lists these at their lines, with the
properties that would catch them.

## 2. Modules

| module | models | depends on |
|---|---|---|
| `PortAllocation` | the abstract promise of a port manager: grants are disjoint, a range leaves only through its release | |
| `PortManager` | `include/port_manager.h` | refines `PortAllocation` |
| `MetadataClient` | the chains of continuations of `server/metadata.cc`: from the outcome of an exchange to a result, a status, or an exception | |
| `PrincipalRegistry` | the abstract promise of the manager about names: one is registered in one step under a newer generation, all names of an id leave in one step | |
| `AttestationManager` | `server/manager.cc`, and the service's instances as the external variable `live` | extends `MetadataClient`, refines `PrincipalRegistry` |
| `DaemonRestart` | `server/main.cc`: the manager over several lives of the process, with the connections of its clients and calls of earlier lives | extends `AttestationManager` |
| `MessageChannel` | the abstract promise of one direction of a connection | |
| `Framing` | `include/comm.h`, `reliable_send` and `reliable_recv`, the session's two-part read, byte by byte | refines `MessageChannel` |
| `RemoteCall` | the abstract promise of `post()`: a command is executed once or never, a caller whose connection has ended knows that it was not, and an answer that a call gave up on stays for the next one | |
| `Daemon` | `server/session.cc`, `server/server.cc`, the pool, and `AttGuardClient` at the other end | refines `RemoteCall` |
| `ClientLibrary` | the `liblatte_*` entry points of `client/client.cc`, `include/comm.h`, with the daemon's answers and the child's ports and principal | extends `MetadataClient` |
| `PortManagerProofs`, `AttestationManagerProofs`, `DaemonRestartProofs`, `FramingProofs`, `DaemonProofs`, `ClientLibraryProofs` | theorems | the module each is named after; `DaemonRestartProofs` also `AttestationManagerProofs` |
| `MCPortManager`, `MCAttestationManager`, `MCDaemonRestart`, `MCFraming`, `MCDaemon`, `MCClientLibrary` | instances for TLC | |

A definition whose comment starts with "mutant:" is not part of the model: it is
a plausible bug in the definition that follows it, kept to show that a property
notices it.

### PortManager

`free_map_` and `allocated_` are functions from the first port of a segment to
one past its last.  Iterators become predicates: `IsUpperBound`, `IsPrev` and
`IsLast` say which key an iterator stands on.  `held` is history, the ranges that
callers were given and have not given back, and `status` is the exception of the
last call.  An exact range may be asked for one port outside the managed ones, so
that `throw_bad_range` is reached.  `deallocate` is translated with its
`free_map_.find(value)` after the erase, which returns `end()`.  It also reads
`free_index->first` before it tests for `end()`; that value is then never used,
so the model leaves it out.  Ports are `uint32_t` in the code; no
sum or difference in it leaves `[0, High]`, so numbers are not reduced.

### AttestationManager

A session has at most one request in progress, so a session stands for the thread
that runs its handler, and `pc` for its place.  A step ends where another thread
can show: between the load and the store of `gn_++`, at `plock_`, at every
exchange.  `principals_` is a set: two registrations that agree in id,
generation and speaker are one element.  Equal generations of one id, which the
race on `gn_` can produce, make the scan for the latest one depend on the order
of an unordered range: any of them.  `mine` is the generation a handler works on,
`answer` the status in its response.  `retired` is history: the names that were
erased.

Commands are kinds with an id.  `complete` stands for what the wrappers and the
early returns of the handlers test; a handler that tests nothing does not look at
it.  Every exchange ends with one of five `Replies`.  `live`, the instances of the
metadata service, is external: a call with an answer of 200 was applied, one with
another status was not, one without an answer may have been.  That a 200 means
applied is an assumption on the service: `delete_instance` does not look at the message
(`server/metadata.cc:498-501`), and a service that refuses with a 200, as `guard_call`
expects of it, would be believed; `DeletedIsGone` rests on it.  `FREE_CALL`, which
passes any call on to the service, is taken not to touch `live`.

A principal's name is `id_gn` in the code; here it is the pair.  `KeepsRegistry` maps
the registered names to `PrincipalRegistry`'s `current`, and these and the retired
ones to `used`: of the many steps of a handler only `add_principal` and
`delete_erase` show.

### DaemonRestart

`restart` may come at any step of any handler.  What was in memory is gone (`forget`),
the sockets are closed (`disconnect`), and a client that was inside `post()` is told
`status(false)`.  The HTTP requests that the old handlers were in stay on their way
(`late`) and reach the service later or never, whatever life it is by then.  A client
gets a new connection only through `liblatte_init` (`reconnect`), since `redial` is
called by the constructor alone; until then its calls fail.  Generations start at 0
again, so names of two lives meet at the service.  `crossed` is history, the names
that late calls have reached in this life; `retired` and the answers that count are
those of this life.

### Framing

One direction of a connection.  A byte is its position in the stream, so the model
knows what was written where and nothing about contents.  `reliable_send` moves any
number of the bytes that are left, `reliable_recv` any number of those written and
not read, up to what it needs.  Eight bytes of a header that are read where a header
was written tell its size; eight bytes anywhere else tell any size (`HeaderAt`).
Neither end looks at the magic number: the session warns, the client does not look.
An end that gives up sets `broken`; a session then stops, a client starts over at the
next byte with its next `post()`, and from there on anything may be delivered.
`EAGAIN`, which both loops retry, is no step.  The asynchronous reads and writes of
the session do the same as the loops and are the same actions.  Commands and
responses travel in two independent directions, each of which is an instance.

### Daemon

One session per client.  `request` and `response` hold what is on the way in
either direction; a message is one unit (`Framing` shows why it may be), with its
number (history) and its size.  A `send()` or `recv()` of the client may fail on an
open connection with an error other than `EAGAIN` (`send_fails`, `recv_fails`):
`post()` returns a made up `status(false)` and keeps the socket.  `cut` remembers what
was left on it.  Half a "command" makes the session read out of step
(`stray_received`): it takes what follows for the rest, executes the commands there,
others, or none, or waits for bytes that do not come.  An "answer" that was given up
on is returned by the next `post()`, whole (`post_return`) or read out of step
(`recv_stray`).  As a bound, every stray read of the session uses up a whole command;
a stray size too large to allocate ends the daemon, which is `DaemonRestart`'s subject.
A completion handler needs a free thread to run, and `busy` are the connections
whose `dispatch` blocks one.  A handler that answers from memory goes straight to
"writing".  `write_response` needs another free thread, because the continuation
that wakes the blocked handler runs in the same pool.  `exit` may cut off what
was not sent yet.  An accept that reports an error only starts the next accept,
which is no step here.

The release of a large buffer is undefined behaviour followed by a read: the
parse of released memory yields the command, another one (`Garbage`), or fails.

`KeepsCalls` maps `request` to `RemoteCall`'s `pending` as long as the session is
open, for what a closed session has not read is never executed, and what the session
holds from the dispatch to the write, and then `response`, to `answer`.  The steps
between the header and the command, and between the handler and the write, do not show.
`RemoteCall` keeps the weak points of the code: a command larger than `RECV_BUFSZ` may
be executed as another one, a call may fail at once, and one that fails halfway leaves
a command of unknown fate (`GiveUp`) or a connection of which nothing is known
(`ExecuteStray`, `Misread`).  `OwnResponse`, `FittingIntact`, `NeverStuck` and
`PostReturns` are about connections on which no call has failed that way (`Whole`);
`KeepsCalls` is about all of them.  The daemon does not end in this module.

### ClientLibrary

The entry points are grouped by what they check first and by what they make of the
response: a status (`StatusEntries`), a pointer (`PointerEntries`), the inverted test
of `liblatte_create_principal_new` (`CreateEntries`), a status without
`CHECK_LIB_INIT` (`RawEntries`, which go through a null pointer before
`liblatte_init`).  `complete` stands for arguments that pass the checks and ports
that could be allocated.  `command_of` is the command really sent.

A thread waits for a header and then for a body (`pc`); `stream` holds the parts that
nobody has read.  A part that is read where another was due is bytes of some message
(`recv_stray`): any size, any number of the parts that are there, and a parse that
fails or takes them for some response; in the code the thread may also block on bytes
that never come, which only keeps it from returning.  A send or receive that is cut
short (`call_fails`, `recv_interrupted`) ends `post()` with a made up `status(false)`
and leaves the connection as it is: half a command on its way (`link` is "torn", what
the daemon then takes the next command for is the rest of the first) or half a
response unread.  `interrupted` remembers that, as history, until the next `redial`.
`served` is history too: for each command the answer of the daemon and the reply of
the service behind it, from `MetadataClient`.

A pointer is 1, or `EMPTY` if the message behind it has no content.  That happens for
`liblatte_check_attestation`: when the service refuses, `attest` returns an empty text
(`server/metadata.cc:415-421`), the handler sends it as an attestation, and the caller
gets a pointer to it.  `Approved` does not count it as a yes, and a caller who tests
the pointer alone does.  `Approved` is about the commands that are one call of the
service; create and delete are `AttestationManager`'s, and the getters ask nobody.
For statements that go through `sink_task` a 1 only says that the service has answered,
with whatever status.

`child_ports` is the kernel's reservation for the one child considered (external),
taken before a creation is sent and released before a deletion is; `registered` is
what the daemon has for the child, a principal with these ports ("ported") or without
("plain").  A second `liblatte_init` leaves the creates and deletes that the old
session may still be at work on in `orphans`, and they take effect at any later time.
`daemon_ends` takes all sessions and principals.  `mishaps` is history for
`PortsInStep`: what the caller was told, or could not be told, that takes the two
apart.  These mishaps do happen (a refused creation keeps its ports, a refused deletion
its principal); the property is that nothing else does it.  `port_usage` is only written.

Things the model shows as they are in the code, and that no property is about:
`liblatte_get_local_principal` sends `GET_PRINCIPAL` (`client/client.cc:129`), which
the daemon does not implement; `liblatte_endorse_builder` endorses an attester
(`:704`); the comment of `liblatte_init` says that it "will clear stalled information
(if any)" (`:395`), and neither `port_usage` nor any reservation is cleared.

## 3. Runs

| run | shows |
|---|---|
| `port_manager` | `TypeOK`, `Partition`, `BookKept`, `IsAllocatedExact`, `BugIsUnmerged` and the refinement `KeepsPromise`, all sequences of calls on six ports with requests of one to three ports and every exact range |
| `port_manager_fit` (violated) | `FitGuaranteed`: after a merge to the right the left neighbour is not merged, and an exact allocation across the two adjacent free segments throws "consistency broken" |
| `manager_owner` | `RegisteredIsLive`, `RetiredIsOlder`, `DeletedIsGone` and the refinement `KeepsRegistry`: one creating session, a root session and a second connection of the creating process, two ids, five requests |
| `manager_shared` | `LockMatches`, `ErasedByOwner`, `Answered` and `UniqueUnlessOverlap` (a behaviour without two creates inside `gn_++` at once has no two equal generations): two processes create and delete the same id, a third session, and a command of every kind, four requests |
| `manager_gn` (violated) | `UniqueGn` with two creating sessions |
| `restart` | `CreatedIsKnown`, `AgreeUnlessCrossed`: a creating and a root session, two ids, five requests, two restarts at any step, calls of the old process that arrive late or not at all |
| `framing` | `InStep`, the refinement `KeepsChannel`, and `Arrives`: three messages, empty or not, every way of cutting them up, ends that give up at any byte |
| `daemon` | `OwnResponse`, `FittingIntact`, `NeverStuck`, the refinement `KeepsCalls`, `PostReturns` and `SessionEnds`: two clients on three threads, commands of exactly `RECV_BUFSZ` and larger, sends and receives that fail halfway |
| `daemon_large` (violated) | `ParsedIntact` with a command of `RECV_BUFSZ + 1` |
| `daemon_blocking` (violated) | `PostReturns` with as many clients as threads |
| `library` | `Approved`, `Truthful`, `PortsInStep`: one thread that calls entry points of every class, before and after `liblatte_init` and again after it, with sends and receives that are cut short, connections that are lost, and a daemon that may end at any moment |
| `library_threads` (violated) | `Approved` with two threads on the connection: their responses are swapped |

**Findings.**  The five violated runs are disagreements between the code and what
its comments or tests say; `findings` in `PROJECT.json` quotes them.  They are at
`include/port_manager.h:121`, `server/manager.cc:471`, `server/session.cc:70` and
`:93`, and `client/client.cc:371`.  `BugIsUnmerged` narrows the first one down: the
exception needs two free segments that touch, so that the missing merge is its only
cause and `find_fit` itself is right.  `UniqueUnlessOverlap` does so for the second:
equal generations need two creates inside `gn_++` at once.

What the passing runs say of four further weak places.  After an interrupted `recv`
the response stays on the connection and the next call returns it: a `check_access` can
then be given the answer to the one before.  `Returned` excludes such connections, so do
`Framing`'s `broken` and `Daemon`'s `Whole`; `KeepsCalls` says what is left, and the
only cure is another `liblatte_init`.  Before `liblatte_init`, `check_access` returns -1:
`Truthful` says that no command was sent then, but the worker of
`libport-java/.../PortManager.java:97`, which runs by that time, tests for 0 and lets the
peer in.  After a restart a late deletion of
the old process can remove, at the service, the principal that has the same name in
the new life, and `AgreeUnlessCrossed` says that nothing else can.  Ports leak whenever
a creation is refused, and `PortsInStep` says that the opposite, a principal whose
ports another child can be given, needs a refused delete or a call without an answer.

**Bounds.**  Six ports hold three segments of two with free ones between them, so
that every combination of left and right neighbours of a deallocation occurs.
`MaxRequests` bounds the requests of a behaviour: five allow create, delete,
create again on one id with a deletion of another session pending, which is the
shortest history in which a name could come back.  `MaxPosts` is two for one client, a
command and the next one, which could read a response left over, and one for the other:
connections only meet in the pool.  A command below `RECV_BUFSZ` is
like one of exactly that size.  `MaxCalls` is two: a create and
a delete, or a command and the one after it, which could read what it left; a redial
between the two brings in the orphans.  The proofs for `ClientLibrary` show that
nothing longer matters to `Approved`, `Truthful` and `PortsInStep`.  Two restarts
let a call of the first life arrive in the third, and five requests let each life
create and delete.  Three messages with a header of two bytes, bodies of none or two,
give every boundary between parts and a message before and after the one that is cut;
`FramingProofs` has any sizes.  `Threads` is small; the real
pool has forty by default, and what matters is its relation to the number of
clients.  Behaviours end when the bound is reached, so these runs do not check
for deadlock; the allocator never stops, and its runs do.

**Fairness.**  `AttestationManager!FairSpec` assumes that a thread keeps running
its handler and that an HTTP exchange ends, for which the HTTP client has a
timeout.  Weak fairness is enough for the mutex, although nothing makes
`std::mutex` fair, because the number of requests is bounded: a handler cannot be
overtaken for ever.  That the handler has a thread at all is the subject of
`Daemon`, whose `FairSpec` assumes that the pool runs a completion handler that is
ready while a thread is free, and that a blocked `recv` on a connection that is whole
returns once there is something to return.  No call is obliged to fail, and a read out
of step is not obliged to find enough bytes.  `Framing!FairSpec` assumes that both loops go on
while there is something to send or to read, which a blocking `send` and `recv` do; a
full socket buffer is emptied by the receiver's loop.  Nothing obliges a client to connect, to post or to exit.

## 4. Theorems

`PortManagerProofs`, for every range of ports and all sets of request sizes
without 0 (`allocate(0)` succeeds and writes an empty range over whatever starts
where the free segment ends, so that `BookKept` fails): `TypeTheorem`,
`PartitionTheorem`, `BookTheorem`, `RefinementTheorem` (`Spec => KeepsPromise`),
`QueriesTheorem` and `UnmergedTheorem` (`BugIsUnmerged`).  The conjunction of the first three is inductive as it stands;
`Partition` alone is not, because a deallocation takes the end of a range from the
book.  The disjointness of a new grant follows from `Partition` and `BookKept`: what is
carved out of a free segment meets no allocated one.  The existence of the
neighbours that the iterators stand for is shown by well-founded induction on the
keys.  For `UnmergedTheorem`, a range whose ports are all free and that no segment
holds starts in some free segment that ends inside the range; the port at that end is
free too, so that it lies in another segment, which by disjointness starts there.

`AttestationManagerProofs`, for any sessions, ids, commands and number of
requests.  `TypeTheorem`, `LockTheorem` (`LockMatches`) and `ErasureTheorem`
(`ErasedByOwner`) hold without further assumptions: the invariant is that `plock_` is held exactly by the one
session between its lock and its unlock, and that the latest generation it found
is still the latest.  So does `UniqueGnTheorem` (`Spec => UniqueUnlessOverlap`): in a
behaviour in which no two sessions are between the load and the store at once, all
numbers given out are below `gn_`, or equal to it while a store is due, and different.
`RetiredTheorem`, `RegisteredTheorem`, `DeletionTheorem` and `RegistryTheorem` (`Spec => KeepsRegistry`) assume `SingleCreator`, that at most one session creates
principals.  Nothing in the code enforces that: it is the setting of a host on which one
process starts the others, and with more of them equal names can come from
`manager_gn`'s race.  Their invariant has two
parts.  `NameInv`, of the manager alone, says
that every number in use, registered or retired, is below `gn_` (or equal to
it between the load and the store); it is all that the refinement needs.  `LiveInv` relates it to the service: what
is about to be registered is live, and a deletion under way works on a name
that is already retired, so that it cannot hit a registered one.

`DaemonRestartProofs`, for any number of restarts.  `RestartTypeTheorem`,
`RestartLockTheorem` (`LockMatches`) and `CreatedTheorem` (`CreatedIsKnown`) need no assumption on creators: `LifeInv` says
that handlers run for connected sessions only and that what a connected client was
told to be created is registered or retired; a restart closes every connection, which
is why it cannot break it.  `AgreementTheorem`
(`AgreeUnlessCrossed`) assumes `SingleCreator`; `NameInv` is restored by a restart
because it starts from the manager's initial state, and `AgreeInv` is `LiveInv` up to
the names in `crossed`.

`FramingProofs`, for every header size and all message sizes: `TypeTheorem`,
`InStepTheorem`, and `ChannelTheorem` (`Spec => KeepsChannel`).  `InStep` is not
inductive without `Contiguous`: the messages lie in the stream one behind the other
and nothing is read before it is written.  A receiver in step whose part is complete
then stands on the header or body of exactly one message, so that `HeaderAt` and
`BodyAt` have one value.

`ClientLibraryProofs`, for any entry points and any number of calls.  `TypeTheorem`
holds for any threads.  `ApprovedTheorem`, `TruthfulTheorem`
and `PortsTheorem` (`PortsInStep`)
assume `SingleThread`; without it `library_threads` refutes the first.  The invariant of the first two
says, as long as nothing was cut short, that the thread's command is the last one
sent and that all earlier ones are answered and read, so that what is unread in the
stream is the rest of its own response (`OwnCall`), and that a result that was
returned is backed by the answer recorded for it (`Sound`).  Once something was cut
short they say nothing: the response left over is read by the next call.  `PortsTheorem` adds
`PortInv`, which says something only as long as no call was left in doubt.  Then no
connection was cut short and no earlier session is still at work; between calls the
daemon has no create or delete left to execute; and inside a call only the command of
that call can be without effect.  A create that names ports has them reserved, a
delete has given them back or is recorded, and so ports and principal are apart only
while that command is unanswered or refused.  With several threads the invariant
fails, because the refusal of one thread's create can be read by another, and no
mishap is recorded for the ports that stay.

`DaemonProofs`, for any number of clients, threads and commands of any sizes:
`TypeTheorem`, `OwnResponseTheorem`, `FittingIntactTheorem` and `CallsTheorem`
(`Spec => KeepsCalls`).  The invariant of the second and third, `OneCommand`, says of a
connection on which no call has failed halfway
that the command of a `post()` is at one place only, on its way, in the session, or
answered, and that an open connection is empty outside `post()`.  It is needed
because no message carries a number that the code checks: that a response is the
right one rests on there being no other, also after a larger command whose parse
may yield anything.  The refinement holds on every connection and needs the types
only: commands and answers are two queues, and every step moves the head of one to the
tail of the other, drops what a closed session has not read, or is one of the failures
that `RemoteCall` has.  `NeverStuckTheorem` assumes a finite
number of clients below `Threads`, as in the code a connection blocks at most one
thread: `busy` is a set of clients, so that a thread is always left, and
`OneCommand` says where the command is that a waiting session has to read.  It is the
safety part of `PostReturns`; the rest is fairness.

**Only model-checked:** liveness, which is out of the prover's reach (`Answered`,
`PostReturns`, `SessionEnds`, `Arrives`), and the violated properties.

## 5. Not modelled, and the plan

- Text of statements, logging, protobuf's encoding, configuration.
- The numbers of the ports a child is given, and the range of the process itself
  (`include/port-syscall.h`): what the system calls do with them is decided by a kernel
  patch that is not in the repository.
- `CoreManager`, which is declared and has no implementation; `principal.h`, `image.h`
  and `accessor_object.h`, used by tests of the earlier manager only;
  `server/serialization.cc` and `store/`, which are not built.
- The metadata service itself, its stub, the Java binding and the scripts.
- Process ids that the kernel gives to another process while a principal still names
  the old one as its speaker.
- Handlers without a test for a missing statement or configuration key are taken to get
  one, as the client library always sends it.

Planned, in this order:

1. Two instances of `Framing` under `Daemon`, for commands and for responses, and
   `ClientLibrary` with one thread, as long as nothing is in doubt, as an
   implementation of `RemoteCall`.
2. The metadata stub (`tools/metadata_stub.go`) as the service behind `live`, with
   its search for the principal of a port (`:99-132`).
