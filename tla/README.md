# chaibeast in TLA+

chaibeast is a small C++ library for HTTP servers on Boost.Asio, Boost.Beast and
stdexec, with three programs built from it: a reverse proxy, a server that
uploads dump files, and a single-threaded file server. This directory holds
TLA+ models of the parts of it that keep state, the TLC configurations that check
them on small instances, and theorems about them with proofs for TLAPS.

Paths below are relative to `src/`.

## 1. Inventory

| Part | Source | State | Operations | Talks to |
|---|---|---|---|---|
| Connection server | `include/server.hpp`, `include/streams.hpp`, `include/handle_error.hpp` | the acceptor's backlog, the coroutines on the `io_context`, the queue and threads of the `static_thread_pool`, one request pipeline per connection | listen, accept, handshake, hand off, read, select, process, write, close, log | clients over sockets; a demultiplexer through `getForwarder` |
| Routing table | `reverseproxy/include/request_forwarder.hpp` | the `unordered_map` of routes, the default forwarder | load the configuration, `getForwarder` | called by the pipeline's select stage |
| Forwarders | `reverseproxy/include/abstractforwarder.hpp` | none of their own; response bodies in memory or in files of the working directory | connect, send the request, read header and body, store, rewind, return | the upstream; run by the process stage, on a pool thread |
| HTTP router | `include/http_server.hpp`, `include/request_mapper.hpp`, `include/flat_map.hpp`, `include/regex_range.hpp`, `include/http_target_parser.hpp` | three `flat_map`s from path pattern and verb to handler | register, match, parse the parameters, dispatch | called by the select stage of the dump server's pipeline |
| Message variants, body handlers | `include/common_defs.hpp` | none | the run-time check that a handler fits the request's body type | router, forwarders |
| Dump server | `dump_server/` | files below a root directory | two GET handlers that answer with a `fileurl` header | registers with the router; the proxy's flexible forwarder opens the file it names |
| Base64 file body | `include/base64_file_body.hpp` | a buffer | declared size, chunk-wise encoding | a body type for responses |
| File server | `fileserver/fileserver.cpp` | an acceptor | accept, read, answer, in a loop | clients |
| Server theme demo | `server_theme/server_theme.cpp` | a pool of eight | ten detached flows, `request_stop` | itself |
| Command line, entry points | `include/command_line_parser.hpp`, `reverseproxy/reverseproxy.cpp` | none | read two options, start the parts above | |
| TLS configuration | `include/ssl_stream_maker.hpp` | an `ssl::context` | set its options once | stream makers |

How they interact. One thread runs the `io_context`. On it lives a chain of
coroutines: `do_accept` waits for a connection, passes its reader (the owner of
the socket) to `do_handshake` (TLS only), that to `do_work`, which starts the
connection's task on the thread pool and spawns the next `do_accept`. From there
on a pool thread owns the connection and runs its pipeline synchronously: a
stage that waits for the client or for an upstream blocks the thread. Pool
threads share the routing table (read only), `std::localtime`'s static buffer,
and the files that forwarders store bodies in. The file server does all this in one
loop on one thread. The server theme demo uses the same pool without a network.

What is hard here, and what makes each part correct:

- *connection server*: every path of every coroutine must spawn exactly one
  successor; a reader is moved three times and must never have two owners or
  none; a failure in any stage must produce exactly one reply; one client that
  stalls must not keep the others from being served for good.
- *forwarders*: concurrent requests share files by name; errors are reported in
  three ways (an exception, an `error_code` checked late, an `error_code`
  overwritten); an upstream that breaks off must not look like a success.
- *routing table*: routes overwrite each other, wildcards overlap, the iteration
  order of the hash table is arbitrary, and the answer must still be one the
  configuration names.
- *reverse proxy*: the forwarder's exception, the client's departure and the short
  file meet in the pipeline's two error handlers; whatever happens there, nothing the
  forwarder opened may outlive its stage, and a client that stays must get one
  complete reply.
- *HTTP router*: one equality, between a pattern and a path, serves dispatch and
  registration alike, so a registration can take over an entry; the positions of
  parameters are accumulated from offsets.
- *base64 file body*: the length is computed once for the whole file, the bytes
  are made buffer by buffer from a file that may change meanwhile.
- *file server*: a turn of the loop has five exits, all of which rely on one guard
  object to close the stream; an open file may turn out unreadable when it is too
  late for another answer; one client at a time, without a timeout.
- *server theme demo*: the flows may not have begun when the pool is told to stop
  and destroyed.

`PROJECT.json` lists the hazards one by one, each at its line, with the
properties that watch it.

## 2. Modules

| Module | What it is |
|---|---|
| `ConnectionService` | abstract specification: what a client is promised about its connection |
| `Server` | the connection server: accept chain, pool, pipeline |
| `ServerProofs` | theorems about `Server` |
| `RequestForwarder` | the routing table |
| `RequestForwarderProofs` | theorems about `RequestForwarder` |
| `Forwarder` | the forwarders and the files they share |
| `ForwarderProofs` | theorems about `Forwarder` |
| `ReverseProxy` | `Server` and `Forwarder` as one system |
| `ReverseProxyProofs` | that it implements both, and theorems about the composition |
| `HttpRouter`, `HttpRouterProofs` | registration, matching and dispatch of the dump server's router; theorems about them |
| `FileServer`, `FileServerProofs` | the sequential file server; it implements `ConnectionService` too |
| `Base64FileBody`, `Base64FileBodyProofs` | the base64 response body |
| `ServerTheme`, `ServerThemeProofs` | the demonstration's flows and its pool |
| `MC...` | what TLC checks: the instances, with symmetry sets and small inputs |

An operator marked `VARIANT` just before a definition is that definition with a
plausible bug. It is not part of the model; replacing the definition by it makes
a property fail, which shows that the property depends on the code behaviour.

### Server

State. `accepting`, `handshaking` and `handingOff` are the live coroutines
`do_accept`, `do_handshake`, `do_work`; `backlog` the connections that the
kernel has completed; `queue` and `worker` the pool; `stage`, `reply`, `written`
the pipeline of a connection; `sent` and `gone` what its client has done;
`ended` how the server let it go.

Actions. `Listen`/`BindFails` are `makeAcceptor` and the exception that leaves
`sync_wait`. `Accept`, `AcceptFails`, `HandshakeDone`, `HandshakeFails` and
`HandOff` are one step each for the code between two suspensions of a coroutine.
`Take` is a pool thread picking up a task; `Read`, `Select`, `Process`, `Write`,
`Finish`, `LogError` are the stages of `handleClientRequest`. A stage that
throws goes to `write` with a 500 (`ProcessApplicationError`), and when the
write or the close throws, to `log` (`ProcessSystemError`). `close` ignores the
`error_code` it is handed and calls the throwing overload, so it may throw after the
reply is out (`CloseThrows`).
The request handler is abstract: it answers or throws; `Write` sends all of the
reply (`WriteAll`), finds the client gone (`WriteFails`), or runs out of the file
the body is read from (`WriteComesShort`). `SslOn` picks the stream maker, `AsyncAccept` the
accept loop. `server.hpp` starts the asynchronous loop; the blocking one,
`waitForConnection`, is there to be used instead of it, so both are checked. The
blocking loop is the same chain with a single iteration in place of a coroutine.

Assumptions about code outside the repository:

- The failure paths call `net::spawn(&ioContext, ...)`, with a pointer where the
  success paths pass the reference. It is taken to do the same: spawn the next
  `do_accept`.
- Closing a TLS stream waits for the client's `close_notify` or the end of its
  connection (`CloseReturns`); closing a TCP socket does not wait.
- A `static_thread_pool` does not lose tasks and runs them in no particular
  order.

### RequestForwarder

The constructor's loop is one action per route, so that a constructor that
throws leaves a half-filled table (`phase = "refused"`). A forwarder is named by
the index of the route that made it. `order` is the arbitrary order in which the
`unordered_map` yields its keys, chosen once when the table is complete;
`WildCardMatch` takes the first match in it, as `ranges::find_if` does.
`Candidates` defines the right answers by the configuration alone.

### Forwarder

A body is a sequence of chunks, each labelled with the request it belongs to, so
that mixing is visible. A file is a sequence of chunks and every request has a
write offset (`got`) and a read offset (`Len(out)`) of its own, as two
descriptors on one file have. `getLocalTime` is three steps: it reads the clock
(`Now`), converts that time into the `std::tm` that all threads share (`LocalTime`),
perhaps after another thread has put a later one there, and formats what it then
finds in it (`NameFile`); fields torn between two writers are not modelled. `Fetch` is the forwarder's run, from `beginStream`
to the response or the exception; `Deliver` is what the server then does with the
response: it sends it chunk by chunk, or drops it when the client goes
(`Abandon`). Temporary files are named by the second, a value
of the bounded `clock`. The header kinds are those the code distinguishes:
nothing, a header that is malformed after `Content-Length` and `fileurl` were
seen, `Content-Length` alone, neither, `Content-Length` and `fileurl`.

Assumptions about code outside the repository:

- The length of a response with an `http::file_body` is the number of bytes
  written through that body; its writer reports a short read when the file ends
  before.
- `content_length()` on a parser whose header failed is used as a build without
  assertions would use it.
- The file a `fileurl` names belongs to somebody else. If it is gone the open fails;
  if it shrinks after it was measured, or is a directory, a read comes short while
  the reply is sent (`ShortRead`). Other bytes written over it in place are not
  modelled.

### ReverseProxy

The module extends `Server`, instantiates `Forwarder` with the connections as its
requests, and conjoins their actions. While a connection is at `process`, its pool
thread takes the forwarder's steps (`Forward`); the step that yields a response is
the pipeline's step to `write`, the one that throws is its step to a 500
(`OnThrow`). `Respond` ties each way a write can end to the forwarder's account
of it: `SendDone` with `WriteAll`, `ShortRead` with `WriteComesShort`, and the
destruction of the response with `WriteFails`. `Covered` is all that is left of
`RequestForwarder`: an arbitrary set of connections whose target has a route.
Everything else of the server leaves the forwarders alone (`Beside`).

That the composition refines both components is what makes the results about each
hold for the program: `ServesAsServer` says that the abstract handler of `Server`
is a sound abstraction of the forwarders, `RelaysAsForwarder` that the server uses
the forwarders as `Forwarder` assumes.

### FileServer

`at` is the line the loop is at, `held` the connection whose stream is open.
`Goto("shutdown")` is an exception on its way to the catch block: the guard object
is destroyed before, and its deleter (`Shutdown`) waits for the client's
`close_notify`, unless no TLS session was set up. `Open` is the file's open and the
two answers for one that does not, `Respond` the `http::write` of one that does.
Beast's serializer reads the body once before it emits the header: when that first
read fails, nothing is sent; when a later one does, the reply ends short. `opened`
remembers until the end of the turn that the file was open; `arrived` and `released`
are histories. A target without a name, such as `/`, calls `back()` on an empty
vector; the process may die of it or go on in any way (`at = "dead"`, or any reply).

### Base64FileBody

Bytes are counted, not represented. `Get` is one call of `writer::get`: the base
class reads the file (`Amount`, `Available`, external), the result is encoded on
its own. `Resize` is whoever else writes to the file. `reads` records whether a
read returned less than was asked for, as it does when the file shrinks.

### ServerTheme

The flows of `main` are numbered by its loop variable. A flow runs on one thread
through `validate`, `handle` and `send`. The pool is external: one queue per
thread, filled in turn, stealing allowed, and a thread that is told to stop leaves
only when its own queue is empty. That no flow is dropped by the stop is this
assumption about the library, not a result about `main`. `start_detached` gives the flows no stop token,
so `stopped_to_response` is not reachable.

### HttpRouter

A path is a sequence of pieces of text, slashes included; a member of `Var` in a
pattern stands for a `{name}`. Matches that begin in the middle of a piece are
left out; paths begin with a slash, as request targets do. `Pieces` and `Names` are
the unmatched and matched ranges of `regex_range`, written as functions over the
parts of the pattern (`Cut`, `Named`); the unmatched range has no empty last piece
(`Pieces`). `Places` are the successive `find`s over the path, `Equals` the
`operator==` of `request_mapper`, with its special case for a single piece.
`Register` is `handlers[mapper] = h`, where the subscript finds an *equal* entry.
`ProcessRequest` contains the dispatch, the parameters and `BodyHandlerImpl`'s
type check. A request's query is what `parse_function` makes of it: `params` is what
it parses, `kept` what a `/` in the query leaves in the name, which is then matched
like the rest of the path. Query parameters without `=` are left out: `parse_function` reads
past the end of a vector for them, and there is no value to model.

## 3. What is checked

Every run checks for deadlock. `Idle` in `Server`, `Forwarder` and `FileServer`,
`Refused` in `RequestForwarder` and `Ended` in the small modules are the legitimate
ends: every client has been let go, or the process is over. A state in which something is stuck has no such step.

| Run | Question | Instance | States |
|---|---|---|---|
| `tls` | Can any order of handshakes, failures, hand-offs and requests lose or double the chain, a reader or a reply? Is the service implemented, every connection let go, every patient client answered? | 3 clients (one patient), 1 thread, 1 accept failure, fair | 271 000 |
| `routing` | Is each lookup answered by a route that the configuration names for it? | all configurations of up to 3 routes over 4 keys (exact, nested wildcards, catch-all), all iteration orders | 184 000 |
| `forwarder_mixed` | When can a reply be wrong, and in what way? | 2 requests, bodies of 0 to 2 chunks, every forwarder and header kind, 2 seconds; symmetry | 122 000 |
| `router` | Do dispatch and parameters agree with the patterns? | all pairs of registrations over 7 patterns, 8 paths, 4 queries (two with a `/`), 4 verbs | 235 000 |
| `proxy_two_threads` | Do the real forwarders fit the server? Does anything outlive its stage, is a client that stays ever left without its reply, is any success unfounded? | TCP with its asynchronous loop, where a failed accept ends the process; 2 connections, 2 threads, bodies of 0 or 1 chunk, file and flexible forwarder, every header kind but the missing one, 2 seconds; symmetry | 1 440 000 |
| `proxy_one_thread` | Does the pool bound what is open, are the shared file names harmless with one thread, is a patient client answered, and do the forwarders provide the fairness `Server` assumes? | TCP with the blocking loop and a failed accept; 2 connections (one patient), 1 thread, bodies of 0 or 1 chunk, file and flexible forwarder, headers with a length and with a `fileurl`, 1 second, fair | 222 000 |
| `file_server` | Does any exit of the loop lose a stream, serve out of turn, or leave a request unanswered whose file could be read? Is the service implemented, and every client let go? | 3 clients (one patient), fair | 81 000 |
| `base64_aligned` | When is the declared length right, and can the buffer overflow? | buffers of 6, files of up to 20 bytes that change size at any time | 55 000 |
| `server_theme` | Is every flow answered once, with its own status, before the process exits, and does it exit? | 5 flows, 3 threads, fair | 25 000 |

Why the bounds are enough. Three connections are one on the thread, one in the
chain and one in the backlog at once, which is every kind of neighbour a
connection can have; one thread makes them compete for it, and two make them
concurrent, in `proxy_two_threads`. The three runs of the server, alone or in the
proxy, take the three forms of its accept chain: TLS, TCP with the
asynchronous loop, TCP with the blocking one, each with an accept failure. That the
safety of `Server` does not depend on the numbers is proved.

Two requests are what it takes to share a file, two chunks what it takes to be cut or mixed in the middle, and with a threshold of
one chunk both storage paths occur. Two of three routes can overlap, with the
third to overwrite one of them or to be the default. Two registrations can collide
by exact match or by pattern match, in both orders. The proxy needs two connections
to share a file and two threads to do it at the same time; one chunk is enough, as
being mixed and cut in the middle is the business of `forwarder_mixed`. A base64
buffer of six bytes with files of up to twenty has no, one, two and three full
buffers before a last one of every size. Five flows on three threads give a thread
two flows, one flow or a stolen one. Symmetry is used in safety
runs only. The runs are few on purpose: a question that another run or a theorem
answers has none of its own, and the type invariants that are proved are
not all checked again.

What the properties say:

- `SingleChain`, `OneOwner`, `ReplyAccounting`, `OnlyGenuineServed`: section 4, they
  are proved.
- `AllReleased`, `PatientServed`: every connection is let go in the end (by the file
  server, unless a nameless target has ended the process); a client that sends its request and waits is answered although the others stall the
  handshake, send garbage, or sit on a thread until they leave, and although accepts
  fail: with the TLS maker or the blocking loop a failed accept must not end the
  server. With the TCP maker on the asynchronous loop it does (`AcceptFails`), and
  `proxy_two_threads` includes it.
- `ServiceSpec`: the server implements `ConnectionService`. A connection's status
  is computed from its pipeline (`StatusOf`), the slots are the pool's threads.
- `IntactUnlessShared`, `CutOnlyIfShared`: a reply carries other bytes than those due
  to it, or breaks off, only if its file was open in two requests at the same time (or,
  to break off, if it is the file at a url). Files left behind by earlier requests are
  harmless, because the open truncates them and the body's own size counts. `Due` is
  the upstream's body, or the file at the url; for a response without
  `Content-Length` through the flexible forwarder (`Unread`) it is *nothing*, since the
  code never reads that body.
- `LengthUnaffected`: even when files are shared, a reply that is sent to its end has
  the length of the body due to it, 0 for an `Unread` one. Sharing damages content only.
- `NoFalseSuccess`: no failure of the upstream is presented as success, with two
  exceptions, stated in the property: a malformed header after a `fileurl` that
  opens is answered with the file, and an `Unread` response is a success although
  nothing of its body was received.
- `ServesAsServer`, `RelaysAsForwarder`: the two refinements of the composition.
- `OnlyServedForward`, `UpstreamBound`: what a forwarder has open is open only while
  a pool thread is at `process` or `write` for it, so there is never more of it
  than threads.
- `AnsweredUnlessShared`: a client that stays has one complete reply, a response or a
  500, when its connection is let go, unless its file was shared or is a url's.
  `GenuineSuccess`: a success needs a parsed request, a route, and a complete answer
  of the upstream, with the two exceptions of `NoFalseSuccess`.
- `LoneThreadIntact`: with one thread the three hazards of shared files are gone.
  It is the pool that brings them, and limiting it would be a cure.
- `InTurn`, `AnsweredIfHeard`: the file server's streams are a queue that loses
  nothing, and a request that was read goes without an answer only if its client has
  gone or its file opened and could not be read.
- `ChunkFits`, `NeverTooShort`, `ExactWhenAligned`: the base64 body overflows nothing
  and is never too short; that it may be too long is a disagreement, below.
- `AllAnswered`, `Terminates`: the demonstration answers each flow once, the throwing
  one with its 404, and ends, given the pool assumed in section 2.
- `AnsweredByConfig`, `RefusedIfBroken`: the routing table.
- `RunsForItsKey`: the handler that runs was registered for the verb, with the key
  that matched or a path this key matched. `ParamsRebuildPath`: the path parameters
  are the request's own text, since put between the pieces of the pattern they give
  the path, or an end of it: the first piece is sought anywhere in the path.
- `InstanceFound`: no registration makes a request for an instance of another's
  pattern unfindable. It is about text that is foreign to the pattern. The condition matters: register
  `/{x}/att`, then `/dump/{x}/att`, which takes over the first one's entry under the
  first one's key; `/dump/att/att` is an instance of the second pattern, but the
  key finds its last piece too early in it, so it is not found.

Fairness. The liveness runs use `FairSpec`. The thread in `ioContext.run()` and
the pool's threads keep running, hence weak fairness of the chain's steps, of taking
a task and of a pipeline's steps. A handler returns. A patient client sends its
request in the end, and every client leaves in the end (patient ones after their
reply, or when the server closes without one). That last assumption is needed and is not the code's to give: nothing in
the code has a timeout, so a client that connects and stays silent holds the
handshake, and with it the accept chain, or a pool thread, for as long as it
likes. The hazards list says so. Nothing is assumed about which of several
queued tasks is taken first, and accept failures are not forced to stop
other than by their bound.

`ProxyFairSpec` asks the same of the composition, where a handler that returns
becomes an upstream that answers or fails in the end; `FairAsServer` checks that this
is as much as `Server` assumes. The code does not bound the wait for an upstream.
`FileServer!FairSpec` lets the loop run, patient clients speak and every client leave
in the end; without the latter the first silent client stops the server for good.
`ServerTheme!FairSpec` lets `main` and every thread run.

### Disagreements between code and documentation

Three runs are expected to end in a violation; each shows that the code does not
do what a comment in it says.

| Run | What it shows |
|---|---|
| `forwarder_tmp_shared` | Two requests through a file forwarder share the file `tmp`; one client is sent bytes of the other's response. |
| `router_dump` | The dump server's handlers ask for a `DynamicbodyRequest`; every request is a `StringbodyRequest`, so they always throw. |
| `base64_length` | With a buffer whose size three does not divide, as 4096, a file longer than the buffer is sent with more characters than `size` declares. |

Four more departures from what a reader of the code would expect are visible in
how properties of the passing runs are stated:

- Two large responses in one second share a temporary file; `IntactUnlessShared`
  excepts it together with `tmp`.
- A response without `Content-Length` is returned by the flexible forwarder after its
  header (`reverseproxy/include/abstractforwarder.hpp:224`), and the client is sent a
  success with none of the upstream's body, although `:248` says "Receive the response
  from the target server". `Due`, `NoFalseSuccess`, `GenuineSuccess` and every property
  about a body or its length have to except it (`Unread`); `Relayed` does not.
- For a file that opens but cannot be read (the target `/.` opens the directory
  `/tmp/.`), the file server's `http::write` (`fileserver/fileserver.cpp:116`) throws
  before anything is sent and the catch block only logs: a client that is there gets no
  answer, although `:96` says "Handle an unknown error". `AnsweredIfHeard` excepts it.
- A pattern that ends in its only `{name}` has one piece, is taken for undecorated
  and matches no path, against the comment in `include/request_mapper.hpp:30`. One
  that ends in the last of several has as many pieces as `{name}`s, one gap too few,
  and its handler gets no path parameters at all. `InstanceFound` and
  `ParamsRebuildPath` are about patterns that end in text (`EndsInText`);
  `TrailingName` proves that the code promises nothing beyond.

## 4. What is proved

TLAPS checks the proofs of the `...Proofs` modules for every value of the constants
that satisfies the assumption named in the module they are about: any number of
clients, threads and requests, infinitely many included unless said otherwise, both
stream makers, both accept loops; any alphabet, set of paths and configuration
length; any set of patterns; any body size, threshold and clock; any buffer size;
any number of flows.

### The server

| Theorem | Statement |
|---|---|
| `TypeCorrect` | `Spec => []TypeOK` |
| `ChainIsSingle` | `Spec => []SingleChain`: while the server listens, exactly one coroutine of the accept chain is alive |
| `OwnerIsUnique` | `Spec => []OneOwner`: a live connection is in exactly one of backlog, handshake, hand-off, queue, thread, and nothing else is |
| `RepliesAreCounted` | `Spec => []ReplyAccounting`: one reply before an orderly close; without one a connection is let go only if its client had gone or the body came up short; a close that throws comes after the reply |
| `GenuineServed` | `Spec => []OnlyGenuineServed`: a handler sees only parsed requests, the pool only completed handshakes |
| `Refinement` | `Spec => ServiceSpec`: the server implements `ConnectionService` |

All rest on `Invariance`, `Spec => []IInv`. The invariant `IInv` is the conjunction
of the checked invariants, strengthened in three places, since they are not
inductive by themselves:

- `ChainShape` instead of `SingleChain`: a count of one does not say *which*
  coroutine is alive, so it would allow a hand-off of a connection beside a
  waiting acceptor with the count of -1 elsewhere. The shape names the three
  cases; `ShapeIsSingle` derives the count.
- `StageOfRunning`: a connection has a stage exactly while a thread runs it.
  Without it a stage could be entered by a connection that nobody owns.
- `StageKnows`: what each stage may rely on, for instance that `select` and
  `process` have a parsed request, and that `log` is reached only with a reason.

There is one lemma per action or group of alike actions (`AcceptKeeps`,
`HandOffKeeps`, `StageKeeps`, ...), and two about sequences (`AppendElements`,
`TailElements`) on which the ownership of the backlog rests. The refinement goes
step by step in the same way: accept, handshake and hand-off are stutters of the
service, `Take` assigns a slot, `Write` answers, `Finish` and `LogError` end.

### The routing table

| Theorem | Statement |
|---|---|
| `TypeCorrect` | `Spec => []TypeOK` |
| `LookupIsRight` | `Spec => []AnsweredByConfig`: each lookup is answered by a candidate of the configuration |
| `BrokenIsRefused` | `Spec => []RefusedIfBroken` |

The invariant `RInv` says that at every turn of the loop the table and the default
are those that the routes read so far describe (`TableIsSeen`, `DefaultIsSeen`),
and where the loop is in each phase (`PhaseShape`). When the loop is over,
`TableIsStanding` identifies the table with the standing routes, and
`LookupIsCandidate` follows the three cases of `getForwarder`. `FirstExists`, from
the well-foundedness of the naturals, gives the first match its existence.

### The forwarders

| Theorem | Statement |
|---|---|
| `TypeCorrect` | `Spec => []TypeOK` |
| `Intact` | `Spec => []IntactUnlessShared`: what is sent to its end is what is `Due`, nothing for an `Unread` response |
| `Uncut` | `Spec => []CutOnlyIfShared` |
| `SharingKeepsLength` | `Spec => []LengthUnaffected`: sharing never changes the length, which is that of `Due` |
| `SuccessIsTrue` | `Spec => []NoFalseSuccess`: with its two exceptions, a url's file and an `Unread` response |

The properties speak of finished replies; the invariant `IInv` speaks of every step
on the way. `Position` says what each program counter implies about where the body
is and how much of it has come; `Answered` what a result implies; `SharingKnown`
that two requests which have one file open are both recorded in `shared`; `FileOwn`
that the file of a request that shares it with nobody holds exactly the chunks
received; `Own` that what such a request has sent is a prefix of what is due. The step
that matters is `Open`: it truncates, which would break `FileOwn` of every other
holder, and it records every one of them in the same step.

### The reverse proxy

| Theorem | Statement |
|---|---|
| `ImplementsServer` | `ProxySpec => ServesAsServer` |
| `ImplementsForwarder` | `ProxySpec => RelaysAsForwarder` |
| `NothingOutlives` | `ProxySpec => []OnlyServedForward` |
| `PoolBoundsUpstreams` | `ProxySpec => []UpstreamBound` (the pool is finite) |
| `SuccessIsGenuine` | `ProxySpec => []GenuineSuccess`: a success is sent only for a parsed request that a route covers, on a complete answer, a url's file, or the header alone of an `Unread` response |
| `StayersAreAnswered` | `ProxySpec => []AnsweredUnlessShared`: a client that stays is left without a complete reply only by a shared file or a url's |
| `LoneThreadSharesNothing` | `ProxySpec => [](Cardinality(Worker) = 1 => shared = {})` |
| `LoneThreadKeepsIntact` | `ProxySpec => []LoneThreadIntact`: and then every reply that is sent to its end is what is `Due` to it, and only a url's file is cut short |
| `ClientsGetTheirDue` | `ProxySpec => []DueBody`: with any number of threads, what the client is sent to its end has the length of what is `Due`, and is that unless its file was open twice at once |
| `ProxyRefinesService` | `ProxySpec => ServiceSpec`: the whole proxy implements `ConnectionService` |

The refinements are proved without an invariant, step by step: a step of the
forwarder at `process` is `Process` of the server when it ends and a stutter before.
The invariant for the rest couples the stage of a connection with the program counter
of its request: before `process` the request has not begun, at `process` it
is under way, at `write` it is sending or has failed, after that it is done.
`PoolBoundsUpstreams` maps each busy request to the thread that runs it, and
counts. `StayersAreAnswered` and the results about single replies use that what the
forwarder has done with a response and what its client was sent agree (`Views`), which
`Respond` provides. `SuccessIsGenuine` is the forwarder's `SuccessIsTrue` seen through
it (`RelayedReplies`), and needs besides that a connection which has come to `process`
has a route (`OnlyRouted`). With one thread there is one busy request, hence no second holder of any
file.

The two components' own theorems carry over. `Server`'s hold as they are, because
`ReverseProxyProofs` extends `ServerProofs`. For `Forwarder`'s the module instantiates
`ForwarderProofs` with the connections as requests (`P`): `SameRelay` shows that the
system the theorems are about is the one the proxy is built from, so the forwarders'
invariant is an invariant of the proxy (`RelayInvariance`). `ClientsGetTheirDue` and
`LoneThreadKeepsIntact` are then what the forwarder knows of the body, seen through
`Views` from the client's side of the socket.

### The router

| Theorem | Statement |
|---|---|
| `DispatchIsRight` | `Spec => []RunsForItsKey` |
| `TypeCorrect` | `Spec => []TypeOK`: in particular, parameters are text of the request |
| `ParamsAreTheRequests` | `Spec => []ParamsRebuildPath` |
| `InstancesAreFound` | `Spec => []InstanceFound` |
| `TrailingName` | a pattern that ends in a `{name}` hands on no path parameters, and equals no path if it has one piece |

`DispatchIsRight` rests on the tables alone: each entry leads to a registration for its
verb, with the entry's key or with a path this key was equal to when it took the entry
over (`Sound`). The equality of patterns and paths is never expanded, so the result
holds for any.

The others are about what the matching computes, for a pattern of any length. `Cut`,
`Named`, `Places` and `Woven` are recursive functions, and the library's induction
theorems cannot be used here; instead induction is stated over sets (`Induction`, from
the least number that a set lacks), which needs no operator parameter, and `Recursion`
shows that a function defined from one number to the next exists, so that each of the
four satisfies its equation (`CutIs`, `NamedIs`, `PlacesIs`, `WovenIs`). From these:

- a pattern is its pieces with one `{name}` between each two (`Spread`, `CutSpreads`);
- if the last piece is found, all are, each where the one before has ended or later
  (`PlacesFound`), and the pieces woven with the gaps are one part of the path
  (`Rebuild`). As a pattern that matches ends where the path ends, this is
  `ParamsAreTheRequests`;
- a pattern that ends in text is equal to itself (`SelfEqual`). That is not obvious,
  since each piece is sought from where the last was *found*, and an empty piece
  between two `{name}`s is found too early; but only `{name}`s are skipped so;
- what is equal to a pattern is equal to its instances (`InstanceEqual`), as text
  foreign to the pattern neither hides a piece nor shows one.

`InstancesAreFound` needs one more invariant: each registration has an entry for its
verb whose key is equal to its path (`Covered`). A new entry has the path itself as its
key, one that is taken over was found equal, and no entry ever changes its key.

### The file server, the base64 body, the demonstration

| Module | Theorems |
|---|---|
| `FileServerProofs` | `TypeCorrect`, `ServedInTurn` (`[]InTurn`), `HeardIsAnswered` (`[]AnsweredIfHeard`), `Refinement` (`Spec => ServiceSpec`) |
| `Base64FileBodyProofs` | `TypeCorrect`, `BufferHolds` (`[]ChunkFits`), `LongEnough` (`[]NeverTooShort`), `LengthExact` (`[]ExactWhenAligned`) |
| `ServerThemeProofs` | `TypeCorrect`, `EveryFlowAnswered` (`[]AllAnswered`) |

The refinement of the file server rests on `Placed`: a connection is absent, in the
backlog once, in the turn or released, and never in two of these; and one that has a
reply is in the turn or released. `HeardIsAnswered` needs to know that a file is
opened only for a request that parsed, and answered from only once it is open
(`Heard`). The base64 theorems rest on the invariant that
what has been sent is at least the encoding of what has been read, with equality while
every read was full and either the file fits one buffer or three divides the buffer's
size. In the demonstration each flow is queued, run by exactly
one thread or done; a thread of the pool leaves only with an empty queue, which is
assumed, so that when all are gone every flow is done.

### Only model-checked

- Liveness (`AllReleased`, `PatientServed`, `FairAsServer`, `Terminates`): outside
  TLAPS's reach, as it involves fairness and `ENABLED`.

Every invariant and every action property that a passing run checks is proved. The
three runs that end in a violation are counterexamples and need no proof.

## 5. What is not modelled

- `IncrementalReader` is a commented-out stub. `CopyableMoveWrapper` is unused.
- Registration for DELETE: `add_delete_handler` is a template that does not compile
  when used. Requests with other verbs than GET, PUT and POST are checked by HEAD.
- Formatting, logging, header fields other than the ones above, and TLS options.
- Memory safety, torn writes to `localtime`'s buffer, and the out-of-range read in
  `parse_function`: undefined behaviour without outcomes to enumerate.
- Temporary files are never removed; there is no operation to model.
- The bodies of the dump server's handlers (`fetchFileUrl`, `fetchFile`). As `router_dump`
  shows they are never run, so a model of the hand-over of a file from the dump
  server to the proxy would describe a system that the code is not. What
  the proxy does with a `fileurl` of whatever upstream is in `Forwarder`.
- `make_accept`, `wait_for_connection` and `stopped_to_response` of the demonstration,
  which nothing runs.
- The option loop of the command line (`parseCommandline`): it is sequential and
  leaves nothing behind but two strings.
- A port that is no number or needs more than 16 bits; a deleter of the file server
  whose `close` throws.

## 6. Plan

In order of importance to the system; done are

1. `Server` with `ConnectionService`, and `ServerProofs`.
2. `Forwarder`, and `ForwarderProofs`.
3. `RequestForwarder`, and `RequestForwarderProofs`.
4. `HttpRouter`, and `HttpRouterProofs`.
5. `ReverseProxy`, the composition of the first two, and `ReverseProxyProofs`.
6. `FileServer`, `Base64FileBody` and `ServerTheme`, each with proofs.

Left are

7. `RequestForwarder` as the third part of the composition, in place of `Covered`.
