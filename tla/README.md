# A TLA+ model of the boa web server

Boa serves all its connections from one process. A request is a structure that
moves between three lists; a loop polls the descriptors, moves requests from
*blocked* to *ready*, gives every ready request one turn in a handler, and
disposes of it by the handler's return value. What can go wrong lies in the
order of such steps: a list that changes while it is walked, a flush that blocks
in the wrong place, a timeout against late data, a signal between two tests, a
reference given back once too often. This project models those parts, checks them
with TLC on small instances and proves the central invariants with TLAPS.

Source paths below are relative to `src/src/`.

## Inventory

| component | state | operations | what is hard | what makes it correct |
|---|---|---|---|---|
| queues (`queue.c`) | `request_ready`, `request_block`, `request_free`, `next`, `prev` | `enqueue`, `dequeue`, `block_request`, `ready_request` | pointer surgery in any order, uninitialised links | the pointers are three disjoint lists |
| life cycle (`request.c`) | `struct request`, `total_connections`, `pending_requests` | `get_request`, `process_requests`, `free_request`, `sanitize_request` | accepting inside the traversal, keepalive, every exit path | cursor on its list, counts, nothing leaked or lost |
| loop (`poll.c`, alternatively `select.c`) | descriptor arrays, `watch_server` | `loop`, `update_blocked` | timeouts, EINTR, SIGTERM compaction | everything blocked is woken, the limit holds |
| signals (`signals.c`) | `sigterm_flag`, `sighup_flag`, ... | stage 1 and 2 of SIGTERM, `sighup_run` | signal between test and poll | shutdown ends, reload harms no request |
| reading (`read.c`, parsing in `request.c`) | `client_stream`, `parse_pos`, `logline` | `read_header`, `read_body`, `write_body` | requests split over packets, pipelining, POST | each request parsed once, its fields set once |
| responses (`get.c`, `response.c`, `buffer.c`, `pipe.c`) | `buffer`, `data_fd`, `mmap_entry_var`, `ranges` | `init_get`, `process_get`, `io_shuffle`, `complete_response`, `req_write`, `req_flush` | partial writes, truncated files | the bytes of the response, in order, once |
| CGI (`cgi.c`, `cgi_header.c`, `pipe.c`) | `data_fd` (pipe), `cgi_status` | `init_cgi`, `read_from_pipe`, `write_from_pipe`, `process_cgi_header` | partial failures, waiting on the wrong end | no descriptor lost, no deadlock |
| mmap cache (`mmap_cache.c`) | `mmap_list`, `mmap_list_entries_used` | `find_mmap`, `release_mmap` | sharing, collisions, limit | a holder sees its file; the last release unmaps |
| ranges (`range.c`) | list of ranges, pool | `range_parse`, `ranges_fixup` | numeric edges | the ranges RFC 2616 defines |
| aliases (`alias.c`), tables (`hash.c`), paths (`util.c`) | hash tables, a static path | add, find, clear; `translate_uri`, `clean_pathname` | duplicates, prefixes, stale buffers and caches | the first line that matches answers, on a clean path |
| CGI environment (`cgi.c`) | `common_cgi_env`, `cgi_env` | `add_cgi_env`, `complete_env` | SIGHUP moves the boundary inside a request | a program gets strings in use, each freed once |
| configuration, start-up, logging, addresses, indexer | - | - | sequential, run once or output only | - |

The components meet in `process_requests`: it calls the handlers, which share
`struct request`; `free_request` is the only place that gives resources back;
`loop` and `process_requests` share the lists, `pending_requests` and the flags
that signal handlers set asynchronously.

`PROJECT.json` lists every component, the hazards at their lines, the map from
definitions to lines, the runs, their mutants, and the findings.

## Modules

| module | models |
|---|---|
| `Lists` | the meaning on sequences of enqueue, of dequeue, and of a walk that unlinks some of a list |
| `RequestLists` | the request lists as such sequences, and the traversal `current->next` |
| `RequestQueue` | `queue.c` with its pointers, and every caller that relinks them; a history variable performs the same operations on sequences |
| `Handlers` | each handler as the set of its outcomes: return value and request left behind |
| `Server` | `loop`, `update_blocked`, `process_requests`, `get_request`, `free_request`, signals; clients, clock and operator as the environment. Uses `RequestLists` and `Handlers` |
| `EventWait` | abstract: what an event loop promises a blocked request |
| `Blocking` | what `poll.c` and `select.c` share: blocked and ready requests, turns, signals |
| `PollLoop` | `poll.c` with its two `pollfd` arrays and `pollfd_id`; implements `EventWait` |
| `SelectLoop` | `select.c` with its descriptor sets; implements `EventWait` |
| `ReadHeader` | `read_header`, `read_body`, `write_body` on the bytes of one connection |
| `Transfer` | the bytes of one response through `buffer.c`, `get.c`, `pipe.c`, `cgi_header.c`, `response.c` to the client |
| `Uri` | `unescape_uri`, `clean_pathname`, `check_host`, and what they should compute |
| `Translate` | alias, type and home tables, SIGHUP, `translate_uri`, `init_script_alias`. Uses `Uri` |
| `CgiEnv` | the environments of CGI programs and their common part, with SIGHUP |
| `MmapCache` | `find_mmap` and `release_mmap` |
| `Ranges` | `range.c`: the parser's table character by character, `ranges_fixup`, the ranges of a response one after the other, and the pool |
| `MC...` | instances for TLC; `PollLoop`, `SelectLoop`, `CgiEnv` and `Ranges` need none |
| `ListsProofs` | facts about lists and about recursive functions, which the other proofs use |
| `ServerProofs`, `PollLoopProofs`, `SelectLoopProofs`, `CgiEnvProofs`, `TransferProofs` | theorems about the module they are named after |
| `StructureProofs` | theorems about what all requests share: `RequestQueue`, `MmapCache`, `Translate` |
| `InputProofs` | theorems about what a client sends: `Ranges`, `ReadHeader` |

The modules that look at one component closely (`PollLoop`, `ReadHeader`, `Transfer`,
`CgiEnv`) keep the part of `process_requests` and `free_request` that the component
depends on, and leave the other requests and handlers to `Server`, which in turn
reduces these components to their outcomes.

### How `Server` corresponds to the code

`pc` is where the loop stands: `top` (poll.c 43-100), `poll` and `inpoll` (before
and inside the call of poll), `update` (one blocked request per step), `entry`,
`handle`, `accept`, `dispose` (the parts of `process_requests`), `exit`. The steps
are as small as they must be for what can come between them. Signals set their
flags at any step, clients connect at any step. The clock moves where the code reads
it (in poll, and before each turn). Apart from that, one process runs the loop.

A request keeps what the control depends on: its status (the four states of the line
scanner are one), keepalive, `response_status` by class, whether the request line
has been seen, unsent bytes, `parse_pos` and `client_stream_pos`, `kacount`, the
idle time, and the set `owns` of resource fields that are not null. `lost` is
history: it records a field overwritten or cleared while it owned something, and
response bytes dropped on a working socket. Contents of requests and files are not
modelled, so each handler may take any outcome that some content leads to.

`Handlers` does not correlate these outcomes: for instance the method of a request
is not kept, so a turn of `write_body` may follow any POST. The safety results
therefore cover more behaviours than the code has. The findings were checked against
the code by hand for a behaviour of the real program.

### How the other modules correspond to the code

- **`PollLoop`**. `pfds` is the current array up to `pfd_len`. What earlier rounds left
  behind it, in the other array and in the `revents` of new entries, is never cleared in
  the code and is anything in the model (`Stale`, "stale"). `Block` is `BOA_FD_SET`,
  `LameDuck` and `WatchServer` are poll.c 43-98, `PollReturn` 100-121, `ServerFails` the exit
  on an error of the server socket (108-115, which `Server` leaves out), `update_blocked`
  the copy to the other array and the swap. A request that has timed out has one turn
  left, in which it is freed. What a request can wait for are the cases of `block_request`:
  the socket for reading, for writing and for the rest of the buffer, the pipe of a CGI, the
  file of `io_shuffle`, and the temporary file of a body, the last two of which are always ready.
- **`SelectLoop`** has `fdset_update` instead. Which bit `ready_request` clears depends on
  a status that a timeout has changed, so the bit of a request that timed out may stay until
  `free_request`, in its next turn, clears those of the descriptors it closes
  (request.c 353, 358, 439-440). Descriptors are not numbered: by `Watched` the bits
  given to select are those of open descriptors added since `max_fd` was reset, so that
  neither `max_fd` nor EBADF matters.
- **`ReadHeader`**. Buffers hold positions of the client's stream, so a property can say
  which bytes a call got. `Scan` folds the states of the scanner over what has been read;
  `LineEnd` and `HeaderEnd` are read.c 117-143 and 144-215. `events` is history: the calls
  of `process_logline`, `process_option_line` and `process_header_end`, each with its
  text, and the body that the CGI gets. `Meaning` says, line by line
  and by the LFs alone, what calls a stream should lead to.
- **`Transfer`**. Bytes are numbered as the client should get them. A turn is two steps,
  `Flush` and `Handler`, since the client may empty the socket between them. `room` is the
  room in the socket, `pipe` what the child has written, `raced` history: a handler
  that writes past the buffer did more than block while part of the buffer was unsent.
  A file may be cut short: `io_shuffle` meets its end; `sendfile` returns 0, which the code
  takes for a full socket, so that the request is tried again (`Stalled`) until `Timeout`.
- **`Translate`**. Strings are sequences of characters. A table is its entries in the order
  of their insertion, a chain the entries with one hash, in that order. What
  `clean_pathname` should compute is said by places: those of the parts between two slashes
  that are empty, `.` or `..`, and of the slashes behind them, are left out. A request is
  translated in one step, since nothing in the code waits there; SIGHUP and changes of
  the password database come between requests. `options` accumulates what
  configurations set. `pathname` is the static buffer, with what earlier requests left.
- **`CgiEnv`**. A string is identified by its maker. The common strings end where they end
  now; a request's own begin where they ended at its request line. `wild` and
  `leaking` are history: strings freed by a request that did not make them, and
  requests that left strings of theirs behind.

### Simplifications

- `response_status` 408 only reaches the log, and is left out.
- EINTR from read and write is no outcome: the descriptors are non-blocking. Errors of
  poll other than EINTR are left out.
- malloc and strdup do not fail where the code dies of it; a MimeTypes file can be opened.
- The build options `ACCESS_CONTROL`, `NO_RATE_LIMIT` and `ORIGINAL_BEHAVIOR` are off.
- `TransferSteps`, `Arrivals`, `Restarts` and `Interrupts` bound the transfers,
  connections, SIGHUPs and interrupted polls of a run; `StreamSize`, `BufferSize`, `MaxHeader`,
  `MaxPath` and `EnvMax` stand for the sizes of the code in units.

## Runs

| run | bounds | shows |
|---|---|---|
| `request_queue` | 3 structures, links start with any value | `Represents` |
| `connections` | 2 connections, limit 1, keepalive once, both timeouts, one SIGHUP, SIGTERM | `ListsSeparate`, `CursorOnList`, `Accounting`, `HandlersEquipped`, `NoLeak`, `AcceptWithinLimit` |
| `shutdown` | 2 connections, keepalive once, fairness | `ReadyServed`, `ShutdownEnds`, `BlockedEnds` |
| `mmap_cache` | 4 requests, 3 files of which 2 collide, 3 slots, limit 1 | `RefCounts`, `EntriesUsed`, `DataMapped`, `NoOrphan` |
| `ranges` | 7 characters in all headers, digits 0, 1 and 3, long of 6 bits, int of 5 bits, files of 1, 3 and 13 bytes | `RangesWithin`, `NoRangeLost`, `FixupExact` |
| `poll_loop` | 2 requests, waits for socket, pipe and the file of a body, one interrupted poll, SIGTERM, fairness | `Watched`, `NothingElse`, `WakesWithCause`, `EventWakes` |
| `select_loop` | 2 requests, all waits, one interrupted select, SIGTERM, limit 1, fairness | `Watched`, `LeftOnlyByTimeout`, `WakesWithCause`, `EventWakes` |
| `transfer` | buffer of 8 units, header of 3, socket of 3, one or two ranges, files cut short anywhere, 10 kinds of response, fairness | `BufferBounds`, `InOrder`, `AllSent`, `DiesOnlyAtTheEdge`, `Ends` |
| `read_header` | client stream of 8 bytes, 864 streams of a request, an option and what follows, cut anywhere, bodies of 0, 1 and 3 bytes, fairness | `StreamBounds`, `SplitFree`, `Served` |
| `translate` | 7 configurations, 31 requests, paths of at most 8 characters, 2 chains per table | `FirstMatch`, `TablesCurrent`, `CleanPath`, `ScriptSplit` |
| `cgi_env` | 2 requests, arrays of 5, up to 2 CGIEnv lines, any number of SIGHUPs | `OwnFreed`, `NoStringLost`, `ChildEnv` |
| `response_flush` | 1 connection | the one violation: `ResponseFlushed` |

The type invariants are not runs of their own: they are a conjunct of `HandlersEquipped`,
`RangesWithin`, `NothingElse`, `Watched` (select), `BufferBounds`, `StreamBounds` and
`TablesCurrent`. They are all proved, for `RequestQueue`, `MmapCache` and `CgiEnv` in
theorems of their own name, for the others as such a conjunct.

Why the bounds are enough: three structures give a list a head, a middle and a tail;
two connections give a traversal a current and a next request, with one more
accepted in between; exceeding a limit of one takes two connections, and a third would show in `AcceptWithinLimit`
as the permission to accept that is left after the second; the properties of handlers concern one request at a
time, and a second request on the connection shows what the first one left behind.
In the cache three slots allow
a collision, a wrap-around and a full table. Seven characters hold two ranges with
both ends, or numbers that wrap; the three sizes are the one-byte file, one below and
one above most of the numbers. `UIntMax` differs from `Minus1` as on LP64, which is
why `bytes=-` is not refused at range.c 358 but goes on to `ranges_fixup`.

In the poll loop two requests and the server give an array of three entries, four after
an interrupted round, of which SIGTERM removes one in every order of the others. In
`transfer` the ranges end in the middle of the buffer, in its last units, at its edge and behind it;
a header of a CGI fits in half the buffer, does not, or ends at its edge; a socket of three
units makes most writes partial. In `read_header` every stream that matters is shorter,
as long or longer than the buffer by a byte, and every position can be the end of a read. In `translate` names
collide in both tables, a name is a prefix of another, and the paths lie on both sides of the limit.
In `cgi_env` an array of five is filled by common strings alone, by one request's, or by both.

Every property of these runs is violated by a mutant: a variant of a definition
(`FreeAfterNewKept`, `req_flushAgain`, `update_blockedKeepsIds` and so on, defined in front of the original)
that changes it as a plausible slip in the code would.

### Refinement

`EventWait` says when a blocked request is made ready: when what it waits for has
happened or its time is up (safety), and then it is (liveness); one whose time is up
does not wait again but is closed. Nothing is said of the
requests in `loose`. `PollLoop` implements it with `loose` the requests that the removal
of the server's entry has separated from theirs: none until SIGTERM, then at most
one; a server that exits leaves all of them. `SelectLoop` implements it with `loose` always empty. The safety part is proved
for both (`PollRefines`, `SelectRefines`), the liveness part is checked by TLC.

### Fairness

- `Server`: weak fairness of the loop (the process is scheduled) and strong
  fairness of `Tick` (the clock goes on: each wait in poll, and each turn, takes time now
  and then). Nothing is assumed of clients, of the operator or of the choice between
  outcomes: a client may stay silent, read nothing, or send one byte at a time as far
  as the bounds go. That is why the timeouts carry the liveness results.
- `PollLoop`, `SelectLoop`: weak fairness of the loop, nothing of the outside.
- `Transfer`: the server and the child run, and the client reads (`Drain`); whether the
  connection breaks is left open. The clock goes on: strong fairness of `Timeout`, since a stalled
  request is made ready and blocks again while `time_last` stays where it is (request.c 570 and 576 set it only
  for the other return values). `ReadHeader`: the server runs and what the client has
  sent arrives.

In `Server`, `Transfer` and `ReadHeader` the conditions are written with state predicates
(`Runnable`, `Ticking`) in place of ENABLED, which makes TLC much faster; on smaller instances
TLC confirmed that they imply and are implied by the WF and SF formulas of the comments.

### Where the code differs from what is said of it

One listed run expects a violation. `response_flush`: `free_request` says that it flushes
exactly as the DONE state does. It does not tell blocked from complete, and drops the
rest of the response.

The others have a cfg to run by hand, with `tlc -config X.cfg M`; each checks one statement
of a comment or a document, and TLC finds it violated:

| cfg, module | property | what is said | what the code does |
|---|---|---|---|
| `MCServerPost`, `MCServer` | `PostDataClosed` | CHANGES:698 "Close and unlink temp file for POST in parent process" | an HTTP/0.9 POST goes through `process_header_end` twice (read.c:140) and loses its first temporary file (request.c:878) |
| `MCServerKeepAlive`, `MCServer` | `KeepAliveTimeoutUnread` | poll.c:153 "a keepalive timeout is a timeout where keepalive is active but nothing has been read yet" | the test at poll.c:190 also ends one with a partial request line |
| `MCServerSigTerm`, `MCServer` | `SigTermExits` | CHANGES:697 "SIGTERM triggers lame duck mode until all pending transactions complete" | SIGTERM between the test of its flag and poll (poll.c:104) is noticed only at the next event |
| `PollSigTerm`, `PollLoop` | `NoneLost` | poll.c:60 "remove server_pfd" | poll.c:67 copies by the index of the target: the last entry goes, which may be a blocked request's |
| `MCRangeSuffix`, `Ranges` | `SuffixWhole` | range.c:172 "last N bytes of the entity body." | `bytes=-N` of a file with at most N bytes is sent without its first byte (range.c:178), and a file of one byte is answered with 416 |
| `PipeTerminator`, `MCTransfer` | `NeighbourKept` | pipe.c:49 "Could the above statement overwrite data??? No" | a full buffer holds one byte more than `BUFFER_SIZE` (pipe.c:43) and the terminator is stored behind the array |
| `Pipelining`, `MCReadHeader` | `Pipelining` | CHANGES:608 "pipelining changes... it works now." | after a keepalive response the request blocks (request.c:394) although the next request may have been read |
| `ExtraPath`, `MCTranslate` | `OwnExtraPath` | alias.c:607 "realname/cginame/foo and index points to the '/foo' part" | for a URI that is the alias itself the search starts behind the terminator (alias.c:534), in what an earlier request left in the static buffer |
| `Reload`, `MCTranslate` | `Reloaded` | docs/boa.texi:626-630 "All other configuration changes should take place smoothly." | options are not set back before the configuration is read again; a switch between VHostRoot and DocumentRoot ends the server (config.c:578) |
| `MCServerLimit`, `MCServer` | `StopsAtLimit` | docs/boa.texi:469-472 "Once Boa reaches this limit, it stops accepting connections" | one connection more is accepted (request.c 244-255) and answered with a 503; `AcceptWithinLimit` is what holds |
| `SlashAlias`, `MCTranslate` | `AliasesMatch` | docs/boa.texi:435-437 "they match the beginning of a request" | an alias of `/` is looked for in the chain of the URI's first part, and found only when that happens to have its hash (alias.c 54-73); `FirstMatch` is what holds |
| `MmapLimit`, `MCMmapCache` | `WithinLimit` | mmap_cache.c:73 "Disallow more entries than MMAP_LIST_USE_MAX" | the test at mmap_cache.c:76 is `>`: one entry more is admitted |
| `PartFits`, `MCTransfer` | `PartFits` | get.c:448 "this will fit due to the 256 extra bytes_free" | the bytes kept for the header of the next part are filled by a first range that ends there; `req_write` gives the request up |
| `CgiEnvLimit`, `CgiEnv` | `LimitNotReached` | cgi.c:124 "I find it hard to believe that somebody would actually make 90+ *common* CGI variables" | every SIGHUP appends the CGIEnv lines again, and the server exits when the array is full |

Without a cfg:

- The CGIEnv lines of the first reading are lost: boa.c 87-88 reads the configuration
  before `create_common_env` makes a new array. They are there after a SIGHUP.
- A SIGHUP between the request line and the CGI moves the boundary between common and
  own variables: the request's first strings are overwritten and never freed. `ChildEnv`
  and `NoStringLost` say what holds with and without one.
- The Referer header is added to the environment twice (request.c 980 falls through).
- A ScriptAlias of a single file takes no path info.
- `clean_pathname` keeps what is behind the last slash: a URI that ends in `/..` is looked up
  with the `..` at its end (`CleanPath` speaks of the parts in front of it).
- A CGI that answers on a socket that fills up, `sendfile` and `process_get` may overtake
  the buffered header (request.c 485; `raced` in `Transfer`).

## Proofs

All constants are arbitrary within the assumptions that the modules name: numbers are
numbers, the set of requests is finite where requests are counted, and NULL and the server are no
requests (`NullAssumption`, `ServerAssumption`); reading is something to wait for
(`BlockingAssumption`); `unsigned long` has an even number of values and is wide enough for
the sizes of files (`RangeAssumption`); `HandlerAssumption`, `CacheAssumption`, `CgiEnvAssumption` and
`ReadHeaderAssumption` likewise. `TransferAssumption` has the header of a response shorter than half
the buffer, and with that of a part shorter than all of it (a few hundred bytes of 4096). `UriAssumption` says that NUL and the slash are
characters and that two hex digits make one; `TranslateAssumption` that alias lines have two names (the parser
of the configuration gives no empty ones), and of the disk that no name is two kinds of file and that what
is in front of a slash in the name of a script is a directory.
The one theorem with a further hypothesis is `FixupCorrect`.

- `ListsProofs`: what `Push`, `DropAt`, `Remove` and `Kept` do to the elements,
  the length, the distinctness and the places of a sequence, for every sequence. A walk is a
  recursive function, and what it has kept after i places is shown by the least place at which
  the claim fails (`LeastNumber`, from the library's `WFMin`), which stands in for the induction
  theorems that the provers cannot use. `KeptPlaces` is the main fact: the kept places
  correspond to those of the result, in order. `RecursionExists` and `BackRecursionExists` say that a function
  defined from its value one place before, or at some place behind, exists; with them the recursive functions of
  the models have the values that their definitions give. `PicksUnique`: what is left of a list is determined
  by the places that are kept.
- `StructureProofs!QueueCorrect`: `Spec => [](TypeOK /\ OnOneList /\ Represents)`, which is
  its own inductive invariant. `Represents` alone is not
  inductive: dequeue writes to the neighbours it finds in the links, and that this
  hurts no other list follows from the lists being disjoint. One lemma each
  for dequeue and enqueue on a record of links; all operations follow from these two.
- `ServerProofs!ListsCorrect`: `Spec => [](ListsSeparate /\ CursorOnList /\ Accounting)`.
  The invariant adds the types of the lists. It does not depend on the handlers:
  whatever return value and request they produce, the bookkeeping holds.
- `ServerProofs!LimitRespected`: `Spec => AcceptWithinLimit`. Needs that
  `pending_requests` is set only while the server socket is watched, and that the
  count then does not exceed the limit (`LimitInv`), through SIGHUP as well; where the lists are
  (`ListInv`), so that a request that appears on the ready list was accepted or woken; and what a structure
  holds (`RequestInv`), so that the 503 leaves it DONE.
- `ServerProofs!RequestsCorrect`: `Spec => [](HandlersEquipped /\ NoLeak)`. `NoLeak` leaves
  `post_data_fd` out, which an HTTP/0.9 POST overwrites (`PostDataClosed`). Neither is
  inductive: whether a handler finds what it dereferences, and overwrites nothing,
  depends on what every handler before it left behind. `RequestInv` says that each structure
  is `Sound` (of its type, nothing lost, the scanner not ahead of what was read) and
  that each one in use is `Fit` for the handler of its status, which includes that
  no file is open before a response starts; the exception is the one about to be freed.
  There is a lemma for each handler: from a fit request every outcome is `Good`, that is, sound, and
  fit unless the request is over. `ControlInv` and `ArrivalInv` give the types of the loop's
  variables, and `ListsCorrect` where the request of a step is.
- `StructureProofs!CacheCorrect`: `CacheSpec => [](CacheTypeOK /\ RefCounts /\ EntriesUsed /\
  DataMapped /\ NoOrphan)`. `EntriesUsed` is that the count is exact, not that it keeps the limit. The invariant adds `Consistent`: an entry in use is mapped to the file it
  names. `DataMapped` needs the counts (no entry with a holder is recycled), and the
  counts need cardinalities of holder sets (`AddHolder`, `RemoveHolder`).
- `CgiEnvProofs!EnvCorrect`: `Spec => [](TypeOK /\ OwnFreed /\ NoStringLost)`. The history
  variables say nothing of the array, so the invariant (`EnvInv`) describes it: of
  a request past its request line, the slots from the boundary to the index hold its own
  strings and nothing else (`Boundary`), wherever SIGHUP has moved the boundary; and while it
  has not moved, they hold them all, in order (`Exact`). `OwnFreed` follows from the
  first, `NoStringLost` from the second.
- `CgiEnvProofs!ChildrenCorrect`: `Spec => []ChildEnv`. What a program gets is computed in one
  step from the array that `EnvInv` describes; the work is in `complete_env`, which copies the
  common strings over the front of an array whose boundary may have moved: what it has added since is
  behind them (`Added`), what the header lines added before may be covered.
- `InputProofs!RangesCorrect`: `Spec => [](RangesWithin /\ NoRangeLost)`, for every
  width and headers of any length. `RangeInv` adds that `numranges` counts the list until
  `ranges_fixup`, and that a response under way has a range to send.
- `InputProofs!FixupCorrect`: `Spec => FixupExact`, for files of up to 2^32 bytes and
  headers without a suffix at least as long as the file (those are `SuffixWhole`, which does not hold). The
  hypothesis is the code's limit: range.c 156 compares an end of type
  `unsigned long` with `(unsigned) -1`, and on LP64 an end of exactly that value is then taken
  for a missing one, which is wrong in a larger file. That the walk of `ranges_fixup` keeps the right
  ranges in order is `KeptPlaces`.
- `PollLoopProofs!PollWatches`: `Spec => [](Watched /\ NothingElse)`. The invariant
  (`PollInv`) adds that no two blocked requests share a place; that places lie in the array when
  requests block, so that an append overwrites none (`PlacesApart`); that two lost
  requests are the same one (`LostOne`, from the removal of one entry by SIGTERM, which happens once); and
  the number of the server's entries in each part of a round (`EntriesCounted`).
- `PollLoopProofs!PollRefines`: `Spec => WakesWithCause`, each action a step of `EventWait` or
  a stutter. Needs `ResultsTrue`: the result at the place of a request that is not lost is of
  this poll, and tells of something that has happened.
- `SelectLoopProofs!SelectWatches`: `Spec => []Watched`: select gets the bits of the blocked
  requests, all of them and no others but the server's. The invariant (`SelectInv`) follows
  the bits through a round: all set outside of `fdset_update` (`BitsKept`), within it
  only true ones (`BitsTrue`), and none left behind but by a request that timed out and has its
  last turn still to come (`BitsOwn`). The last rests on the clearing in `free_request`: without
  it a closed descriptor's bit would stay, and select would fail with EBADF.
- `SelectLoopProofs!SelectLeaves`: `Spec => LeftOnlyByTimeout`, and `SelectRefines`:
  `Spec => WakesWithCause`, both from `SelectInv`.
- `InputProofs!StreamBounded`: `ReadSpec => []StreamBounds`, for every size of the buffers, every stream
  and every way to cut it. `ReadInv` adds where the body of a POST lies in each state (`Body`): before the
  header has ended nothing is in the second buffer, and what waits to be written is never more than what is
  still missing. A scan is a recursive function; after i bytes `Scanned` holds.
- `InputProofs!StreamSplit`: `ReadSpec => []SplitFree`, for every size of the buffers, every stream, every
  content length and every way to cut the bytes into reads. The property compares the calls with a reading of
  the whole prefix (`Meaning`, which goes line by line), and says nothing of how the scanner got there; the
  invariant (`SplitInv`) says where the scanner is in that reading. `Reached` is the core: the reference is at m after some line whatever follows
  that line, so that m stays right when more bytes come. While the header is read (`ScanState`), the status of the
  scanner tells which of the bytes since m are CRs and where the last letter is (`LineSoFar`), and client_stream holds the
  bytes of the request from m on (`RequestSoFar`, with the HTTP/0.9 POST apart, whose request line
  stays the current one). While a body is read or written (`BodyState`), the file, what waits in the buffer and what
  is still to come are the body in order. A response with keepalive has the next request behind what was
  parsed (`NextState`). `ByteOutcome` is the step: one byte keeps `ScanState`, or the line has ended or is refused and
  the calls are those of the reference; `ScanOutcome` carries it over a read, and there is a lemma for each action.
- `TransferProofs!TransferBounded`: `Spec => []BufferBounds`, for all sizes of buffer, header, socket and
  response, any ranges, any sequence of partial writes. Not inductive: whether a write fits depends on which
  part of the response is under way. `TInv` says for every state of a request what the buffer may hold
  (`Sane`) and which bytes are where: those sent, those in the buffer, and those still to come follow each other
  without a gap. The proof showed that `buffer_start <= buffer_end` is not true of a request that was
  given up, since only `buffer_end` is reset then; nothing reads the two afterwards.
- `TransferProofs!TransferOrdered`, `TransferAllSent`, `TransferDies`: `InOrder`, `AllSent` and
  `DiesOnlyAtTheEdge` from the same invariant. After a race the bytes sent, those in the buffer and those to
  come are no longer one after the other; for a single range `Whole` keeps that together they are still all
  bytes of the response, each once, which is the second half of `AllSent`. A second range may then be given up
  or begin anywhere, and nothing is claimed of it.
- `StructureProofs!TablesCorrect` and `AliasCorrect`: `TransSpec => []TablesCurrent` and
  `TransSpec => []FirstMatch`. `TransInv` says that the tables are those that the configuration read last makes out
  of empty ones, that every cached home was held, and that an answer goes back to the tables. What remains
  is a fact about tables (`TableFirst`): when only lines are dropped that have an equal in the table, the first entry
  of any set that does not tell equals apart is its first line. For aliases the set is that of the lines in the chain of
  the URI that match it, and a name that matches has the first part of the URI (`MatchFirstPart`), but for `/`. Whether its line is in the
  chain depends on the hash, so `FirstMatch` allows the first match with and without it.
- `StructureProofs!ScriptCorrect`: `TransSpec => []ScriptSplit`. The static buffer may hold anything behind the
  path. The search ends at the first slash behind what is no directory, or at the terminator (`SplitIs`), except
  when the URI is the alias itself: then it begins behind the terminator, in what an earlier request left, and all that
  is shown is that the name of the script ends at the terminator (C strings), so that no other script is run. A script that were missed would have the search stop in front of it, at what is
  no directory, against the assumption on the disk.
- `StructureProofs!PathClean`: `TransSpec => []CleanPath`, which is about the parts in front of the last slash. `CleanIsCleaned` compares `clean_pathname`, which skips parts as it goes,
  with the places of `Unclean`: what is skipped behind a slash is covered by such parts, and none of them reaches beyond.
  That cleaning again changes nothing (`CleanNoBad`, `NoBadFixed`) does not follow from that, since
  leaving a part out brings others together: it rests on the character behind the skipped part not beginning another.

Only model-checked:

- the liveness properties `ReadyServed`, `ShutdownEnds`, `BlockedEnds`, `EventWakes`, `Ends`
  and `Served`: fairness is outside the prover's reach.

## Plan

Done: the modules, runs and theorems above. Left: of the components, the directory indexer and
access control, which share no state with the loop.

## Not modelled

Start-up (but for one order of calls), the text of the configuration, logging, address conversion, dates, escaping, HTML
and header text, the directory indexer: sequential code
without state that the loop shares, or output only. Access control matches patterns with
fnmatch and is off by default. Children of CGI requests after
the fork are processes of their own; the models keep their effect on the pipe and the socket.
`create_argv` is data for the child.
