# Verification of CDBNPP

TLA+ models of the CDBNPP conditions database library (C++, `lib/`), its REST
service (PHP, `rest/`) and the parts of the command line tool that exercise
them, with TLC configurations and TLAPS proofs. `PROJECT.json` lists the
components, the runs, the source lines each definition translates, the
findings, the hazards and the theorems.

    tlc -workers 2 -config iov_time.cfg MCIovStore     # one run
    tlapm UploadProofs.tla                             # the proofs of one module

## The system

CDBNPP stores *payloads* (calibration data) of *structs*. A struct is a leaf
of a tree of *tags*; each struct has two tables, `cdb_iov_<tb>` (one row per
payload: flavor, coordinates, create and deactivation time, URI) and
`cdb_data_<tb>` (the data). Coordinates are an interval of validity in event
time (tag mode 1) or a run and sequence number (mode 2). A query names struct
paths, an ordered list of flavors, event coordinates and a *max entry time*:
rows created later or deactivated by then are not seen, which is what makes an
analysis repeatable.

| component | state | operations | talks to |
|---|---|---|---|
| `Service` (`service.cpp`) | enabled adapters in order, flavors, event coordinates, max entry time | `init`, `getPayloads`, `setPayload`, `prepareUpload`, `deactivatePayload`, tag and schema calls, `resolveURI` | calls the adapters in order, the first valid answer wins |
| memory adapter | `mCache` (deque of shared payload objects), byte count, limits, a `shared_mutex` | `getPayload`, `setPayload`, `maintainCacheWithinLimits` | shares payload objects with callers |
| file adapter | a directory tree with attributes in file names, a `shared_mutex` | `getPayloads`, `setPayload`, `prepareUpload`, `createTag`, schemas | file system |
| db adapter | SOCI session, access mode, tag maps, one process mutex | payload, tag and schema operations, `downloadMetadata`, session handling | SQL database |
| http adapter | tag maps, HTTP client, tokens | the same over HTTP | REST service through `HttpCurlHolder::Perform` |
| REST service (`rest/cdbnpp/service.php`) | the same tables | `payload_get`, `payload_set`, `payload_deactivate`, tag and schema calls, `download` | SQL database |
| `Payload` | coordinates, mode, URI, data, format | setters with side effects, `valid`, `ready` | held by clients, the cache and adapters at once |
| `Chain` (`core/chain.h`) | modules and, per iteration, the sets of active, available, processed and finished modules and a queue of futures | `setMaxThreads`, `execute`, `doIteration` | one `std::async` thread per module |

What is hard here, and what makes each part correct:

* **Interval table.** The create time is taken long before the insert, a query
  is up to two statements under separate locks, and administrators deactivate
  at times they choose. Correct means versioned access: an answer for an entry
  time that has passed never changes, and a query is as good as atomic.
* **Uploads.** Two tables, a payload object changed inside the transaction,
  fallback to the next adapter, retries after 5xx answers, answers that are
  lost or late. Correct means: interval and data appear together or not at
  all, once; what is reported as stored can be read back.
* **Memory cache.** Nested locking of one mutex, a running byte count over
  objects that others change, limits. Correct means: calls end, the count is
  exact, the limits hold, the oldest goes first and nothing that could stay,
  what was cached is found.
* **Chain.** Threads end in any order, one may fail or throw, the scheduler
  looks at the oldest future only. Correct means: requirements first, the
  thread bound, no thread left behind, termination, errors that end the run.
* **Session and metadata.** One mutex that covers single statements, with the
  access mode, the connection and the tag maps shared by threads around it.
  Correct means: a statement runs with the rights its call asked for, on an
  open session; no call fails but for the database; the mutex is given back.
* **Tags and schemas.** Operations of several statements that can fail or crash
  in between, clients that go by metadata they have downloaded long ago,
  requests that are repeated. Correct means: no tag without its parents, no
  struct announced without its tables, two structs never in one table, no
  schema replaced by another client's.
* **File store.** A mutex that readers take twice, data read outside it, files
  written in two steps by processes that may end in between, names that
  collide. Correct means: what is reported as stored can be read back whole,
  once, and a schema in place is enforced.

## Modules

| module | what it is |
|---|---|
| `ModuleOrder` | what a chain promises, without a scheduler |
| `Chain` | the scheduler of `core/chain.h` |
| `MCChain` | a chain in the manner of `examples/modules` |
| `ChainProofs` | theorems about `Chain`, for any chain |
| `IovStore` | one `cdb_iov_<tb>` under uploads, deactivations and queries of the db adapter |
| `MCIovStore` | structs by time and by run |
| `IovProofs` | theorems about `IovStore` |
| `AtomicUpload` | what an upload promises, without transactions, adapters or network |
| `Upload` | `Service::setPayload` over the db and http adapters and the REST service's `payload_set` |
| `MCUpload` | two rival payloads, with the kinds of data they may hold |
| `UploadProofs` | theorems about `Upload` |
| `MemoryCache` | `Service::getPayloads` over the memory and db adapters, and `resolveURI` |
| `MCMemoryCache` | two structs and small limits |
| `MemoryCacheProofs` | theorems about `MemoryCache` |
| `TagTree` | what tags and schemas promise, each operation in one step |
| `TagStore` | tags, structs and schemas, changed by processes with the db or the http adapter and the REST service |
| `MCTagStore` | a folder and two structs that have one table name |
| `TagProofs` | theorems about `TagStore` |
| `DbSession` | access mode, connection, tag maps and mutex of the db adapter, under several threads |
| `MCDbSession` | two modes, one of them with two nodes |
| `SessionProofs` | theorems about `DbSession` |
| `FileStore` | the directory of the file adapter, under threads of several processes |
| `MCFileStore` | two processes, three payloads with the same coordinates |
| `FileProofs` | theorems about `FileStore` |
| `FileQuery` | which file of a directory answers a query |
| `MCFileQuery` | directories by time and by run |
| `FileQueryProofs` | theorems about `FileQuery` |

`Upload` is shown to implement `AtomicUpload`, `Chain` `ModuleOrder` and
`TagStore` `TagTree`. `Upload` composes the client, both adapters and the
service; `TagStore` does so for tags; `FileStore` leaves to `FileQuery` which
file is found, and `FileQuery` compares the answer with that of the db adapter.

A definition named `F_faulty`, or `F_` and a word for the mistake, is a wrong
version of `F`. No specification uses it; putting it in the place of `F` makes
a property fail, which `PROJECT.json` records under `mutants`.

### Chain

`pc` is where the caller's thread is in `execute` and `doIteration`; `exec[m]`
is module `m`'s thread. One pass of the `do ... while` body is a sequence of
`Launch` steps, then one collecting step (`CollectOk`, `CollectFailed`,
`CollectThrew`, or `RefreshIdle` when nothing runs) that ends in `Refresh`, the
loop over `active_modules`. Modules end (`Finish`) at any time, with success,
an error, or an exception. `LaunchThrows` is `std::async` without a thread to
give. `Unwind` is the destruction of the queue, whose futures join their
threads.

`Drain` is the loop after a module's error. `get()` has consumed the front
future, so `wait()` on it is outside its contract; the model takes what the
library builds do, an exception or a crash.

### IovStore

`iov` is the table and `now` the clock of the client that is ahead of all
others; a client's clock may lag by `Skew`. An upload is `BeginUpload` (up to
`std::time(nullptr)`) and `CommitUpload` (the transaction), a deactivation
`BeginDeactivate` and `CommitDeactivate` (the `UPDATE`), and `GiveUp` is every
way to fail. A query is `BeginRead`, a `ProbeMisses` per flavor without
an answer, and `ProbeHits`; for an open interval `FindEnd`, the second
`SELECT`, follows. `LIMIT 1` takes any of the rows that tie. The end is read
into an unsigned `0 -> uint64 max` and stored in an `int64_t`: -1.

An entry time `mt` is *settled* when every clock has passed it and no write
stamped at or before it is under way. `Disciplined` is what administrators have
to observe and the code does not enforce: deactivate only an active payload,
one at a time, and not into the past. Without it a second deactivation moves or
removes an earlier one and settled answers change.

### Upload

`content` is what a payload has been prepared with: text, binary data with a NUL
byte somewhere or in front, or no data but a URI. The client is `payload` (the
URI it holds, and whether it still holds data), `pc`, `k` (the adapter reached)
and `sent` (requests of the retry loop). `flight` holds requests the REST service
has yet to handle: a request may be handled late, after the client has timed
out, fallen back, called again or posted again. `Posted` is what
`curl_mime_data` with `CURL_ZERO_TERMINATED` makes of the data
(`http_curl_holder.cpp:108`): it ends at the first NUL, and where that comes
first the service finds no data. `iov` and `blob` are the rows of the two
tables, with the form of the URI and of the data, since what can read them
differs: the db adapter stores base64 behind `db://<tb>/<id>`, the service raw
data behind `db://<tb>`.

The code loses data in three ways, and `Excused` names them by their cause:
a transaction that is rolled back has dropped the data from the payload object,
and a later try or adapter works with the rest (`spent`); data with a NUL is cut
when it is posted; an external URI does not survive the service's
`sanitize_alnum`. `StoredIsReadable` and `AtomicUpload` let an entry be `short`
for these reasons and for no other. Each of the three occurs in the run: without
any one of them TLC finds `StoredIsReadable` violated.

`DbDataFails`, `DbRollback`, `DbCommit` and `DbCommitUnheard` are the outcomes
of the transaction (failure at the first statement, failure later, success,
success whose confirmation is lost). `Post`, `GatewayError`, `Timeout` and the
answers within `ServerStores` and `ServerRejects` are the retry loop; a request
that is lost before it is handled looks like one that is rejected unheard.
`Refuse` is every check before the first statement or request. `max_retries` is
below the largest `unsigned int`: at that value the loop bound wraps to 0,
nothing is posted, and success is reported.

### MemoryCache

`objects` are payload objects, to which `cache` and the results `found` of calls
point; `bytes` is `mCacheSizeBytes`, modulo `SizeMax + 1`. The limits in force
are those after `Service::init`, with `setCacheItemLimit` as it is. `setPayload`
locks a `std::shared_mutex` a second time in `maintainCacheWithinLimits`. That
is undefined, and the variable `relock`, chosen once, names two outcomes:
glibc's `lock_shared` reports the deadlock and throws; in a process without a
threads library the locks of libstdc++ do nothing and the call proceeds. An
implementation that hangs has no later behaviour to check. In both cases the
adapter's calls exclude each other and are single steps. `fetch`, also chosen
once, is whether the application asks for the data along with the payloads.

`WithinLimits` is what the comment in `maintainCacheWithinLimits` says, with the
limits that are configured, and the code does not keep it (`cache_limits`). What
it does keep is the other side, `EvictsOnlyExcess`: a payload goes only if,
with all that came later, it is above a LO limit. It is stated of the sizes
themselves, so that a count that has drifted or wrapped would show.

A path stands for one struct with one payload for the event asked for, so the
lookup compares path and mode only; flavors, times and runs are left out.

### TagStore

`row`, `iov`, `data` and `schema` are the tables of the database: the rows of
`cdb_tags`, the names of the two kinds of struct tables (one constraint: table
names are unique), and the rows of `cdb_schemas`. A client is a process with
one thread. Its call is a `job`, a sequence of items: one for `createTag`,
`setTagSchema` and `dropTagSchema`, those of the file for `importTagsSchemas`,
which goes on after a failed item and reports success at the end only if none
has failed.

With the db adapter an item is `DbItem` (the checks against metadata downloaded
in this call, and for a schema the `SELECT` under the first lock), `DbWrite`
(the `INSERT` or `DELETE`) and, for a struct, `DbTables` (one transaction).
With the http adapter it is `HttpItem`, which posts a request, and the retry
loop; the service takes a request up in `ServerWrite`, `ServerIov` and
`ServerData`, three statements without a transaction. `Crash` ends a client
anywhere; its requests live on. `Seen` is what a client goes by: the db adapter
downloads in every call, since it never sets `mMetadataAvailable`; the http
adapter downloads once and learns neither of other clients' tags nor of those
it makes itself. `Downloaded` leaves out rows that lack a parent, as the path
of such a row cannot be put together.

What the model shows besides the properties: `createTag` by reference, which is
how the http adapter imports, asks for no parents, so that `NoOrphans` and
`TreeSpec` are stated without http imports; the recipes for MySQL
(`rest/cdbnpp/settings.php:47`) say `IF NOT EXISTS`, with which two structs of
the same table name silently share tables, so that `OwnTables` is stated for
the other recipes; a struct whose tables fail keeps its row for good and cannot
be created again; the answer to an http `dropTagSchema` names the `pid` where
the client looks for an `id`, so that every drop is reported as failed.

### DbSession

`mode`, `connected` and `session` are `mAccessMode`, `mIsConnected` and the
rights the SOCI session was opened with. `pc` follows a call: the download of
the metadata (`Start`, `Clear`, `Fill`), `setAccessMode` (`SetMode`, `Switch`),
`ensureConnection` (`Ensure`), each of which may go through `reconnect`
(`BeginReconnect`, `Disconnect`, `Pick`, `GetNode`, `Open`), the look into the
maps (`Look`) and the statement (`Execute`). Only what the code does under
`cdbnpp_db_access_mutex` waits for `holder`. `result` is the rights the
statement had, or why the call has failed. `padding` counts the null nodes that
`operator[]` of the JSON library appends when an index drawn for the list of
one mode is used in that of another (`payload_adapter_db.cpp:731`). Which
threads use the adapter, and which modes they need, is chosen in `Init`.

SOCI is external: `open` throws when the session is open, a statement when it
is closed. A connection that the server has dropped is a sequence of failed
statements: `mIsConnected` stays set, and nothing but a change of mode
reconnects.

The properties are stated for threads that need one mode, or for one thread,
and that is all the code gives: with two modes, a thread finds `mAccessMode`
already set and goes on, in the session of the old mode, while the other has
yet to reconnect; and of two threads one may open the session the other has
opened, or look into maps the other has cleared.

### FileStore and FileQuery

One struct, its directory (`level`), its schema and its files. `Open` truncates
a file and `Write` fills it, both under the write lock; `Ends` is the end of a
process anywhere, which leaves a `torn` file or schema. Nothing tests the
stream after the write, so that a full disk gives a file that is reported as
stored: such payloads are in `cut`. `Get` takes the lock and `Find` takes it
again. That is undefined for `std::shared_mutex`; `MayRead` is what glibc does,
where a reader overtakes waiting writers, and with writers first
(`MayRead_first`) reader and writer wait for each other for good. `Download`
reads a file later and without the lock. Processes share only the file system:
each has its own mutex.

`SetTagSchema` truncates the schema and `Save` writes it; the folder for schemas
may also be made and the file not be opened. `prepareUpload` looks for the
directory without the lock and creates it under
the read lock, so that of two threads one can be refused. A schema file that is
empty counts as no schema, one that is incomplete makes every upload fail.
`importTagsSchemas` saves schemas only where `.schemas` exists and never sets a
result: it is reported as failed whatever it has done.

`FileQuery` is the loop of `getPayload` over flavors and over the entries of
the directory, in any order, while another process may add a file. `Matches`
are the `continue` conditions, `Exact` the match of run and sequence that ends
the loop, `Better` the comparison of begin times. It differs from the
database's `SELECT` at the second of deactivation (`dt < mt` skips, where the
database wants `dt > mt`) and, for runs, in taking the first exact match listed
where the database takes the latest create time.

## Runs

| run | checks | result |
|---|---|---|
| `chain` | types, `DependencyOrder`, `ThreadBound`, `NoOrphanThread`, `OrderSpec` (refines `ModuleOrder`), `Completes` | holds |
| `chain_failure` | `FailureAborts` | violated: an error ends in an exception or crash, not in an aborted iteration |
| `iov_time` | types, `ReadRepeatable`, `SettledAnswersStable`; `EndHonest`, `EndTight` for open rows | holds with disciplined administrators |
| `iov_run` | `ReadRepeatable`, `SettledAnswersStable` | holds with disciplined administrators |
| `uploads` | types, `NoOrphanData`, `StoredIsReadable`, `AtomicSpec` (refines `AtomicUpload`), `CallsReturn` | holds, with the three losses named above |
| `cache` | types, `BytesExact`, `OldestFirst`, `EvictsOnlyExcess`, `CallsEnd` | holds; the count and `EvictsOnlyExcess` as long as no data is fetched |
| `cache_limits` | `WithinLimits` | violated: the configured HI limit in items is never in force |
| `cache_hit` | `CachedIsFound` | violated: objects from the db adapter have mode 0 |
| `tags` | types, `NoOrphans`, `OwnTables`, `TreeSpec` (refines `TagTree`) | holds without http imports and `IF NOT EXISTS` |
| `session` | types, `RightSession`, `OnlyDatabaseFails`, `NodesIntact`, `CallsEnd` | holds; the first three for one thread, `RightSession` and `NodesIntact` also for any number that need the initial mode only |
| `files` | types, `StoredStays`, `StoredOnce`, `FoundWhole`, `SchemaHolds`, `CallsEnd` | holds, but for payloads whose write was cut short or that collide in one second |
| `file_query` | `BestOfFlavor`, `AgreesWithDatabase` | holds; the second for payloads by time |

### Bounds, and why they are enough

* `chain`: seven modules give a join, a soft requirement, an unknown id, a
  cycle that never runs, and three modules that compete for two threads; two
  iterations show that nothing is carried over.
* `iov_*`: one reader (queries write nothing, so they meet each other only
  through the table) and a clock of two or three ticks: enough for a stamp that
  is committed late, a deactivation between the two statements of a query, and
  rows that tie. `iov_time` has three payloads, so that an open interval has
  more than one successor, and one writer; `iov_run` two payloads, two writers
  and one tick of skew. `Ids` and `Writers` are symmetric.
* `uploads`: http first, then db, so that a late request meets what the
  fallback has stored. Two payloads for one key in five combinations of what
  they hold; two calls of one of them, so that a rollback, a lost confirmation
  or a late request precedes another try, and one retry: up to four requests of
  one payload under way at once. (Some 150 thousand states.)
* `cache*`: a 4-bit `size_t`, payloads of 2 and 3 bytes, limits of a few bytes
  and items. `cache` has two threads and four objects of one path, which reach
  both limits in force; the violations are found with one thread. Where data is
  fetched and the nested lock proceeds, `cache` also reaches the state in which
  the count has wrapped and the trim loop has run into an empty deque
  (`crashed`), which `CallsEnd` and `BytesExact` leave out.
* `tags`: a client with the db adapter (two calls, one of which may be an
  import) and one with the http adapter (one call, one retry): a stale view, two
  creations of one path, of parent and child, or of one table name at once, a
  repeated request, a crash in each. Two structs of one table name are enough
  for `OwnTables`, a folder above them for `NoOrphans`.
* `session`: two threads and two modes give every way to meet around the mutex;
  a list of two nodes and one of one the index beyond the end.
* `files`: three threads of two processes, so that there are threads with and
  without a common mutex; three payloads with the same coordinates and two
  seconds, so that names collide or not; two combinations of who administers.
* `file_query`: at most three files, which give a best, a second best and one
  that does not match, in two flavors, and one that arrives; max entry times
  before and after the deactivation of some.

Deadlock is not checked where the system may stop: a chain that has returned, a
clock at its bound, uploads that are done, a bounded number of objects,
processes that have all ended, a query that is answered.

### Fairness

`Completes` assumes that the scheduling thread keeps running and that every
module's `execute` ends, since `Finish` is the operating system's scheduling of
a user's function. `CallsReturn` assumes that a thread in `setPayload` keeps
running and that curl gives up after its timeout; it assumes nothing of the
service, which may never handle a request. `CallsEnd` assumes that a thread in
a call keeps running; nothing is assumed about callers making calls.

`CallsEnd` of `session` assumes that a thread that can go on again and again
some time does (`SF`): threads run, and a mutex that is free again and again is
given to each that waits for it in the end, which any implementation of
`std::mutex` in use does in practice. The mutant that keeps the mutex on a
failed download shows that the fairness does not hide a lock that is lost.
`CallsEnd` of `files` assumes only that a thread that can go on does (`WF`), and
so excepts callers whose mutex is held again and again by others: readers
overtake writers, which may starve. The mutant in which waiting writers go first
is the deadlock of the nested read lock.

## Proofs

Proved for every value of the constants, under the assumptions named in the
modules:

* `ChainProofs`: types, `DependencyOrder`, `ThreadBound`, `NoOrphanThread` and
  the refinement of `ModuleOrder`. The inductive invariant relates the
  scheduler's sets to the threads: the queue holds each started and
  uncollected module once, `finished` only modules whose threads ended well,
  and everything `available` or `processed` has its requirements in `finished`.
  `ThreadBound` needs it because the code bounds the queue, not the threads.
  `RunsWhatCanRun`: an iteration that ends normally has run the least set of
  modules that is closed under the requirements, so that neither the schedule
  nor the number of threads decides what is left out (`StartedInClosed`: what
  has started lies in every closed set). For a finite chain and at least one
  thread, `RankDecreases`: no step of an execution is without effect on a count
  of what is left to do, and `Advances`: the count becomes less as long as
  `execute()` has not ended. A number cannot become less for ever, so
  `Completes` follows by an induction that is made here and not by the prover.
* `IovProofs`: types; `OnlyRepeatsDisturb`, with no assumption on what
  administrators do: at a settled entry time an answer changes only when a
  payload that is inactive already is deactivated again, to another time
  (backdated deactivations show up as unsettled entry times instead);
  `SettledAnswersStable` and `ReadRepeatable` assuming
  `Disciplined`. The first rests on a step lemma: with nothing stamped at or
  before `mt` under way, a step changes no row that is visible at `mt` and adds
  none, unless it repeats a deactivation, which disciplined administrators do
  not. `ReadRepeatable` adds that a query under way at a settled entry time has
  passed only flavors without an answer and holds an id that is still one.
  `EndTight`, and `EndHonest` where queries by time ask at times that are set
  (`AsksByTime`; 0 stands for a query by run), hold in every table that uploads
  can have filled: rows keep the coordinates of an upload (`CoordInv`).
* `UploadProofs`: types, `NoOrphanData`, `StoredIsReadable` and the refinement of
  `AtomicUpload`, in every configuration of adapters, contents, calls and
  retries. The invariant says what the data of a payload object and of a request
  can be, given the content, and that each row matches what the data table has:
  either an adapter in use can read it, or one of the three reasons of `Excused`
  applies. For that it relates objects to `spent` (an object with data prepared
  that holds none has been in a transaction of the db adapter) and requests to
  the objects they were made of. `CallAdvances`, in every configuration: a call
  of `setPayload` is never more than `Len(Adapters) * (MaxRetries + 3)` steps of
  its own from its end, each brings it nearer, and nothing others do takes it
  back.
* `MemoryCacheProofs`: types, `BytesExact`, `EvictsOnlyExcess` and
  `OldestFirst`, for any limits, sizes and threads, and however often the count
  has wrapped. One invariant (`OrderInv`) says that the cache holds objects in
  the order in which they were made; each step leaves it alone or adds one at
  the end and drops a prefix. The other (`CountInv`) says that, as long as no
  cached payload grows, the count is what the cache holds, modulo `size_t`:
  additions and evictions are sums over prefixes of a sequence, whose laws are
  proved from the library's theorem that the numbers are well-founded, applied
  to sets. With it `NeverEmptied`: the trim loop runs into an empty deque only
  where data is fetched into cached payloads, and `EvictsOnlyExcess`: the loop
  pops the least number that meets the low limits, and what it compares with
  them is never more than what is left, also where the count has wrapped.
  `CallAdvances`: over any finite number of structs, each step of a call brings
  it nearer to its end, and nothing others do takes it back.
* `TagProofs`: types, and for any tree of tags, table names, clients and import
  files: `NoOrphans` and the refinement of `TagTree` where nothing is imported
  over http, `OwnTables` where tables are created without `IF NOT EXISTS`. The
  inductive invariant says what each call and each request relies on, and rows
  and tables only grow, so that it stays true whatever others do: what a client
  knows has a row of that kind and its parents have one (`KnownInv`), a call
  past its first statement has its row, one whose items have all gone well has
  rows and tables for all of them (`CallInv`, `GoodInv`), a request whose stage
  is past the first statement has its row and table (`RequestInv`), and no two
  requests are the same (`IdentityInv`), so that a late answer to an earlier
  post is not taken for that to a later one. `OwnTables` adds that a table name
  has one claimant: the request, the call or the report of the one struct that
  has created it.
* `SessionProofs`: types, `RightSession`, `OnlyDatabaseFails` and
  `NodesIntact`, for any threads, modes and lists of nodes. The inductive
  invariant says that `mIsConnected` agrees with the session, that where all
  calls need the initial mode nothing ever has another, and, for a lone thread,
  what is established at each place of its call: until `Switch` the session is
  that of the old mode, from `Ensure` on that of the mode it wants.
  `CallsEnd`: a call takes at most 26 steps of its own, three reconnections
  included (`ToGoDecreases`); a thread that holds the mutex needs nobody to go on
  and gives it back (`MutexReturned`), so that it is free again and again, and
  strong fairness brings each waiting thread to its turn.
* `FileQueryProofs`: `BestOfFlavor` and `AgreesWithDatabase`, for any files,
  flavors and questions. The invariant says that flavors passed had no match
  among the files that were there from the beginning, and that `best` begins no
  earlier than any match seen. Where a file that has arrived is the answer, it is
  what the database would answer with that file among the others.
* `FileProofs`: types, `StoredStays`, `StoredOnce`, `FoundWhole` and
  `SchemaHolds`, for any threads, processes and payloads. The invariant says
  that no create time is ahead of the clock; that a file that holds a payload
  has the name of that payload, which was given with its create time, and that
  the payload is reported as stored (`WholeInv`); that a torn file has a reason:
  its write was cut, it was stored before, or a writer is at it (`TornInv`);
  that the file of an upload under way is there and does not hold its payload
  yet (`WriteInv`). `MutexInv` adds that a writer excludes the other threads of
  its own process, `SchemaInv` that an upload under way has met the schema that
  its process has set. `CallsEnd`: a call needs at most two more steps of its
  own, and only the mutex keeps it from the first; where others hold it again
  and again, the property excepts it.

The proofs of `CallsEnd`, `Advances` and `CallAdvances` take as an assumption
(`Unhindered`) that a step is enabled where its thread seems able to go on, since
what `ENABLED` means is beyond the prover: for `DbSession` and `FileStore` where
`CanGo` says so, for `Chain` where `SchedulerCan` and `ModuleCan` do, for
`Upload` and `MemoryCache` wherever a call is under way. TLC finds each of them
equal to its `ENABLED` in all states of the instances `session`, `files`,
`chain`, `uploads` and `cache`.

Only model-checked: `Completes`, `CallsReturn`, and `CallsEnd` of `MemoryCache`.
How many steps these calls take depends on the constants, so that the last part
of a proof would be an induction on a number over temporal formulas, which the
prover does not have; all but that last part is proved (`Advances`,
`CallAdvances`).

## Where the code and its words differ

Three disagreements are checked: a module's error does not abort the iteration
(`chain_failure`), what the db adapter returns is never found in the cache
(`cache_hit`), and the configured HI limit in items does not keep the cache from
growing (`cache_limits`: `payload_adapter_memory.h:52` assigns it to the limit in
bytes, so that trimming may also start far below the configured HI limit in
bytes). Others were met while modelling and are stated by the properties
as exceptions:

* The end established for an open interval can equal its begin, since the
  second `SELECT` takes `bt >= :et` and meets the row itself when it begins at
  the event time; without a successor it is -1 (`payload_adapter_db.cpp:189`).
  `EndHonest` and `EndTight` are stated for ends after the begin.
* A call repeated after a rollback inserts the interval without data, since the
  first one has set the URI of the object (`payload_adapter_db.cpp:302`); so does
  the http adapter when it is tried after the db adapter.
* Binary data is posted up to its first NUL byte (`http_curl_holder.cpp:108`),
  and an external URI without the characters that `sanitize_alnum` removes
  (`service.php:381`). Both uploads are reported as stored.
* The README promises access "in multiple ways" (`README.md:13`); the db adapter
  stores base64 text, which the REST service returns as it is, and the service
  stores raw data (`service.php:409`), which the db adapter does not find.
* Where the nested lock throws, the cache is never brought down to its low
  limit (`payload_adapter_memory.cpp:145`).
* Schemas set over http are stored in base64, and nothing decodes them.

## What is left

1. `ServiceGet`: the reading adapters composed: a later flavor found by an
   earlier adapter hides an earlier flavor of a later one, overrides of the max
   entry time, the memory adapter's filter against the database's. No document
   says which order prevails, so that the reference has to be chosen first.
2. Token expiry in the retry loop against the service's authentication.

The set of runs is kept small: where a new module shows more than an older run
does, it takes its place.

## Not modelled

* Service configuration and its validation: a file read once, checked against a
  JSON schema, no state and no steps.
* Utilities: strings, dates, formats, base64, logging, random numbers are pure
  functions or wrappers of other libraries.
* Command line tools: one-shot calls of the service. The commands for the
  memory adapter are the source of how `MemoryCache` is used.
* REST authentication: a request is accepted or refused for its token alone,
  and a refusal is one of the failed requests of `Upload` and `TagStore`; the
  signature is cryptography.
* `payload_deactivate` and `deactivateTag`: one `UPDATE` each, of a time that,
  for tags, nothing reads.
* Vendored code under `contrib/`: third-party JSON, JWT, JSON schema validation
  and random numbers. It makes up some seventy thousand of the repository's
  eighty thousand lines of code, has no part in what this library promises, and
  only what it returns to `lib/` matters. The models cover the project's own
  code (`lib/` and `rest/`, about seven thousand lines with headers, comments
  and blank lines), most of whose other lines are option parsing, accessors and
  error texts; the share of all lines is small for that reason.
