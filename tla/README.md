# LightSearchEngine: TLA+ models, checks and proofs

This directory holds a formal model of LightSearchEngine, a search server in
C++ (an epoll event loop, a pool of worker threads, per-thread LRU caches,
Redis and MySQL behind them) with a console client. The modules are translated
from the source; the repository has no tests and little documentation, so the
comments in the code are what the code is compared with.

Paths below are relative to the repository; `PROJECT.json` maps each definition
to the lines it models and lists runs, mutants, hazards, findings and theorems.

## 1. The system

```
 client ──TCP──► EventLoop (one thread) ──addTask──► TaskQueue ──pop──► workers
    ▲               │  ▲   │ timer                                    │
    │   send        │  │   └─► CacheManager::updateCache              │ threadTask
    └───────────────┘  └── eventfd + _pengdings ◄── runInLoop ────────┤
                                                  LRUCache[threadID] ─┤
                                                  Redis, MySQL, dictionaries
```

### 1.1 Components, their state and their operations

| component | source | state | operations | what makes it correct | modules |
|---|---|---|---|---|---|
| Task queue | `server/TaskQueue`, `Condition`, `MutexLock` | `_que`, `_flag`, mutex, two condition variables | push, pop, empty, full, wakeup | first in first out, bounded, no lost wake-up | `ThreadPool`, `BoundedBuffer` |
| Thread pool | `server/ThreadPool`, `Thread` | `_isExit`, the threads | start, stop, addTask, doTask | each task runs once; stop leaves nothing alive | `ThreadPool` |
| Event loop | `server/EventLoop`, `Acceptor`, `TcpServer` | `_conns`, `_pengdings`, epoll set, eventfd, `_isLooping` | loop, unloop, waitEpollFd and its handlers, runInLoop, wakeup | no answer is forgotten, no event without its connection, the loop is not blocked for ever | `Reactor` |
| Connections | `server/TcpConnection`, `Socket` | descriptor, shared_ptr count, callbacks | receive, send, sendInLoop, isClosed, destruction | the answer goes to the client that asked, on an object that exists | `Reactor` |
| Message framing | `server/SocketIO`, `client/src/SocketIO` | bytes on the way and bytes read | readn, readLine, writen, receive, send | a message arrives whole or is not taken for one | `SocketIO`, `TcpClient` |
| Request dispatch | `server/SearchServer`, `ProtocolParser` | a task per worker | onMessage, threadTask, doParse, packMsgToJson | the answer has the request's kind, and what was found is served | `SearchServer` |
| Answer caches | `utility/LRUCache`, `CacheManager` | list, index and pending list per worker; the backup file | get, put, update, merge, clear, read and write file; initCache, updateCache | index and list agree; caches follow the backup; the backup is usable after a crash | `LRUCache`, `SingleCache`, `RecencyList`, `CacheManager` |
| Web page cache | `utility/RedisServer` | one shared client, database 1 of Redis | get, put | only answers that hold something are kept | `SearchServer` |
| Database access | `utility/Query` | one MySQL handle shared by all workers, the tables | doQuery, doUpdateQuery | a result belongs to the query that asked for it | `SearchServer`, `Dictionary`, `PageLibrary` |
| Dictionary builder | `indexgen/*` | word counts, hash table, dictionary and index tables | build the dictionaries and the indices | identifiers of index and dictionary agree | `Dictionary` |
| Recommendation | `dict/*` | read-only tables | recommender, editDistance, the priority queue | the best five words | `Dictionary` |
| Page library builder | `PageLib/*` | pages, page and index tables | read RSS items, drop near-duplicates, build the inverted index | no two pages near each other, the index is complete | `PageLibrary` |
| Page query | `utility/WebPageQuery`, `CppJieba` | read-only tables | doQuery, getIntersectionId, getQueryResult | pages with all the words, excerpts that show them | `PageLibrary`, `Summary` |
| Client | `client/src/*` | mode, one outstanding request, page position | start, handleMessage, splitPages | the answer shown is the one asked for; positions in range; leaving harms nobody | `TcpClient`, `Pager` |
| Timer | `server/Timerfd` | a timer descriptor | setTimer, handleRead | its expiry runs `updateCache` | `CacheManager` |
| Logger, Configuration, addresses and socket set-up | `utility/Mylogger`, `Configure`, `InetAddress`, ... | singletons | getInstance, getConfigMap | see section 6 | |

Vendored code (cppjieba, limonp, simhash, tinyxml2, nlohmann json, log4cpp) and
the data files are not modelled.

### 1.2 How they interact, and what is hard

Three kinds of threads share the server's memory. The **event loop** accepts, reads a
whole request (blocking while a part of it is on its way), blocks in `addTask` when the
queue is full, sends the answers that workers leave in `_pengdings`, and every few
seconds runs `updateCache` over caches that the workers use without a lock. Each
**worker** pops a task that holds a `shared_ptr` to its connection, asks its own cache
or Redis, then MySQL on the one handle there is, and hands the answer back by
`runInLoop` with a *bare* pointer. Any **other thread** may call `SearchServer::stop`,
which touches the queue and the flags without their mutex. The process can die at many
places (an exception of `json::parse` that nobody catches, the null result of a failed
query, SIGPIPE, a request longer than the array it is read into) and be started again
from the backup file and Redis, with another `THREAD_POOL_SIZE`. The two **offline
programs** fill the tables, ignore failing INSERTs, and rely on positions counted in
different loops being equal.

So the hazards are: lost wake-ups (task queue and eventfd), unlocked flags,
objects deleted while a callback still names them, a descriptor number closed
twice and reused in between, unlocked updates of the caches, a backup file that
is cut off, two workers on one database handle, messages cut by reads and
writes of any size, signed and unsigned page positions, tables whose
identifiers drift apart, and limits (queue, descriptors, cache capacity).
`PROJECT.json` lists each one at its line, with the properties that cover it.

## 2. What is modelled

| module | models | extends / uses |
|---|---|---|
| `BoundedBuffer` | what a task queue promises: a bounded first-in first-out buffer | |
| `ThreadPool` | queue, pool, threads and stop, at the grain of pthread calls and unlocked accesses | refines `BoundedBuffer` |
| `Reactor` | event loop, connections, descriptors, eventfd, answers, clients | |
| `SocketIO` | reads and writes that stop at any byte, frames, both ends' receive and send | |
| `Pager` | the client's page positions | |
| `TcpClient` | a whole conversation: menu, prompt, request, answer, pager, and a server that serves it | `Pager`, `SocketIO` |
| `SearchServer` | the workers' threadTask with both caches, Redis and the one MySQL handle | |
| `LRUCache` | the methods of one cache, as operators on a record | |
| `RecencyList` | what a least-recently-used cache promises | |
| `SingleCache` | one cache under its calls, from any backup | `LRUCache`, refines `RecencyList` |
| `CacheManager` | a cache per worker, its get and put and the timer's update call by call, crash, restart, backup | `LRUCache` |
| `Dictionary` | the dictionary builder and the recommendations made from its tables | |
| `PageLibrary` | the page library builder and the searches on its tables | |
| `Summary` | the excerpts of a page | |
| `SearchData` | the three of them as one specification | `Dictionary`, `PageLibrary`, `Summary` |
| `MCCacheManager`, `MCSearchServer`, `MCSearchData` | values of constants, and the symmetry of the keys, for TLC | the module of the same name |
| `ThreadPoolProofs`, `ReactorProofs`, `SearchServerProofs`, `TcpClientProofs`, `SearchDataProofs`, `SingleCacheProofs`, `CacheManagerProofs` | theorems | the module of the same name |
| `LRUCacheProofs` | the lemmas on the cache's methods | `LRUCache` |

Each module of code has a section of *faulty variants*: definitions the
specification never uses. Each is a plausible bug; put in the place of the
definition it varies, it makes one property fail. They show that the properties
can fail.

### 2.1 ThreadPool

`lpc`, `wpc`, `spc` say where the event loop, each worker and the caller of stop
are. `push` is PushLock, PushWait / PushTask, PushNotify; `pop` is PopLock,
PopTest, PopSleep, PopTake / PopNull, PopNotify: one action for each stretch of
code between two points where another thread can see a difference. A condition
variable is the set of threads in its wait; `notify` wakes any one of them,
and spurious returns are allowed (`SpuriousWakeup`). `_flag`, `_isExit`,
`_isLooping` and `empty()` are read and written without the mutex where the code
does so (WakeupClearFlag, WakeupNotifyAll, StopPoll, WorkerTest). The flags are
plain `bool`s; a read returns the last value written, since the threads read them
around pthread calls that order memory. `pthread_create` may fail, then the pool
goes on with fewer threads. `sleep(1)` of the polling stop is a guard.

### 2.2 Reactor

`EpollWait` takes all events that are ready as a `batch`; every handler removes
its event and runs to its end, in any order, one action for each stretch between
two points where a worker can interfere (reading the eventfd, swapping
`_pengdings`, one functor, blocking in addTask). A connection is *held* by
`_conns`, by tasks queued or being run, and by the call of addTask; when the last
of these goes away it is destroyed, its descriptor is closed by `~Socket`
(in ReleaseTask, or whole in HandleClosed), and closed again by `~SocketIO` (CloseAgain).
Between the two closes accept may give the number away. `fdTable` is what a
number is open on, so sending on a stale number reaches whoever has it now.
Reading from a descriptor that is not open, or from a connection that was reset,
gives a message that is no JSON, and the worker that parses it ends the process
(`Killed`); so may a send to a client that has gone (SIGPIPE).
The task queue is used as the bounded buffer that ThreadPool is shown to
implement.

### 2.3 SearchServer

Each worker goes through `threadTask`: the lookup in its own cache or in Redis (Hit,
Miss), `doParse` (Parse, and ParseWithoutDatabase for the English page search that never
asks), then for each query `mysql_query` (Ask) and `mysql_store_result` (Fetch), which
are two calls on a handle without a lock, so another worker's call may fall between
them; then the answer is made (Make), kept if it is not empty (Keep), and sent (Send). A
result that is missing because the query failed, or because another worker has taken it,
is a null pointer whose first use ends the process (NullResult). Redis and the tables
outlive the process (Restart); the tables may be rebuilt between two queries (Rebuild).
Each cache keeps `MaxKept` answers, any of which may be evicted: the order of eviction
is `CacheManager`'s concern, and so is the timer, which this module leaves out: a get or
a put of a cache is one step here because only its own worker uses it. What `OwnRows`
says is therefore about the workers among themselves; what a cache that was inside a
worker's call and the timer's put at once may answer is told in 2.5. A call of the MySQL
library, and a `select` with the command after it on Redis's one connection (the default
of redis++), is one step.

### 2.4 The conversation

`SocketIO` has a wire in each direction of bytes written and not yet read. A byte is the
message it belongs to and its place in it, so that two messages that are mixed up are
seen to be. `readn` and `writen` move any number of bytes that there are or is room for;
the header counts `HeaderLen` bytes and tells the body's length. `receive` does not look
at what `readn` returned: after a read that failed it goes on with what it has, and the
worker parses it (`Parses` says when that throws, which ends the server). Nor does it
compare the length with its array of 65534 bytes (`TcpConnection.cc:46-47`), `BufferLen`
here, into which `readLine` puts the bytes and a zero behind them. A request fits if its
body is shorter than that (`Fits`). One that does not is written past the end of the
array: the process may end there (`ServerReads`), or later, or the worker may parse the
request, or anything else (`Received`). `overlong` notes that such a request was sent,
and from then on the properties of what the server got claim nothing; the types, the
pager and `EveryCallEnds` hold all the same. The client reads into an array of the
length it was told.

`TcpClient` is the client's loop: menu, a prompt for each mode, a request, the answer,
and for pages the pager, which the client can leave or walk. The client may be killed at
any byte (Die). Its server is one event loop with at most one answer per request;
threads and other clients are `Reactor`'s. A query that the database refuses has no
result, and the null pointer (`Query.cc:41-42`) ends the process instead of an answer
(Refuse). The client that asked is then still waiting, or was killed: it reads the end
of the connection, parses nothing, and ends too. `QuitIsHarmless` says that with
requests that fit there is no third way: a client that leaves by '0' does not end the
server by leaving, and did not by any request before, since it had its answers.

`Pager` counts pages as `splitPages` does, with `size_t` arithmetic where the
code has it. The menu's `0: quit` shows the menu again (`TcpClient.cpp:29`); only
a prompt's `0` leaves.

### 2.5 The caches

In `LRUCache` a list entry carries a node number, and the index maps a key to a
node: so an iterator that dangles, or that points to a node which now holds
another key, is visible. Node numbers are reused like memory. Keys and values are
model values. That a line of the backup is read back as the pair it was written
from rests on keys and values having no blanks: the client removes them from a
query, and answers are compact JSON over dictionary words, as `data/lru.bak` shows.

`CacheManager` runs `updateCache`, get and put call by call. A get or a put begins with
its `keyExist` (LookUp, Store, and UpdateOne for the timer's put), and goes on with the
calls that the source makes on list, index and pending list, each a step: `*it` (Read),
erase (Erase), `emplace_front` (PushFront), the test of the size (CheckSize), the
eviction from the index (EraseKey) and from the list (RemoveLast), the write to the
index (SetIndex), the pending list (RecordUse), and the `front()` that get returns
(Return). `calls` has for each worker and for the timer how far it is, and the iterator
it holds. The merge takes two steps for each element, `push_back` of the front
(MergeOne) and `pop_front` (DropOne): a worker's `emplace_front` in between makes it
drop another element than it copied. The steps of all threads come in any order, in one
cache too.

An iterator whose node was freed reads any pair; a call that erases it, or takes from an
empty list, is a death of the process (Crash). A node number that was freed may be given
out again, and the iterator then means the new entry. Two threads *inside one call* of
`std::list` at the same instant are undefined behaviour; of what the build can do then
the model has the calls one after the other, in either order, and the death of the
process, and leaves out memory that is corrupted without a crash.

`raced` is the set of caches that were inside a worker's get or put and the timer's put
at the same time since the process started. In these the index may be wrong: the
`_hashmap[key] = begin()` of the one after the `emplace_front` of the other leads two keys to one
node, and an entry that one of them moves or evicts after the other's `keyExist` is a freed
node. `IndexSafe` leaves them out, and only them: it speaks of every other cache in the same
update, and of caches used between the timer's steps. If `\ raced` is taken out of it, TLC
finds a violation in each way; and it finds a `Return` whose front is
another query's entry. No document of the repository speaks of threads here, so this is
a hazard in `PROJECT.json` and no finding.

`WriteLine` follows the node its iterator is at: if worker 0 moves that
node to the front (erase and re-insertion reuse the chunk just freed) the
iterator goes on from the front, and the backup comes to name a key twice. The
model finds such files and starts from them. `Crash` can happen at any step, also between truncation
and the last line (each line is flushed by `endl`).

### 2.6 The search data

`Dictionary` follows `indexgen/main`: for each language, read the articles in
any order (one may not open), count the words, write the table row by row in the
order of a hash table (any order), and write index rows with positions counted in
a second loop over the same table. Any INSERT may fail. `recommender` joins the
candidates of the characters of a query, and orders them by edit distance,
frequency and word, as `BetterCandidate` does. A text is a sequence of
characters; where the code cuts three bytes at a time (`dictionary.cc:196`), the
model does, and a piece that is no character matches no character of a query.
Digits are among the characters since `buildIndexcn` (`dictionary.cc:227`) erases
the digits of the position from the *first* place it finds them in the SQL: when
the piece itself contains them it loses them, and the digits of one position stay
in front of those of the next. `sql` is the statement as far as it is made, piece
and number; IndexPosition sends it and takes the digits out again. The pieces are
indexed in any order, their positions in the order of the `set`. An English word leads to
its characters; `buildIndexen` takes its bytes, which is the same unless an English
article has characters of several bytes.

`PageLibrary` has items with any relation of nearness between them (simhash
distances are not transitive), the two iterators of `cutRedundantPages`,
identifiers, rows for each word of a page, and a search. A weight is modelled only
by whether it is a number: with `log2(N/(df+1))`, a page all of whose words occur on
all pages but one has length zero, and the rows that follow from dividing by it
(`PageLibPreprocessor.cc:168`) are refused by the database. An item whose text
cannot be read (an element without text, `GetText` null) ends the program.
`RssReader`'s other uses of an element that may be missing end it in the same way, and
are not told apart.

`Summary` merges positions into windows and cuts them at characters, byte by byte. A text
has characters of one to four bytes. It may be empty, since the regular expression
may leave nothing of a description; and a word that the description has not adds `find`'s
`npos`, which as an `int` is the position -1 (`NotFound`), in front of all others.

Behaviours of this code that the properties state as their exceptions, for no
document of the repository speaks of them:
- a Chinese word with letters or digits is cut across its characters and cannot be
  found, and one with digits may spoil rows of its own;
- a failing INSERT of a word, or an English article that does not open while its words
  are indexed, shifts the positions of all later words against the identifiers of the
  table; running a builder again on tables that are not empty does the same, and doubles
  the counts that a page search compares;
- the page builder leaves out the stop words of `STOP_WORD_PATH`, the query those of
  `WEB_STOP_WORD_PATH`; the two files differ in 173 words, and a query that holds one of
  these finds nothing;
- `substr(2)` on a text of fewer than two bytes throws, which ends the process;
  `WordsShown` says that no other text does;
- a word that is not in the description has an excerpt from its beginning, if no other
  position is near; it takes none from the words that are there;
- the ends of an excerpt are whole characters only in texts of letters and Chinese
  characters: a character of two bytes is never recognised by the test with `0xe0`, and
  one of four only by its first three; and a word of a mixed text can be cut in two at
  the end of its window.

## 3. The runs

A `.cfg` and a module for each run are named in `PROJECT.json`. States are the
distinct states TLC found.

| run | bounds | states | shows |
|---|---|---|---|
| `pool` | 3 workers, queue of 1, 3 tasks, 1 spurious wake-up, thread creation may fail, stop at any moment | 263,856 | `TypeOK`, `Conservation`, `NoSleepOverWork`, `NoSleepOverRoom`, `PopFindsTask`, `StoppedMeansQuiet`, `ImplementsBuffer`, `EveryTaskRuns`, `PushReturns` |
| `pool_task_left` | 2 workers, queue of 1, 2 tasks | | **violated**: `NoTaskLeftBehind` |
| `pool_stop_hangs` | the same | | **violated**: `StopReturns` |
| `reactor` | 1 worker, queue of 1, 2 descriptors, 3 connections, 1 request each, clients that close at any time | 366,014 | `TypeOK`, `NoLostWakeup`, `EventsAreMapped`, `FunctorsAlive`, `RightClient`, `RequestAnswered`, `LoopReturns` |
| `reactor_dangling` | 1 worker, 2 connections | | **violated**: `RunsOnLiveConnection` |
| `reactor_unmapped` | 1 worker, 3 connections | | **violated**: `NewConnectionMapped` |
| `server` | 2 workers, one query of each kind, 2 database queries a request, 1 kept entry | 664,554 | `TypeOK`, `KindMatches`, `OwnRows`, `FoundIsServed`, `EveryRequestEnds` |
| `lru_single` | capacity 2, 4 keys, 2 values, backups of up to 3 lines, 2 pending uses | 249,817 | `IndexExact`, `ImplementsRecency` |
| `caches_live` | 1 or 2 threads, 3 keys, 1 value, 2 pending uses, 1 worker with a request at a time, 1 use during updates, 2 lines a write | 1,637,620 | `TypeOK`, `IndexSafe`, `FileAndPending`, `AllUsesApplied` |
| `caches_diverge` | 2 threads, the same bounds | | **violated**: `UpdatedFromBase` |
| `conversation` | a length of 2 bytes, bodies of 1 to 3, an array of 2, a connection that holds 3, pages of 2, 2 requests, answers of up to 5 pages | 1,101,897 | `TypeOK`, `RequestIntact`, `AnswerIsMine`, `QuitIsHarmless`, `PagerInBounds`, `EveryPageSeen`, `EveryCallEnds` |
| `search_data` | 2 articles of each language out of 2 and 3 texts, 2 calls that fail, the best 2; 3 items of 3 words, any nearness, 1 lost INSERT; texts of up to 5 characters of 1 to 4 bytes, any positions | 1,550,508 | `TypeOK`, `IndexTrue`, `BestCandidates`, `NoNearDuplicates`, `FoundExactly`, `WordsShown` |

**Why the bounds are enough.** The pool needs more threads than one in each role, and a
queue that fills while tasks remain; a lost wake-up needs two sleepers and one notify.
The reactor needs a third connection so that a number closed twice is given to a second
client while a third waits, and fewer descriptors than connections for a failing accept.
Two workers are what it takes to cross two queries on one handle, two lookups what it
takes to steal a result and still ask again; one kept entry makes every second Keep an
eviction. A cache needs more keys than places (an eviction), and a restart with fewer
threads than lines in the backup: two lines restored into the one cache of one thread
are over its capacity. One worker with a request suffices for the timer to interleave
with: the workers use no cache but their own. The pending uses are bounded *between*
updates, not over a run: any number of updates, crashes and restarts follow each other.
One use during an update (`MaxOverlaps`) is enough for a duplicate in the backup and for
the divergence. A connection that holds less than a frame makes writes stop half-way; 5
pages of 2 have a last, shorter screen. With an array of 2 bytes a body of 1 fits with
its zero, one of 2 does not by the zero alone, and one of 3 by a byte; two requests are
one that disturbs and one that is disturbed. Three items are what it takes for nearness
not to be transitive, and five characters of up to four bytes have windows that overlap,
touch, and end inside a character. Every action is taken in some passing run.

**Fairness.** Weak fairness of each thread or process as a whole: the event loop,
each worker, the caller of stop (`ThreadPool`, `Reactor`, `SearchServer`); in
`TcpClient` the client's reads and writes and the server: a thread that can move
is scheduled. Nothing is assumed of messages, clients, keys typed, spurious
wake-ups, restarts, rebuilt tables or calls of stop. In `ThreadPool` a mutex is
won at a worker's or the loop's own step, and tasks are bounded, so weak fairness
suffices. `EveryRequestEnds` holds because each round of a request makes fewer
queries left; a query that fails ends the process, which is one of its ends, in
`EveryCallEnds` too. The
caches and the offline programs have no liveness property.

**Deadlock** is not an error where the system may really stop: after stop, when no
client acts any more, when a process was killed, when a connection has been
closed or an offline program has ended, or with a full queue and no thread
created. `SearchServer` and the cache modules are checked for deadlock.

## 4. Findings

In each of these the code, as modelled, does not do what a comment in it says;
`PROJECT.json` quotes the lines.

1. `ThreadPool::stop` looks at `empty()` once, without the mutex, while the loop may
   still push: a task may be left behind (`pool_task_left`).
2. `TaskQueue::wakeup` clears `_flag` and broadcasts without the mutex, both may fall
   between a worker's test and its wait: stop hangs in join (`pool_stop_hangs`).
3. `sendInLoop` binds a bare `this`; with a client that closes early the connection is
   deleted before the functor runs (`reactor_dangling`).
4. The two closes of one descriptor number: the second can close a new connection,
   whose entry stays and keeps a later one out of `_conns` (`reactor_unmapped`).
5. A put between a cache's merge and its `clearPendingList` is never synchronised
   (`caches_diverge`).

Other behaviours the models brought up, of which the repository says nothing, are
in 2.3 to 2.6; and these two: a cache restored from a backup longer than its
capacity stays that long for ever, since `put` evicts one entry at most; and the
packed, empty answer to an English page search is stored in Redis
(`SearchServer.cc:93`), where it changes no later answer.

## 5. What is proved

Checked by TLAPS, for every value of the constants, from the assumptions that the
modules name (`PoolAssumption`, `ReactorAssumption`, `SearchServerAssumption`,
`SocketIOAssumption`, `PagerAssumption`, `TcpClientAssumption`,
`DictionaryAssumption`, `PositionsFit`, `PageLibraryAssumption`, `SummaryAssumption`,
`CacheManagerAssumption`, `NoKeyAssumption` and the assumption of `SingleCache`) alone.
`DictionaryAssumption` says that the alphabet lists its characters once, that the ten
digits are ten different ones of them, and that texts and queries are written in it;
`PositionsFit` that there are no more words than an `int` counts, since
`dictionary.cc:185` and `:236` count positions in one.

| module | theorem | states |
|---|---|---|
| `ThreadPoolProofs` | `TypeCorrect` | `Spec => []TypeOK` |
| | `PopIsSafe` | `Spec => []PopFindsTask` |
| | `TasksConserved` | `Spec => []Conservation` |
| | `StopIsQuiet` | `Spec => []StoppedMeansQuiet` |
| | `NoLostTaskWakeup` | `Spec => []NoSleepOverWork` |
| | `NoLostRoomWakeup` | `Spec => []NoSleepOverRoom` |
| | `QueueRefinesBuffer` | `Spec => ImplementsBuffer` |
| `ReactorProofs` | `NoAnswerForgotten` | `Spec => []NoLostWakeup` |
| | `EventsMapped` | `Spec => []EventsAreMapped` |
| | `TypesCorrect` | `Spec => []TypeOK` |
| | `FunctorsStayAlive` | `Spec => []FunctorsAlive` |
| | `AnswersReachTheirClient` | `Spec => []RightClient` |
| `SearchServerProofs` | `TypesCorrect` | `Spec => []TypeOK` |
| | `AnswersOfItsKind` | `Spec => []KindMatches` |
| | `OwnRowsOnly` | `Spec => []OwnRows` |
| | `WhatIsFoundIsServed` | `Spec => []FoundIsServed` |
| `TcpClientProofs` | `TypesCorrect` | `Spec => []TypeOK` |
| | `PagerShowsPages` | `Spec => []PagerInBounds` |
| | `PagerShowsAll` | `Spec => []EveryPageSeen` |
| | `RequestsIntact` | `Spec => []RequestIntact` |
| | `AnswersMatch` | `Spec => []AnswerIsMine` |
| | `QuittingIsHarmless` | `Spec => []QuitIsHarmless` |
| `SearchDataProofs` | `TypesCorrect` | `Spec => []TypeOK` |
| | `IndexIsTrue` | `Spec => []IndexTrue` |
| | `EditDistanceCheapest` | `editDistance(u, v) = Cheapest(u, v, Len(u), Len(v))` for all sequences |
| | `BestAnswers` | `Spec => []BestCandidates` |
| | `PagesAreDistinct` | `Spec => []NoNearDuplicates` |
| | `SearchIsExact` | `Spec => []FoundExactly` |
| | `ExcerptsShowWords` | `Spec => []WordsShown` |
| `SingleCacheProofs` | `IndexIsExact` | `Spec => []IndexExact` |
| | `CacheIsRecencyList` | `Spec => ImplementsRecency` |
| `CacheManagerProofs` | `TypesCorrect` | `Spec => []TypeOK` |
| | `IndicesSafe` | `Spec => []IndexSafe` |
| | `BackupAndUses` | `Spec => []FileAndPending` |
| | `UpdateAppliesAll` | `Spec => []AllUsesApplied` |

**The pool.** Not even `TypeOK` is inductive: the value popped has a type only if
the queue is not empty, which holds because no other thread can take from it
between the test and the take. `Core` therefore adds `MutexInv` (the owner of the
mutex is exactly the thread inside push or pop), `TestInv` (what a worker knows
between its test and its use) and `ThreadInv` (threads are created in order, live
until they see `_isExit`, and are joined in order). On `Core` rest `WindowInv` and
`HoldInv`: the queue holds exactly the tasks between the last taken and the last
pushed, and a task taken is held by one worker or was run, which gives
`Conservation` and the refinement; the mapping is the identity on the queue with
the two counters as history. `NoSleepOverWork` rests on this: a worker sleeps on
`_notEmpty` only after it found the queue empty with the mutex held, and a push
that makes it non-empty has its notify still to come; one worker woken is one
that is not asleep.

**The reactor.** `NoLostWakeup` is inductive with the type of the eventfd's counter
and of the workers' positions: a worker stores, then writes the eventfd; the loop
reads it, then swaps. For `EventsAreMapped` it must be known that a listening event
in the batch has a connection waiting behind it, and that an entry of `_conns` is
only ever removed together with its registration and its event; closing and
reusing descriptors in other threads removes registrations, never entries.
The type invariant needs some of this too: a functor, a task and a worker name
a connection that was accepted, and a listening event has one to accept (`TypeInv`).
`FunctorsAlive` and `RightClient` rest on counting. A request is at one place at a
time: unread, in the call of addTask, in the queue, with a worker, in `_pengdings`
or in the swapped vector; the number of places, `Tokens`, is at most one, and where
it is one the client is waiting, has closed, or was impolite (`OneToken`). Each place
has it once (`OncePlaced`). So while all clients are polite the connection of a
request that moves is still in `_conns` (`InMap`): handleMessage erases it only at
the end of file, which a polite client sends after its answer, when no request of it
is left. `ObjInv` says that what `_conns` holds is not destroyed and that a
descriptor is open on the connection it belongs to, or on a later one after
its client has gone; so a functor runs on an object that is there, and writes to its
own client.

**Request dispatch.** `WorkInv` says what a worker's variables hold at each place of
`threadTask`. `KindInv` adds that each cache holds only answers of its own kind,
which is what makes a hit right. For `OwnRows` the handle must be understood:
`HandleInv` says that until two queries have crossed, at most one worker is between
its two calls, and that a result that waits is that worker's. `OwnInv` then says
of the rows, the answers and every cached entry that they are of their own
request, and `FoundInv` that a worker whose request had something to find has it
in its rows as soon as a result was stored, and that no cache holds an empty answer to
a request that goes to the database.

**The conversation.** `SizeInv`, for `TypeOK`: a read asks for what the header still
lacks, then for what the length in it says, so it takes no byte of another message. That
the array is long enough is not claimed but a condition (`overlong`). `PagerInv`: the
pages seen are the first ones, at least to the end of the screen, so where '>' is
refused the screen's end is the last page; a '<' that is allowed leaves a whole screen
below the number of pages. For the bytes, `ConvInv` splits the wait for an answer into
three phases: `Asking` (what the server has read, what is on the wire and what the
client has still to write are together exactly the frame of the last request, `Whole`,
and nothing is in the other direction), `Working` (nothing on the connection),
`Answering` (an answer to that request, whole). While the client waits for its user
nothing is on the connection (`Nothing`), so a client that leaves by '0' leaves nothing
behind; after one that was killed all bytes towards the server are of the last request
(`OnlyOf`), so that a worker parses this or nothing. `Refused` is the server that a
refused query ended, with nothing on the connection. All of this is proved as long as
the requests sent fit in the array of `receive` (`ConvAlways`: `~overlong => ConvInv`);
`overlong` stays true, so a step that ends without it began without it.

**The page library.** `LibInv` describes the two iterators: the pages the slow one
has passed are near no page that is left behind them, and the page it is at to none
up to the fast one; the list is in the order of the items; a page dropped is near an
earlier one that the slow iterator has reached, which therefore stays.
`TableInv` says what rows the tables can have once written, and `LibBounds` keeps
iterators and list within the items.

**The dictionary.** `DicInv` follows main through its four loops. While only rows of
an index are missing (`Complete`) the table of the language at hand has as many words
as the insertion loop has passed, in its order, and all of them while the index is
written (`Follows`), so a position is the identifier that the database gave; what
`_indexcn` holds for a piece are positions of words that have this piece. For the
Chinese rows `DicStatement` describes the statement that is made over and over: its
piece is that of the map or shorter than three bytes, and if the piece of the map has
no letter or digit it is intact and no digits are left behind it, because digits are
never bytes of a Chinese character. `IndexTrue` used to be stated for all pieces
without a letter or digit. The proof failed for a piece that has just lost its
digits, which is then two bytes of a Chinese character; TLC shows such a row with
a text that has two words like `1zhong`. The property now leaves pieces of fewer than
three bytes out as well, and the texts of the run have the case.

**The recommendations.** `BestCandidates` speaks of articles and alignments, `recommender`
of tables and ranks; four lines of argument lead from one to the other.

- *The distance.* `Cheapest(u, v, i, j)` is the least cost of a matching of the first
  `i` characters of `u` with the first `j` of `v`. It satisfies the equations of
  `editDistance` (`CheapestSteps`): a matching leaves out the last character of one word
  or matches both (`MatchingEnds`), and when these are equal none is cheaper than one that
  matches both, since a word without its last character is one change farther at most
  (`MatchingShrinks`). Two tables with the same equations have no least place where they
  differ, hence `EditDistanceCheapest`.
- *The order.* `WordLess` is the lexicographic order, so `Better` is total and transitive
  on candidates (`BetterOrder`); in a finite set each place is then taken by one candidate
  (`RanksDiffer`), so `Ranked` has at each place the one with as many better
  (`RankedFacts`), and `AnswerFacts` cuts the list.
- *The bytes.* A word without a letter or a digit is cut into its characters
  (`ChinesePieces`), so a query's character finds its rows; the digits of two positions
  differ up to the greatest `int` (`ToStringInjective`), so a row names one word.
- *Completeness.* `DicInv` says that rows are true; `BestInv` that none is missing. While
  nothing has failed, the map has counted the articles read so far (`Tallied`), the table
  has the rows of the words passed (`Listed`, then `Finished`), and the characters of the
  words passed lead to them (`Indexed`) or still stand in `_indexcn` (`Pending`): that a
  statement names what it was made for follows from `DicStatement`. While no Chinese word
  has a letter or a digit all pieces keep their three bytes (`Unspoiled`), so no row leads
  to a word without the character. `DoneBest` puts these together.

**The excerpts.** `SumInv`: positions still in the list are in ascending order, and
every position erased from it lies within a window of one at or before the slow iterator
(`Covers`; what -1 covers lies before the end of the window from the beginning of the
text, and its excerpt is cut there); while excerpts are cut each position is covered by
one that is still to come or shown by an excerpt already cut. What cutting does to a
window that begins or ends inside a character (`ExcerptFacts`) rests on `Whole`, which
says where bytes of each kind can stand in a text of letters and Chinese characters, and
is proved of any concatenation of these. In a text with other characters (`Sound`) the
cut moves an end by at most two bytes, which is what keeps the words in sight.

**Induction.** A set of natural numbers that is not empty has a least element
(`Least`, from the library's theorem on well-founded relations), so a claim about a
recursive function holds if it has no least counterexample. `FlattenIn` obtains in this
way that what holds of the parts and is kept by appending a part holds of a flattened
sequence; the facts about texts (`WholeTexts`) and bytes (`BytesFacts`) follow, and
`TakeOutFacts` uses `Least` for the first occurrence of a subsequence.

**The caches.** `LRUCacheProofs` has lemmas on the methods: for each of get, put,
reading a file and clearing, that a `Sound` cache stays sound: its list has each node
once, and the index maps a key to a node of the list that holds this key. The new
node of `emplace_front` is one that no entry has, by counting: among n + 1 numbers
there is one that n entries do not use. `SingleCacheProofs` adds that every entry
is found by its key (`IndexIsComplete`), so no key is in the list twice; then finding
a node by the index and finding a key in the list are the same, and each method does to
the list of pairs what `RecencyList` does. Completeness is not a part of what `CacheManagerProofs`
says of the caches, since the backup may come to name a key twice.

In `CacheManager` a cache inside a call is not sound: the index still leads to the node
that was erased. `Finish(c, o)` is the cache that `c` will be when the call `o` is
through, and no step of the call changes it (`MovesKeepEnd`); at its beginning it is
what `get` or `put` makes of the cache (`GetEnds`, `PutEnds`). So `Fine`, the invariant
of a cache, says that at most one call is inside, that the cache will be sound when that
is through, and that the node it is going to read is there. `RacedInv` says it of all
caches that are not in `raced`, and that there are none in `raced` until a worker
disturbs an update. Merge, clear and the pending lists leave list and index alone
(`SoundApart`), so they may come anywhere in a call.

For what the caches hold (`FileAndPending`, `AllUsesApplied`) the calls that are under
way are taken out of sight first: `view` has each cache with its call completed, so that
a put is one step of `view`, its `keyExist`, and the others leave it as it is; where no
call is inside, it is the cache (`Bare`). Then the list of pairs is compared with a list
of uses, newest first: `Shows(s, n, uses)` says that `s` has the last use of each key in
the order of the uses, and that keys are missing only when the list is full and only
those used before all that it holds. There is exactly one such list (`ShownIsRecent`),
and get, put and update each put one use in front of what a list shows. `SyncInv` then
says what each cache shows at each stage while no worker disturbs the update: `Current`,
some uses and the backup, or `Behind`, the same with uses in between that are all still
going to be made known, by keys that occur in some pending list. An update may apply the
uses on top of a cache's own earlier ones, since a use hides an older one of the same
key; once all are applied, nothing of what was in between is visible. A backup that the
new process reads is the list that was written, or part of it, which is why `Current` is
stated of any `file`.

**Only model-checked.** Liveness (`EveryTaskRuns`, `PushReturns`, `RequestAnswered`,
`LoopReturns`, `EveryRequestEnds`, `EveryCallEnds`): fairness and ENABLED are beyond
the prover. Every invariant and
every action property of a passing run, and the refinement, are stated by a theorem.

## 6. What is not modelled

`PROJECT.json` lists every component with its status. Left out on purpose:

- **Vendored code**: tinyxml2, cppjieba with limonp, simhash with jenkins, Md5 and
  another copy of cppjieba, nlohmann json. It is by far the largest part of the C++ in
  the repository: of some 19,500 lines about 4,100 are the program's own, and the
  definitions of this project stand for over 1,600 of these. What the program uses of it
  (an XML reader, a word cutter, a fingerprint) enters the models as a choice of any
  result. A model of it would be one of other projects' code.
- **Configuration** (read once before any thread starts), **addresses and socket
  set-up** (single system calls without state), **the logger** (written to, read by
  nothing in the program; two instances made at once is listed as a hazard), headers
  that only declare.
- **Floating point**: TF-IDF weights and the cosine that orders the pages found; only
  whether a weight is a number is modelled.
- **The MySQL and Redis libraries** inside a call: each call is a step. redis++ keeps
  one connection by default, so `select` and the command after it cannot be separated.
- **Memory corruption**: two threads inside one call of a `std::list` or a hash map at
  the same instant are modelled by either order of the calls or the death of the process
  (the calls themselves are interleaved in every way); what bytes past the end of
  `receive`'s array overwrite is modelled by the death of the process or any request to
  parse.
- `dictionary.cc:173` compares iterators of two different containers, which is
  undefined; it is modelled by what libstdc++ does, where all end iterators are equal.

## 7. Plan

Done, the most important behaviour first: (A) queue and pool, (B) event loop and
connections, (C) caches, (D) request dispatch with Redis and the shared database
handle, (E) message framing and the client, (F) dictionary and recommendations,
page library and page search, excerpts; theorems about A to F, which cover every safety
property.

What is left: lemmas of use beyond one module (`Least`, `FlattenIn` and `TakeOutFacts` could
also serve `LRUCacheProofs`), the hazards that `PROJECT.json` lists without a property, and
the floating-point weights.
