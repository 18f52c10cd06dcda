---------------------------- MODULE SearchServer ----------------------------
(***************************************************************************)
(* What a worker does with a request: SearchServer::threadTask with the      *)
(* dispatch of ProtocolParser, the answer caches, the web page cache in       *)
(* Redis, and the one MySQL handle that all workers use without a lock        *)
(* (Query).                                                                  *)
(*                                                                          *)
(* An answer is its message id and the requests whose rows it was made of.   *)
(* The answer caches of all workers are one bag here: a lookup finds what     *)
(* some worker put, because updateCache passes it on and the backup brings   *)
(* it back, or nothing; CacheManager has the caches themselves.  Redis        *)
(* outlives the process.                                                     *)
(***************************************************************************)
EXTENDS Naturals, FiniteSets

CONSTANTS
  Workers,
  English,        \* the queries of letters only
  Chinese,        \* the queries without a letter
  Mixed,          \* the others
  Matches,        \* the requests for which the database may hold something
  MaxLookups,     \* bound: database queries of one request
  MaxKept         \* bound: entries of all answer caches

Queries == English \union Chinese \union Mixed
Jobs == {"1", "2"} \X Queries            \* messageId and message

ASSUME SearchServerAssumption ==
  /\ Matches \subseteq Jobs
  /\ MaxLookups \in Nat \ {0} /\ MaxKept \in Nat \ {0}

NoAnswer == [id |-> "", of |-> {}]       \* the empty string
NoJob == <<"", "">>
NoResult == [of |-> NoJob, some |-> FALSE]
Answers == [id : {"100", "200"}, of : SUBSET Jobs]

VARIABLES
  wpc, job,       \* where each worker is, and its request
  left, rows,     \* queries it has still to make, whose rows it has got
  reply,          \* tocMessage
  handle,         \* the result that waits in _mysql to be stored
  lru,            \* what the answer caches hold: queries with answers
  web,            \* database 1 of Redis
  found,          \* the requests for which the database holds something
  had,            \* history: the workers whose request was in found from the start
  crossed         \* history: a query was made before another's result was stored

vars == <<wpc, job, left, rows, reply, handle, lru, web, found, had, crossed>>

\* The workers between mysql_query and mysql_store_result.
Fetching == {w \in Workers : wpc[w] = "fetch"}

-----------------------------------------------------------------------------
(* Faulty variants, each a bug this code could have; used by no definition. *)

\* The web page cache is asked for every request.
CachedInRedisOnly(j) == {web[j[2]]} \ {NoAnswer}

\* The result is kept after its rows were read, and a refused query reads it
\* again.
FetchKeepsResult(w) ==
  /\ wpc[w] = "fetch" /\ handle # NoResult
  /\ rows' = [rows EXCEPT ![w] = IF handle.some THEN @ \union {handle.of} ELSE @]
  /\ left' = [left EXCEPT ![w] = @ - 1]
  /\ wpc' = [wpc EXCEPT ![w] = "ask"]
  /\ UNCHANGED <<job, reply, handle, lru, web, found, had, crossed>>

\* The answer is packed with the id of the request.
PackRequestId(j, of) == [id |-> j[1], of |-> of]

\* The message is packed before it is compared with "".
MakePacked(w) ==
  /\ wpc[w] = "ask" /\ left[w] = 0
  /\ reply' = [reply EXCEPT ![w] = [id |-> IF job[w][1] = "1" THEN "100" ELSE "200", of |-> rows[w]]]
  /\ wpc' = [wpc EXCEPT ![w] = "keep"]
  /\ UNCHANGED <<job, left, rows, handle, lru, web, found, had, crossed>>

\* A failed query is tried again before its result is stored.
AskAgain(w) ==
  /\ wpc[w] = "ask" /\ left[w] > 0
  /\ \/ /\ handle = NoResult
        /\ handle' = [of |-> job[w], some |-> job[w] \in found]
        /\ wpc' = [wpc EXCEPT ![w] = "fetch"]
     \/ UNCHANGED <<wpc, handle>>
  /\ crossed' = (crossed \/ Fetching # {})
  /\ UNCHANGED <<job, left, rows, reply, lru, web, found, had>>

-----------------------------------------------------------------------------
\* packMsgToJson with the id that belongs to the request's.
Pack(j, of) == [id |-> IF j[1] = "1" THEN "100" ELSE "200", of |-> of]

\* doParse goes to a recommender or to WebPageQuery.
NeedsDatabase(j) == j[1] = "1" \/ j[2] \in Chinese

\* What the cache of the request's kind may return; it may also miss.
Cached(j) ==
  IF j[1] = "1" THEN {e[2] : e \in {x \in lru : x[1] = j[2]}}
                ELSE {web[j[2]]} \ {NoAnswer}

Init ==
  /\ wpc = [w \in Workers |-> "idle"]
  /\ job = [w \in Workers |-> NoJob]
  /\ left = [w \in Workers |-> 0]
  /\ rows = [w \in Workers |-> {}]
  /\ reply = [w \in Workers |-> NoAnswer]
  /\ handle = NoResult
  /\ lru = {}
  /\ web = [q \in Queries |-> NoAnswer]
  /\ found = {}
  /\ had = {}
  /\ crossed = FALSE

Receive(w, j) ==
  /\ wpc[w] = "idle"
  /\ job' = [job EXCEPT ![w] = j]
  /\ had' = IF j \in found THEN had \union {w} ELSE had
  /\ wpc' = [wpc EXCEPT ![w] = "look"]
  /\ UNCHANGED <<left, rows, reply, handle, lru, web, found, crossed>>

Hit(w) ==
  /\ wpc[w] = "look"
  /\ \E a \in Cached(job[w]) : reply' = [reply EXCEPT ![w] = a]
  /\ wpc' = [wpc EXCEPT ![w] = "send"]
  /\ UNCHANGED <<job, left, rows, handle, lru, web, found, had, crossed>>

\* The entry may be in another worker's cache only, or evicted; Redis has it
\* or not.
Miss(w) ==
  /\ wpc[w] = "look"
  /\ job[w][1] = "1" \/ Cached(job[w]) = {}
  /\ wpc' = [wpc EXCEPT ![w] = "parse"]
  /\ UNCHANGED <<job, left, rows, reply, handle, lru, web, found, had, crossed>>

\* A new recommender or WebPageQuery.  A query of stop words only makes no
\* database query, and nothing is held for it.
Parse(w) ==
  /\ wpc[w] = "parse"
  /\ NeedsDatabase(job[w])
  /\ \E n \in 0 .. MaxLookups :
       /\ job[w] \in Matches => n > 0
       /\ left' = [left EXCEPT ![w] = n]
  /\ rows' = [rows EXCEPT ![w] = {}]
  /\ wpc' = [wpc EXCEPT ![w] = "ask"]
  /\ UNCHANGED <<job, reply, handle, lru, web, found, had, crossed>>

\* A web search for English words is answered with an empty message that is
\* packed, one for mixed words with the empty string.
ParseWithoutDatabase(w) ==
  /\ wpc[w] = "parse"
  /\ ~NeedsDatabase(job[w])
  /\ reply' = [reply EXCEPT ![w] = IF job[w][2] \in English THEN Pack(job[w], {}) ELSE NoAnswer]
  /\ wpc' = [wpc EXCEPT ![w] = "keep"]
  /\ UNCHANGED <<job, left, rows, handle, lru, web, found, had, crossed>>

\* mysql_query: while a result waits to be stored the call is refused, and it
\* may fail; the error is not looked at.
Ask(w) ==
  /\ wpc[w] = "ask" /\ left[w] > 0
  /\ \/ /\ handle = NoResult
        /\ handle' = [of |-> job[w], some |-> job[w] \in found]
     \/ UNCHANGED handle
  /\ crossed' = (crossed \/ Fetching # {})
  /\ wpc' = [wpc EXCEPT ![w] = "fetch"]
  /\ UNCHANGED <<job, left, rows, reply, lru, web, found, had>>

\* mysql_store_result takes whatever result waits.
Fetch(w) ==
  /\ wpc[w] = "fetch" /\ handle # NoResult
  /\ rows' = [rows EXCEPT ![w] = IF handle.some THEN @ \union {handle.of} ELSE @]
  /\ handle' = NoResult
  /\ left' = [left EXCEPT ![w] = @ - 1]
  /\ wpc' = [wpc EXCEPT ![w] = "ask"]
  /\ UNCHANGED <<job, reply, lru, web, found, had, crossed>>

Make(w) ==
  /\ wpc[w] = "ask" /\ left[w] = 0
  /\ reply' = [reply EXCEPT ![w] = IF rows[w] = {} THEN NoAnswer ELSE Pack(job[w], rows[w])]
  /\ wpc' = [wpc EXCEPT ![w] = "keep"]
  /\ UNCHANGED <<job, left, rows, handle, lru, web, found, had, crossed>>

\* Only what was found is stored, under the query; the other gets an empty
\* message.  A full cache forgets an entry.
Keep(w) ==
  /\ wpc[w] = "keep"
  /\ \/ /\ reply[w] = NoAnswer
        /\ reply' = [reply EXCEPT ![w] = Pack(job[w], {})]
        /\ UNCHANGED <<lru, web>>
     \/ /\ reply[w] # NoAnswer /\ job[w][1] = "1"
        /\ \E kept \in SUBSET lru :
             /\ Cardinality(kept) < MaxKept
             /\ Cardinality(lru) < MaxKept => kept = lru
             /\ lru' = kept \union {<<job[w][2], reply[w]>>}
        /\ UNCHANGED <<reply, web>>
     \/ /\ reply[w] # NoAnswer /\ job[w][1] # "1"
        /\ web' = [web EXCEPT ![job[w][2]] = reply[w]]
        /\ UNCHANGED <<reply, lru>>
  /\ wpc' = [wpc EXCEPT ![w] = "send"]
  /\ UNCHANGED <<job, left, rows, handle, found, had, crossed>>

\* sendInLoop, and the end of threadTask with its locals.
Send(w) ==
  /\ wpc[w] = "send"
  /\ wpc' = [wpc EXCEPT ![w] = "idle"]
  /\ job' = [job EXCEPT ![w] = NoJob]
  /\ rows' = [rows EXCEPT ![w] = {}]
  /\ reply' = [reply EXCEPT ![w] = NoAnswer]
  /\ had' = had \ {w}
  /\ UNCHANGED <<left, handle, lru, web, found, crossed>>

\* The process dies and is started again, with a new handle.
Restart ==
  /\ wpc' = [w \in Workers |-> "idle"]
  /\ job' = [w \in Workers |-> NoJob]
  /\ left' = [w \in Workers |-> 0]
  /\ rows' = [w \in Workers |-> {}]
  /\ reply' = [w \in Workers |-> NoAnswer]
  /\ handle' = NoResult
  /\ had' = {}
  /\ UNCHANGED <<lru, web, found, crossed>>

\* No result waits: mysql_store_result returns a null pointer, which is used.
NullResult(w) == wpc[w] = "fetch" /\ handle = NoResult /\ Restart

\* The offline programs add words or pages for a request.
Rebuild(j) ==
  /\ j \in Matches \ found
  /\ found' = found \union {j}
  /\ UNCHANGED <<wpc, job, left, rows, reply, handle, lru, web, had, crossed>>

WorkerStep(w) ==
  \/ Hit(w) \/ Miss(w) \/ Parse(w) \/ ParseWithoutDatabase(w)
  \/ Ask(w) \/ Fetch(w) \/ NullResult(w) \/ Make(w) \/ Keep(w) \/ Send(w)

Next ==
  \/ \E w \in Workers : WorkerStep(w) \/ \E j \in Jobs : Receive(w, j)
  \/ \E j \in Jobs : Rebuild(j)
  \/ Restart

Spec == Init /\ [][Next]_vars

\* Workers are scheduled; requests, rebuilds and restarts need not happen.
FairSpec == Spec /\ \A w \in Workers : WF_vars(WorkerStep(w))

-----------------------------------------------------------------------------
Idle(w) == wpc[w] = "idle"

TypeOK ==
  /\ wpc \in [Workers -> {"idle", "look", "parse", "ask", "fetch", "keep", "send"}]
  /\ job \in [Workers -> Jobs \union {NoJob}]
  /\ left \in [Workers -> Nat]
  /\ rows \in [Workers -> SUBSET Jobs]
  /\ reply \in [Workers -> Answers \union {NoAnswer}]
  /\ handle \in [of : Jobs, some : BOOLEAN] \union {NoResult}
  /\ lru \subseteq Queries \X Answers
  /\ web \in [Queries -> Answers \union {NoAnswer}]
  /\ found \subseteq Matches
  /\ had \subseteq Workers
  /\ crossed \in BOOLEAN

\* A request for keywords is answered with message id 100 and one for pages
\* with 200, from a cache or not: the client shows an answer by that id, and
\* both caches are addressed by the query alone (threadTask, doParse).
KindMatches ==
  \A w \in Workers : wpc[w] = "send" => reply[w].id = Pack(job[w], {}).id

\* As long as no worker made a query between another's mysql_query and its
\* mysql_store_result on the shared handle, an answer is made of rows of its own request only, however
\* often it was cached and whatever crashed since.
OwnRows ==
  ~crossed => \A w \in Workers : wpc[w] = "send" => reply[w].of \subseteq {job[w]}

\* Under the same condition a request for which the database held something
\* when it arrived is not answered with nothing: an earlier miss is not
\* remembered.  Web searches with letters are never looked up.
FoundIsServed ==
  ~crossed => \A w \in had :
    wpc[w] = "send" /\ NeedsDatabase(job[w]) => reply[w].of # {}

\* Every request comes to its end, be it an answer or the end of the process;
\* a worker never waits for another's query.
EveryRequestEnds == \A w \in Workers : ~Idle(w) ~> Idle(w)
=============================================================================
