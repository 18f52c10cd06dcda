------------------------- MODULE SearchServerProofs -------------------------
(***************************************************************************)
(* Proofs about SearchServer, for every number of workers, all queries, all  *)
(* sizes of the caches and every order of requests, rebuilds and restarts.   *)
(***************************************************************************)
EXTENDS SearchServer, TLAPS

(***************************************************************************)
(* Types, and the kinds of answers.                                         *)
(***************************************************************************)

\* A worker that has something to do has a request, and one that waits for a
\* result has still to count it.
WorkInv ==
  /\ TypeOK
  /\ \A w \in Workers : wpc[w] # "idle" => job[w] \in Jobs
  /\ \A w \in Workers : wpc[w] = "fetch" => left[w] > 0

LEMMA WorkStep == WorkInv /\ [Next]_vars => WorkInv'
<1> SUFFICES ASSUME WorkInv, [Next]_vars PROVE WorkInv'
  OBVIOUS
<1> USE DEF WorkInv, TypeOK
<1>1. CASE UNCHANGED vars BY <1>1 DEF vars
<1>2. ASSUME NEW w \in Workers, NEW j \in Jobs, Receive(w, j) PROVE WorkInv'
  BY <1>2 DEF Receive
<1>3. ASSUME NEW w \in Workers, WorkerStep(w) PROVE WorkInv'
  <2>1. CASE Hit(w)
    <3>1. job[w] \in Jobs
      BY <2>1 DEF Hit
    <3>2. Cached(job[w]) \subseteq Answers
      BY <3>1 DEF Cached, Jobs
    <3> QED BY <2>1, <3>2 DEF Hit
  <2>2. CASE Miss(w) BY <2>2 DEF Miss
  <2>3. CASE Parse(w)
    BY <2>3, SearchServerAssumption DEF Parse
  <2>4. CASE ParseWithoutDatabase(w)
    BY <2>4 DEF ParseWithoutDatabase, Pack, Answers
  <2>5. CASE Ask(w)
    <3>1. handle' \in [of : Jobs, some : BOOLEAN] \union {NoResult}
      <4>1. job[w] \in Jobs /\ (job[w] \in found) \in BOOLEAN
        BY <2>5 DEF Ask
      <4>2. [of |-> job[w], some |-> job[w] \in found] \in [of : Jobs, some : BOOLEAN]
        BY <4>1, Zenon
      <4> QED BY <2>5, <4>2, Zenon DEF Ask
    <3> QED BY <2>5, <3>1 DEF Ask
  <2>6. CASE Fetch(w)
    <3>1. handle \in [of : Jobs, some : BOOLEAN]
      BY <2>6 DEF Fetch
    <3>2. rows' \in [Workers -> SUBSET Jobs]
      BY <2>6, <3>1 DEF Fetch
    <3>3. left' \in [Workers -> Nat]
      BY <2>6 DEF Fetch
    <3> QED BY <2>6, <3>2, <3>3 DEF Fetch
  <2>7. CASE NullResult(w)
    BY <2>7 DEF NullResult, Restart, NoJob
  <2>8. CASE Make(w)
    BY <2>8 DEF Make, Pack, Answers
  <2>9. CASE Keep(w)
    <3>1. job[w] \in Jobs /\ job[w][2] \in Queries
      BY <2>9 DEF Keep, Jobs
    <3>2. reply' \in [Workers -> Answers \union {NoAnswer}]
      BY <2>9 DEF Keep, Pack, Answers
    <3>3. lru' \subseteq Queries \X Answers
      <4>1. reply[w] # NoAnswer => reply[w] \in Answers
        OBVIOUS
      <4> QED BY <2>9, <3>1, <4>1 DEF Keep
    <3>4. web' \in [Queries -> Answers \union {NoAnswer}]
      BY <2>9, <3>1 DEF Keep
    <3> QED BY <2>9, <3>2, <3>3, <3>4 DEF Keep
  <2>10. CASE Send(w) BY <2>10 DEF Send
  <2> QED BY <1>3, <2>1, <2>2, <2>3, <2>4, <2>5, <2>6, <2>7, <2>8, <2>9, <2>10 DEF WorkerStep
<1>4. ASSUME NEW j \in Jobs, Rebuild(j) PROVE WorkInv'
  BY <1>4 DEF Rebuild
<1>5. CASE Restart
  BY <1>5 DEF Restart
<1> QED BY <1>1, <1>2, <1>3, <1>4, <1>5 DEF Next

LEMMA WorkInit == Init => WorkInv
<1> SUFFICES ASSUME Init PROVE WorkInv
  OBVIOUS
<1>1. rows \in [Workers -> SUBSET Jobs]
  BY DEF Init
<1>2. reply \in [Workers -> {NoAnswer}] /\ web \in [Queries -> {NoAnswer}]
  BY DEF Init
<1>3. job \in [Workers -> {NoJob}] /\ left \in [Workers -> Nat]
  BY DEF Init
<1>4. lru = {} /\ found = {} /\ had = {} /\ crossed = FALSE /\ handle = NoResult
  BY DEF Init
<1>5. wpc = [w \in Workers |-> "idle"]
  BY DEF Init
<1> HIDE DEF NoAnswer, NoJob, NoResult
<1> QED BY <1>1, <1>2, <1>3, <1>4, <1>5 DEF WorkInv, TypeOK

\* A restart may come at any time.
THEOREM TypesCorrect == Spec => []TypeOK
<1>1. Init => WorkInv
  BY WorkInit
<1>2. WorkInv => TypeOK
  BY DEF WorkInv
<1> QED BY <1>1, <1>2, WorkStep, PTL DEF Spec

-----------------------------------------------------------------------------
\* Each cache holds answers of its own kind, although both are addressed by
\* the query alone.
KindInv ==
  /\ \A e \in lru : e[2].id = "100"
  /\ \A q \in Queries : web[q] # NoAnswer => web[q].id = "200"
  /\ \A w \in Workers : wpc[w] = "keep" /\ reply[w] # NoAnswer =>
       reply[w].id = Pack(job[w], {}).id
  /\ KindMatches

LEMMA KindStep == WorkInv /\ KindInv /\ [Next]_vars => KindInv'
<1> SUFFICES ASSUME WorkInv, KindInv, [Next]_vars PROVE KindInv'
  OBVIOUS
<1> USE DEF WorkInv, TypeOK, KindInv, KindMatches
<1>1. CASE UNCHANGED vars BY <1>1 DEF vars, Pack
<1>2. ASSUME NEW w \in Workers, NEW j \in Jobs, Receive(w, j) PROVE KindInv'
  BY <1>2 DEF Receive, Pack
<1>3. ASSUME NEW w \in Workers, WorkerStep(w) PROVE KindInv'
  <2> USE DEF Pack
  <2>1. CASE Hit(w)
    <3>1. job[w] \in Jobs
      BY <2>1 DEF Hit
    <3>2. \A a \in Cached(job[w]) : a.id = Pack(job[w], {}).id
      BY <3>1 DEF Cached, Jobs
    <3>3. UNCHANGED <<job, lru, web>> /\ reply'[w] \in Cached(job[w])
      BY <2>1 DEF Hit
    <3>4. \A v \in Workers : wpc'[v] = "keep" => v # w /\ wpc[v] = "keep" /\ reply'[v] = reply[v]
      BY <2>1 DEF Hit
    <3>5. \A v \in Workers : wpc'[v] = "send" /\ v # w => wpc[v] = "send" /\ reply'[v] = reply[v]
      BY <2>1 DEF Hit
    <3> QED BY <3>2, <3>3, <3>4, <3>5
  <2>2. CASE Miss(w) BY <2>2 DEF Miss
  <2>3. CASE Parse(w) BY <2>3 DEF Parse
  <2>4. CASE ParseWithoutDatabase(w) BY <2>4 DEF ParseWithoutDatabase
  <2>5. CASE Ask(w) BY <2>5 DEF Ask
  <2>6. CASE Fetch(w) BY <2>6 DEF Fetch
  <2>7. CASE NullResult(w) BY <2>7 DEF NullResult, Restart
  <2>8. CASE Make(w) BY <2>8 DEF Make
  <2>9. CASE Keep(w)
    <3>1. job[w] \in Jobs /\ job[w][1] \in {"1", "2"}
      BY <2>9 DEF Keep, Jobs
    <3>2. reply[w] # NoAnswer => reply[w].id = Pack(job[w], {}).id
      BY <2>9 DEF Keep
    <3>3. \A e \in lru' : e[2].id = "100"
      BY <2>9, <3>1, <3>2 DEF Keep
    <3>4. \A q \in Queries : web'[q] # NoAnswer => web'[q].id = "200"
      BY <2>9, <3>1, <3>2 DEF Keep
    <3>5. reply'[w].id = Pack(job[w], {}).id
      BY <2>9, <3>2 DEF Keep
    <3>6. \A v \in Workers \ {w} : wpc'[v] = wpc[v] /\ reply'[v] = reply[v]
      BY <2>9 DEF Keep
    <3>7. wpc'[w] = "send" /\ UNCHANGED job
      BY <2>9 DEF Keep
    <3> QED BY <3>3, <3>4, <3>5, <3>6, <3>7
  <2>10. CASE Send(w) BY <2>10 DEF Send
  <2> QED BY <1>3, <2>1, <2>2, <2>3, <2>4, <2>5, <2>6, <2>7, <2>8, <2>9, <2>10 DEF WorkerStep
<1>4. ASSUME NEW j \in Jobs, Rebuild(j) PROVE KindInv'
  BY <1>4 DEF Rebuild, Pack
<1>5. CASE Restart
  BY <1>5 DEF Restart, Pack
<1> QED BY <1>1, <1>2, <1>3, <1>4, <1>5 DEF Next

\* Every request is answered with the message id of its kind, whatever the
\* caches and Redis held before.
THEOREM AnswersOfItsKind == Spec => []KindMatches
<1>1. Init => WorkInv /\ KindInv
  BY WorkInit DEF Init, KindInv, KindMatches
<1>2. KindInv => KindMatches
  BY DEF KindInv
<1> QED BY <1>1, <1>2, WorkStep, KindStep, PTL DEF Spec

-----------------------------------------------------------------------------
(***************************************************************************)
(* Answers hold rows of their own requests only, as long as no query comes   *)
(* between another worker's query and its result.                            *)
(***************************************************************************)

\* Then at most one worker waits for a result, and the result that waits is
\* that worker's.
HandleInv ==
  ~crossed =>
    /\ \A v, w \in Workers : wpc[v] = "fetch" /\ wpc[w] = "fetch" => v = w
    /\ handle # NoResult => \E w \in Workers : wpc[w] = "fetch" /\ handle.of = job[w]

LEMMA HandleStep == WorkInv /\ HandleInv /\ [Next]_vars => HandleInv'
<1> SUFFICES ASSUME WorkInv, HandleInv, [Next]_vars, ~crossed' PROVE HandleInv'
  BY DEF HandleInv
<1> USE DEF WorkInv, TypeOK, HandleInv
<1>1. CASE UNCHANGED vars BY <1>1 DEF vars
<1>2. ASSUME NEW w \in Workers, NEW j \in Jobs, Receive(w, j) PROVE HandleInv'
  BY <1>2 DEF Receive
<1>3. ASSUME NEW w \in Workers, WorkerStep(w) PROVE HandleInv'
  <2>1. CASE Hit(w) BY <2>1 DEF Hit
  <2>2. CASE Miss(w) BY <2>2 DEF Miss
  <2>3. CASE Parse(w) BY <2>3 DEF Parse
  <2>4. CASE ParseWithoutDatabase(w) BY <2>4 DEF ParseWithoutDatabase
  <2>5. CASE Ask(w)
    <3>1. ~crossed /\ \A v \in Workers : wpc[v] # "fetch"
      BY <2>5 DEF Ask, Fetching
    <3>2. handle = NoResult
      BY <3>1
    <3>3. handle' # NoResult => handle'.of = job[w]
      BY <2>5, <3>2 DEF Ask
    <3>4. wpc' = [wpc EXCEPT ![w] = "fetch"] /\ UNCHANGED job
      BY <2>5 DEF Ask
    <3> QED BY <3>1, <3>3, <3>4
  <2>6. CASE Fetch(w) BY <2>6 DEF Fetch
  <2>7. CASE NullResult(w) BY <2>7 DEF NullResult, Restart
  <2>8. CASE Make(w) BY <2>8 DEF Make
  <2>9. CASE Keep(w) BY <2>9 DEF Keep
  <2>10. CASE Send(w) BY <2>10 DEF Send
  <2> QED BY <1>3, <2>1, <2>2, <2>3, <2>4, <2>5, <2>6, <2>7, <2>8, <2>9, <2>10 DEF WorkerStep
<1>4. ASSUME NEW j \in Jobs, Rebuild(j) PROVE HandleInv'
  BY <1>4 DEF Rebuild
<1>5. CASE Restart
  BY <1>5 DEF Restart
<1> QED BY <1>1, <1>2, <1>3, <1>4, <1>5 DEF Next

\* What is kept, collected or about to be sent is of its own request.
OwnInv ==
  ~crossed =>
    /\ \A e \in lru : e[2].of \subseteq {<<"1", e[1]>>}
    /\ \A q \in Queries : web[q].of \subseteq {<<"2", q>>}
    /\ \A w \in Workers : wpc[w] \in {"ask", "fetch"} => rows[w] \subseteq {job[w]}
    /\ \A w \in Workers : wpc[w] \in {"keep", "send"} => reply[w].of \subseteq {job[w]}

LEMMA OwnStep == WorkInv /\ HandleInv /\ OwnInv /\ [Next]_vars => OwnInv'
<1> SUFFICES ASSUME WorkInv, HandleInv, OwnInv, [Next]_vars, ~crossed' PROVE OwnInv'
  BY DEF OwnInv
<1> USE DEF WorkInv, TypeOK, OwnInv
<1>1. CASE UNCHANGED vars BY <1>1 DEF vars
<1>2. ASSUME NEW w \in Workers, NEW j \in Jobs, Receive(w, j) PROVE OwnInv'
  BY <1>2 DEF Receive
<1>3. ASSUME NEW w \in Workers, WorkerStep(w) PROVE OwnInv'
  <2>1. CASE Hit(w)
    <3>1. job[w] \in Jobs /\ ~crossed
      BY <2>1 DEF Hit
    <3>2. \A a \in Cached(job[w]) : a.of \subseteq {job[w]}
      BY <3>1 DEF Cached, Jobs
    <3>3. UNCHANGED <<job, rows, lru, web>> /\ reply'[w] \in Cached(job[w]) /\ wpc'[w] = "send"
      BY <2>1 DEF Hit
    <3>4. \A v \in Workers \ {w} : wpc'[v] = wpc[v] /\ reply'[v] = reply[v]
      BY <2>1 DEF Hit
    <3> QED BY <3>1, <3>2, <3>3, <3>4
  <2>2. CASE Miss(w) BY <2>2 DEF Miss
  <2>3. CASE Parse(w) BY <2>3 DEF Parse
  <2>4. CASE ParseWithoutDatabase(w)
    <3>1. reply'[w].of = {} /\ wpc'[w] = "keep"
      BY <2>4 DEF ParseWithoutDatabase, Pack, NoAnswer
    <3>2. \A v \in Workers \ {w} : wpc'[v] = wpc[v] /\ reply'[v] = reply[v]
      BY <2>4 DEF ParseWithoutDatabase
    <3>3. ~crossed /\ UNCHANGED <<job, rows, lru, web>>
      BY <2>4 DEF ParseWithoutDatabase
    <3> QED BY <3>1, <3>2, <3>3
  <2>5. CASE Ask(w) BY <2>5 DEF Ask
  <2>6. CASE Fetch(w)
    <3>1. ~crossed /\ handle.of = job[w]
      BY <2>6 DEF Fetch, HandleInv
    <3>2. rows'[w] \subseteq {job[w]}
      BY <2>6, <3>1 DEF Fetch
    <3>3. \A v \in Workers \ {w} : wpc'[v] = wpc[v] /\ rows'[v] = rows[v]
      BY <2>6 DEF Fetch
    <3>4. wpc'[w] = "ask" /\ UNCHANGED <<job, reply, lru, web>>
      BY <2>6 DEF Fetch
    <3> QED BY <3>1, <3>2, <3>3, <3>4
  <2>7. CASE NullResult(w) BY <2>7 DEF NullResult, Restart
  <2>8. CASE Make(w)
    <3>1. ~crossed /\ rows[w] \subseteq {job[w]} /\ UNCHANGED <<job, rows, lru, web>>
      BY <2>8 DEF Make
    <3>2. reply'[w].of = rows[w] /\ wpc'[w] = "keep"
      BY <2>8 DEF Make, Pack, NoAnswer
    <3>3. \A v \in Workers \ {w} : wpc'[v] = wpc[v] /\ reply'[v] = reply[v]
      BY <2>8 DEF Make
    <3> QED BY <3>1, <3>2, <3>3
  <2>9. CASE Keep(w)
    <3>1. job[w] \in Jobs /\ ~crossed /\ reply[w].of \subseteq {job[w]}
      BY <2>9 DEF Keep
    <3>2. job[w] = <<job[w][1], job[w][2]>> /\ job[w][1] \in {"1", "2"} /\ job[w][2] \in Queries
      BY <3>1 DEF Jobs
    <3>3. \A e \in lru' : e[2].of \subseteq {<<"1", e[1]>>}
      BY <2>9, <3>1, <3>2 DEF Keep
    <3>4. \A q \in Queries : web'[q].of \subseteq {<<"2", q>>}
      BY <2>9, <3>1, <3>2 DEF Keep
    <3>5. reply'[w].of \subseteq {job[w]}
      BY <2>9, <3>1 DEF Keep, Pack
    <3>6. \A v \in Workers \ {w} : wpc'[v] = wpc[v] /\ reply'[v] = reply[v]
      BY <2>9 DEF Keep
    <3>7. wpc'[w] = "send" /\ UNCHANGED <<job, rows>>
      BY <2>9 DEF Keep
    <3> QED BY <3>1, <3>3, <3>4, <3>5, <3>6, <3>7
  <2>10. CASE Send(w) BY <2>10 DEF Send
  <2> QED BY <1>3, <2>1, <2>2, <2>3, <2>4, <2>5, <2>6, <2>7, <2>8, <2>9, <2>10 DEF WorkerStep
<1>4. ASSUME NEW j \in Jobs, Rebuild(j) PROVE OwnInv'
  BY <1>4 DEF Rebuild
<1>5. CASE Restart
  BY <1>5 DEF Restart
<1> QED BY <1>1, <1>2, <1>3, <1>4, <1>5 DEF Next

LEMMA OwnInit == Init => HandleInv /\ OwnInv
<1> SUFFICES ASSUME Init PROVE HandleInv /\ OwnInv
  OBVIOUS
<1>1. lru = {} /\ handle = NoResult /\ \A w \in Workers : wpc[w] = "idle"
  BY DEF Init
<1>2. \A q \in Queries : web[q].of = {}
  BY DEF Init, NoAnswer
<1> QED BY <1>1, <1>2 DEF HandleInv, OwnInv

\* Crashes, evictions and the caches never mix the rows of two requests; only
\* the shared handle can.
THEOREM OwnRowsOnly == Spec => []OwnRows
<1>1. Init => WorkInv /\ HandleInv /\ OwnInv
  BY WorkInit, OwnInit
<1>2. OwnInv => OwnRows
  BY DEF OwnInv, OwnRows
<1> QED BY <1>1, <1>2, WorkStep, HandleStep, OwnStep, PTL DEF Spec

-----------------------------------------------------------------------------
(***************************************************************************)
(* What the database holds is served.                                       *)
(***************************************************************************)

\* No cache remembers a miss, and a worker whose request had rows has queries
\* left to make or has got some of them.
FoundInv ==
  ~crossed =>
    /\ \A e \in lru : e[2].of # {}
    /\ \A q \in Chinese : web[q] # NoAnswer => web[q].of # {}
    /\ \A w \in Workers :
         wpc[w] = "keep" /\ NeedsDatabase(job[w]) /\ reply[w] # NoAnswer => reply[w].of # {}
    /\ \A w \in had :
         /\ wpc[w] # "idle" /\ job[w] \in found
         /\ wpc[w] \in {"ask", "fetch"} => left[w] > 0 \/ rows[w] # {}
         /\ wpc[w] = "fetch" /\ handle # NoResult => handle.some = TRUE
         /\ wpc[w] \in {"keep", "send"} /\ NeedsDatabase(job[w]) => reply[w].of # {}

LEMMA FoundStep == WorkInv /\ HandleInv /\ FoundInv /\ [Next]_vars => FoundInv'
<1> SUFFICES ASSUME WorkInv, HandleInv, FoundInv, [Next]_vars, ~crossed' PROVE FoundInv'
  BY DEF FoundInv
<1> USE DEF WorkInv, TypeOK, FoundInv
<1>1. CASE UNCHANGED vars BY <1>1 DEF vars, NeedsDatabase
<1>2. ASSUME NEW w \in Workers, NEW j \in Jobs, Receive(w, j) PROVE FoundInv'
  <2>1. ~crossed /\ UNCHANGED <<left, rows, reply, handle, lru, web, found>>
    BY <1>2 DEF Receive
  <2>2. \A v \in Workers \ {w} : wpc'[v] = wpc[v] /\ job'[v] = job[v] /\ (v \in had' => v \in had)
    BY <1>2 DEF Receive
  <2>3. wpc'[w] = "look" /\ (w \in had' => job'[w] \in found')
    BY <1>2 DEF Receive
  <2>4. had' \subseteq Workers
    BY <1>2 DEF Receive
  <2> QED BY <2>1, <2>2, <2>3, <2>4 DEF NeedsDatabase
<1>3. ASSUME NEW w \in Workers, WorkerStep(w) PROVE FoundInv'
  <2>1. CASE Hit(w)
    <3>1. job[w] \in Jobs /\ ~crossed
      BY <2>1 DEF Hit
    <3>2. \A a \in Cached(job[w]) : NeedsDatabase(job[w]) => a.of # {}
      BY <3>1 DEF Cached, Jobs, NeedsDatabase
    <3>3. reply'[w] \in Cached(job[w]) /\ wpc'[w] = "send"
      BY <2>1 DEF Hit
    <3>4. UNCHANGED <<job, left, rows, handle, lru, web, found, had>>
      BY <2>1 DEF Hit
    <3>5. \A v \in Workers \ {w} : wpc'[v] = wpc[v] /\ reply'[v] = reply[v]
      BY <2>1 DEF Hit
    <3> QED BY <3>1, <3>2, <3>3, <3>4, <3>5 DEF NeedsDatabase
  <2>2. CASE Miss(w) BY <2>2 DEF Miss, NeedsDatabase
  <2>3. CASE Parse(w)
    <3>1. w \in had => job[w] \in Matches
      BY <2>3 DEF Parse
    <3>2. wpc'[w] = "ask" /\ (w \in had => left'[w] > 0)
      BY <2>3, <3>1 DEF Parse
    <3>3. ~crossed /\ UNCHANGED <<job, reply, handle, lru, web, found, had>>
      BY <2>3 DEF Parse
    <3>4. \A v \in Workers \ {w} : wpc'[v] = wpc[v] /\ left'[v] = left[v] /\ rows'[v] = rows[v]
      BY <2>3 DEF Parse
    <3> QED BY <3>2, <3>3, <3>4 DEF NeedsDatabase
  <2>4. CASE ParseWithoutDatabase(w)
    <3>1. ~NeedsDatabase(job[w]) /\ wpc'[w] = "keep"
      BY <2>4 DEF ParseWithoutDatabase
    <3>2. ~crossed /\ UNCHANGED <<job, left, rows, handle, lru, web, found, had>>
      BY <2>4 DEF ParseWithoutDatabase
    <3>3. \A v \in Workers \ {w} : wpc'[v] = wpc[v] /\ reply'[v] = reply[v]
      BY <2>4 DEF ParseWithoutDatabase
    <3> QED BY <3>1, <3>2, <3>3 DEF NeedsDatabase
  <2>5. CASE Ask(w)
    <3>1. ~crossed /\ \A v \in Workers : wpc[v] # "fetch"
      BY <2>5 DEF Ask, Fetching
    <3>2. handle = NoResult /\ left[w] > 0 /\ wpc'[w] = "fetch"
      BY <2>5, <3>1 DEF Ask, HandleInv
    <3>3. w \in had /\ handle' # NoResult => handle'.some = TRUE
      <4>1. CASE handle' = handle BY <3>2, <4>1
      <4>2. CASE handle' # handle
        <5>1. handle'.some = (job[w] \in found)
          BY <2>5, <4>2 DEF Ask
        <5> QED BY <3>1, <5>1
      <4> QED BY <4>1, <4>2
    <3>4. UNCHANGED <<job, left, rows, reply, lru, web, found, had>>
      BY <2>5 DEF Ask
    <3>5. \A v \in Workers \ {w} : wpc'[v] = wpc[v]
      BY <2>5 DEF Ask
    <3> QED BY <3>1, <3>2, <3>3, <3>4, <3>5 DEF NeedsDatabase
  <2>6. CASE Fetch(w)
    <3>1. w \in had => rows'[w] # {}
      BY <2>6 DEF Fetch
    <3>2. ~crossed /\ handle' = NoResult /\ wpc'[w] = "ask"
      BY <2>6 DEF Fetch
    <3>3. UNCHANGED <<job, reply, lru, web, found, had>>
      BY <2>6 DEF Fetch
    <3>4. \A v \in Workers \ {w} : wpc'[v] = wpc[v] /\ left'[v] = left[v] /\ rows'[v] = rows[v]
      BY <2>6 DEF Fetch
    <3> QED BY <3>1, <3>2, <3>3, <3>4 DEF NeedsDatabase
  <2>7. CASE NullResult(w) BY <2>7 DEF NullResult, Restart
  <2>8. CASE Make(w)
    <3>1. ~crossed /\ left[w] = 0 /\ (w \in had => rows[w] # {})
      BY <2>8 DEF Make
    <3>2. reply'[w] # NoAnswer => reply'[w].of # {}
      BY <2>8 DEF Make, Pack
    <3>3. w \in had => reply'[w].of # {}
      BY <2>8, <3>1 DEF Make, Pack
    <3>4. wpc'[w] = "keep" /\ UNCHANGED <<job, left, rows, handle, lru, web, found, had>>
      BY <2>8 DEF Make
    <3>5. \A v \in Workers \ {w} : wpc'[v] = wpc[v] /\ reply'[v] = reply[v]
      BY <2>8 DEF Make
    <3> QED BY <3>1, <3>2, <3>3, <3>4, <3>5 DEF NeedsDatabase
  <2>9. CASE Keep(w)
    <3>1. job[w] \in Jobs /\ ~crossed
      BY <2>9 DEF Keep
    <3>2. job[w][1] \in {"1", "2"} /\ job[w][2] \in Queries
      BY <3>1 DEF Jobs
    <3>3. \A e \in lru' : e[2].of # {}
      BY <2>9, <3>1, <3>2 DEF Keep, NeedsDatabase
    <3>4. \A q \in Chinese : web'[q] # NoAnswer => web'[q].of # {}
      BY <2>9, <3>1, <3>2 DEF Keep, NeedsDatabase, Queries
    <3>5. reply'[w] = reply[w] \/ (reply[w] = NoAnswer /\ reply[w].of = {})
      <4>1. NoAnswer.of = {}
        BY DEF NoAnswer
      <4> QED BY <2>9, <4>1 DEF Keep
    <3>6. \A v \in Workers \ {w} : wpc'[v] = wpc[v] /\ reply'[v] = reply[v]
      BY <2>9 DEF Keep
    <3>7. wpc[w] = "keep" /\ wpc'[w] = "send" /\ UNCHANGED <<job, left, rows, handle, found, had>>
      BY <2>9 DEF Keep
    <3> QED BY <3>1, <3>3, <3>4, <3>5, <3>6, <3>7 DEF NeedsDatabase
  <2>10. CASE Send(w)
    <3>1. ~crossed /\ UNCHANGED <<left, handle, lru, web, found>> /\ had' = had \ {w}
      BY <2>10 DEF Send
    <3>2. \A v \in Workers \ {w} : /\ wpc'[v] = wpc[v] /\ job'[v] = job[v]
                                   /\ rows'[v] = rows[v] /\ reply'[v] = reply[v]
      BY <2>10 DEF Send
    <3>3. wpc'[w] = "idle"
      BY <2>10 DEF Send
    <3> QED BY <3>1, <3>2, <3>3 DEF NeedsDatabase
  <2> QED BY <1>3, <2>1, <2>2, <2>3, <2>4, <2>5, <2>6, <2>7, <2>8, <2>9, <2>10 DEF WorkerStep
<1>4. ASSUME NEW j \in Jobs, Rebuild(j) PROVE FoundInv'
  BY <1>4 DEF Rebuild, NeedsDatabase
<1>5. CASE Restart
  BY <1>5 DEF Restart
<1> QED BY <1>1, <1>2, <1>3, <1>4, <1>5 DEF Next

\* Neither the answer caches nor Redis turn an early miss into a lasting one.
THEOREM WhatIsFoundIsServed == Spec => []FoundIsServed
<1>1. Init => WorkInv /\ HandleInv /\ FoundInv
  <2>1. ASSUME Init PROVE FoundInv
    <3>1. lru = {} /\ had = {} /\ \A w \in Workers : wpc[w] = "idle"
      BY <2>1 DEF Init
    <3>2. \A q \in Chinese : web[q] = NoAnswer
      BY <2>1 DEF Init, Queries
    <3> QED BY <3>1, <3>2 DEF FoundInv
  <2> QED BY <2>1, WorkInit, OwnInit
<1>2. FoundInv => FoundIsServed
  BY DEF FoundInv, FoundIsServed
<1> QED BY <1>1, <1>2, WorkStep, HandleStep, FoundStep, PTL DEF Spec
=============================================================================
