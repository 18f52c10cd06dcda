-------------------------- MODULE TcpClientProofs --------------------------
(***************************************************************************)
(* Proofs about TcpClient, for all lengths of messages, sizes of the          *)
(* connection and of the screen, and however reads and writes are cut.        *)
(***************************************************************************)
EXTENDS TcpClient, SequenceTheorems, TLAPS

(***************************************************************************)
(* Types.                                                                   *)
(***************************************************************************)

Messages ==
  [n : Nat, id : {"", "1", "2", "100", "200"}, pages : 0 .. MaxPages, len : 0 .. MaxLen]
Bytes == Messages \X Nat

TypeInv ==
  /\ {sent, shown, task} \subseteq Messages
  /\ messageId \in {"1", "2"}
  /\ scr \in {"menu", "prompt", "await", "pager", "gone"}
  /\ got \in [Directions -> Seq(Bytes)]
  /\ wire \in [Directions -> Seq(Bytes)]
  /\ out \in [Directions -> Seq(Bytes)]

LEMMA MessageBounds ==
  /\ NoMessage \in Messages
  /\ \A m \in Messages : /\ m.n \in Nat /\ m.id \in {"", "1", "2", "100", "200"}
                         /\ m.pages \in 0 .. MaxPages /\ m.pages \in Nat
                         /\ m.len \in 0 .. MaxLen /\ m.len \in Nat
<1>1. MaxLen \in Nat /\ MaxPages \in Nat
  BY TcpClientAssumption
<1>2. NoMessage \in Messages
  BY <1>1 DEF NoMessage, Messages
<1>3. ASSUME NEW m \in Messages
      PROVE  /\ m.n \in Nat /\ m.id \in {"", "1", "2", "100", "200"}
             /\ m.pages \in 0 .. MaxPages /\ m.len \in 0 .. MaxLen
  BY DEF Messages
<1>4. \A k : (k \in 0 .. MaxPages => k \in Nat) /\ (k \in 0 .. MaxLen => k \in Nat)
  BY <1>1
<1> QED BY <1>2, <1>3, <1>4

LEMMA FrameType == \A m \in Messages : {Frame(m), Header(m), Body(m)} \subseteq Seq(Bytes)
<1> SUFFICES ASSUME NEW m \in Messages PROVE {Frame(m), Header(m), Body(m)} \subseteq Seq(Bytes)
  OBVIOUS
<1>1. HeaderLen \in Nat /\ m.len \in Nat
  BY SocketIOAssumption, MessageBounds
<1>2. Frame(m) \in Seq(Bytes) /\ Len(Frame(m)) = HeaderLen + m.len
  BY <1>1 DEF Frame, Bytes
<1>3. Header(m) \in Seq(Bytes)
  BY <1>1, <1>2, SubSeqProperties DEF Header
<1>4. Body(m) \in Seq(Bytes)
  BY <1>1, <1>2, SubSeqProperties DEF Body
<1> QED BY <1>2, <1>3, <1>4

LEMMA MessageTypes ==
  ASSUME TypeInv
  PROVE  /\ NoMessage \in Messages
         /\ \A n \in Nat : Requests(n) \subseteq Messages
         /\ \A r \in Messages : AnswersTo(r) \subseteq Messages
<1>0. MaxLen \in Nat /\ MaxPages \in Nat
  BY TcpClientAssumption
<1>1. NoMessage \in Messages
  BY MessageBounds
<1>2. \A n \in Nat : Requests(n) \subseteq Messages
  <2> SUFFICES ASSUME NEW n \in Nat, NEW r \in Requests(n) PROVE r \in Messages
    OBVIOUS
  <2>1. r \in [n : {n}, id : {messageId}, pages : {0}, len : 1 .. MaxLen]
    BY DEF Requests
  <2>2. r = [n |-> r.n, id |-> r.id, pages |-> r.pages, len |-> r.len]
    BY <2>1
  <2>3. r.n \in Nat /\ r.id \in {"1", "2"} /\ r.pages \in 0 .. MaxPages /\ r.len \in 0 .. MaxLen
    BY <1>0, <2>1 DEF TypeInv
  <2> QED BY <2>2, <2>3 DEF Messages
<1>3. \A r \in Messages : AnswersTo(r) \subseteq Messages
  <2> SUFFICES ASSUME NEW r \in Messages, NEW a \in AnswersTo(r) PROVE a \in Messages
    OBVIOUS
  <2>0. r.n \in Nat
    BY DEF Messages
  <2>1. CASE r.id = "1"
    <3>1. a \in [n : {r.n}, id : {"100"}, pages : {0}, len : 1 .. MaxLen]
      BY <2>1 DEF AnswersTo
    <3>2. a = [n |-> a.n, id |-> a.id, pages |-> a.pages, len |-> a.len]
      BY <3>1
    <3>3. a.n \in Nat /\ a.id = "100" /\ a.pages \in 0 .. MaxPages /\ a.len \in 0 .. MaxLen
      BY <1>0, <2>0, <3>1
    <3> QED BY <3>2, <3>3 DEF Messages
  <2>2. CASE r.id # "1"
    <3>1. a \in [n : {r.n}, id : {"200"}, pages : 0 .. MaxPages, len : 1 .. MaxLen]
      BY <2>2 DEF AnswersTo
    <3>2. a = [n |-> a.n, id |-> a.id, pages |-> a.pages, len |-> a.len]
      BY <3>1
    <3>3. a.n \in Nat /\ a.id = "200" /\ a.pages \in 0 .. MaxPages /\ a.len \in 0 .. MaxLen
      BY <1>0, <2>0, <3>1
    <3> QED BY <3>2, <3>3 DEF Messages
  <2> QED BY <2>1, <2>2
<1> QED BY <1>1, <1>2, <1>3

LEMMA ReadTypes == \A d \in Directions : TypeInv /\ readn(d) =>
  /\ got' \in [Directions -> Seq(Bytes)]
  /\ wire' \in [Directions -> Seq(Bytes)]
<1> SUFFICES ASSUME NEW d \in Directions, TypeInv, readn(d)
             PROVE  /\ got' \in [Directions -> Seq(Bytes)]
                    /\ wire' \in [Directions -> Seq(Bytes)]
  OBVIOUS
<1>1. PICK k \in 1 .. Len(wire[d]) :
        /\ got' = [got EXCEPT ![d] = @ \o SubSeq(wire[d], 1, k)]
        /\ wire' = [wire EXCEPT ![d] = SubSeq(@, k + 1, Len(@))]
  BY DEF readn
<1>2. wire[d] \in Seq(Bytes) /\ got[d] \in Seq(Bytes)
  BY DEF TypeInv
<1>3. SubSeq(wire[d], 1, k) \in Seq(Bytes) /\ SubSeq(wire[d], k + 1, Len(wire[d])) \in Seq(Bytes)
  BY <1>2, SubSeqProperties
<1>4. got[d] \o SubSeq(wire[d], 1, k) \in Seq(Bytes)
  BY <1>2, <1>3, ConcatProperties
<1> QED BY <1>1, <1>3, <1>4 DEF TypeInv

LEMMA WriteTypes == \A d \in Directions : TypeInv /\ writen(d) =>
  /\ out' \in [Directions -> Seq(Bytes)]
  /\ wire' \in [Directions -> Seq(Bytes)]
<1> SUFFICES ASSUME NEW d \in Directions, TypeInv, writen(d)
             PROVE  /\ out' \in [Directions -> Seq(Bytes)]
                    /\ wire' \in [Directions -> Seq(Bytes)]
  OBVIOUS
<1>1. PICK k \in 1 .. Len(out[d]) :
        /\ wire' = [wire EXCEPT ![d] = @ \o SubSeq(out[d], 1, k)]
        /\ out' = [out EXCEPT ![d] = SubSeq(@, k + 1, Len(@))]
  BY DEF writen
<1>2. wire[d] \in Seq(Bytes) /\ out[d] \in Seq(Bytes)
  BY DEF TypeInv
<1>3. SubSeq(out[d], 1, k) \in Seq(Bytes) /\ SubSeq(out[d], k + 1, Len(out[d])) \in Seq(Bytes)
  BY <1>2, SubSeqProperties
<1>4. wire[d] \o SubSeq(out[d], 1, k) \in Seq(Bytes)
  BY <1>2, <1>3, ConcatProperties
<1> QED BY <1>1, <1>3, <1>4 DEF TypeInv

LEMMA Received1 == \A d \in Directions :
  TypeInv /\ (Complete(got[d]) \/ Parses(got[d])) => got[d][1][1] \in Messages
<1> SUFFICES ASSUME NEW d \in Directions, TypeInv, Complete(got[d]) \/ Parses(got[d])
             PROVE  got[d][1][1] \in Messages
  OBVIOUS
<1>1. got[d] \in Seq(Bytes) /\ Len(got[d]) >= 1
  BY SocketIOAssumption DEF TypeInv, Complete, Parses
<1>2. got[d][1] \in Bytes
  BY <1>1
<1> QED BY <1>2 DEF Bytes

LEMMA TypeStep == TypeInv /\ [Next]_vars => TypeInv'
<1> SUFFICES ASSUME TypeInv, [Next]_vars PROVE TypeInv'
  OBVIOUS
<1> USE DEF TypeInv
<1>0. <<>> \in Seq(Bytes)
  BY EmptySeq
<1>1. CASE UNCHANGED vars BY <1>1 DEF vars, ioVars
<1>2. CASE Next /\ ~(Send \/ ClientIO \/ ServerStep \/ Die)
  BY <1>2 DEF Next, Menu, SwitchMode, Quit, TurnPage, LeavePages, ioVars
<1>3. CASE Send
  <2>1. sent' \in Messages
    <3>1. sent.n \in Nat
      BY DEF Messages
    <3> QED BY <1>3, <3>1, MessageTypes DEF Send
  <2>2. Header(sent') \in Seq(Bytes) /\ Body(sent') \in Seq(Bytes)
    BY <2>1, FrameType
  <2>3. wire["up"] \o Header(sent') \in Seq(Bytes)
    BY <2>2, ConcatProperties DEF Directions
  <2> QED BY <1>3, <2>1, <2>2, <2>3 DEF Send
<1>4. CASE Die
  BY <1>0, <1>4 DEF Die
<1>5. CASE ClientIO
  <2>1. CASE ClientWrites BY <2>1, WriteTypes DEF ClientWrites, writen, Directions
  <2>2. CASE ClientReads BY <2>2, ReadTypes DEF ClientReads, readn, Directions
  <2>3. CASE HandleMessage
    <3>1. got["down"][1][1] \in Messages
      BY <2>3, Received1 DEF HandleMessage, Directions
    <3> QED BY <1>0, <2>3, <3>1 DEF HandleMessage
  <2> QED BY <1>5, <2>1, <2>2, <2>3 DEF ClientIO
<1>6. CASE ServerStep
  <2>1. CASE HandleRead \/ Refuse \/ Sent BY <2>1 DEF HandleRead, Refuse, Sent, ioVars
  <2>2. CASE ServerReads BY <2>2, ReadTypes DEF ServerReads, readn, Directions
  <2>3. CASE Received
    <3>1. Parses(got["up"]) => got["up"][1][1] \in Messages
      BY Received1 DEF Directions
    <3>2. task' \in {got["up"][1][1], task, NoMessage} /\ (task' \in Messages)
      BY <2>3, <3>1, MessageBounds DEF Received
    <3> QED BY <1>0, <2>3, <3>2 DEF Received
  <2>4. CASE Answer
    <3>1. PICK a \in AnswersTo(task) : out' = [out EXCEPT !["down"] = Frame(a)]
      BY <2>4 DEF Answer
    <3>2. Frame(a) \in Seq(Bytes)
      BY <3>1, MessageTypes, FrameType
    <3> QED BY <2>4, <3>1, <3>2 DEF Answer
  <2>5. CASE ServerWrites BY <2>5, WriteTypes DEF ServerWrites, writen, Directions
  <2>6. CASE WriteToNobody
    <3>1. PICK k \in 1 .. Len(out["down"]) : out' = [out EXCEPT !["down"] = SubSeq(@, k + 1, Len(@))]
      BY <2>6 DEF WriteToNobody
    <3>2. SubSeq(out["down"], k + 1, Len(out["down"])) \in Seq(Bytes)
      BY SubSeqProperties DEF Directions
    <3> QED BY <2>6, <3>1, <3>2 DEF WriteToNobody
  <2> QED BY <1>6, <2>1, <2>2, <2>3, <2>4, <2>5, <2>6 DEF ServerStep
<1> QED BY <1>1, <1>2, <1>3, <1>4, <1>5, <1>6 DEF Next

LEMMA TypeInit == Init => TypeInv
<1> SUFFICES ASSUME Init PROVE TypeInv
  OBVIOUS
<1>1. NoMessage \in Messages
  BY MessageBounds
<1> QED BY <1>1 DEF Init, IOInit, TypeInv

-----------------------------------------------------------------------------
(***************************************************************************)
(* The pager.                                                               *)
(***************************************************************************)

\* The pages seen are the first ones, at least to the end of this screen.
PagerInv ==
  /\ count \in 0 .. MaxPages /\ curIdx \in 0 .. count
  /\ PagerInBounds
  /\ scr = "pager" =>
       /\ curIdx < count
       /\ \E k \in 0 .. count : /\ seen = 0 .. k - 1
                                /\ k = count \/ k >= curIdx + PageSize

LEMMA PagerStep == TypeInv /\ PagerInv /\ [Next]_vars => PagerInv'
<1> SUFFICES ASSUME TypeInv, PagerInv, [Next]_vars PROVE PagerInv'
  OBVIOUS
<1> USE PagerAssumption, TcpClientAssumption DEF PagerInv, PagerInBounds
<1>1. CASE UNCHANGED vars BY <1>1 DEF vars, pagerVars
<1>2. CASE TurnPage
  <2>1. scr = "pager" /\ scr' = "pager" /\ curIdx < count
    BY <1>2 DEF TurnPage
  <2>2. PICK k \in 0 .. count : seen = 0 .. k - 1 /\ (k = count \/ k >= curIdx + PageSize)
    BY <2>1
  <2>3. CASE PreviousPage
    <3>1. /\ curIdx >= PageSize /\ curIdx' = curIdx - PageSize /\ count' = count
          /\ printed' = curIdx' .. curIdx' + PageSize - 1
          /\ seen' = seen \union printed'
      BY <2>3 DEF PreviousPage, LessBefore, Screen
    <3>2. printed' \subseteq 0 .. curIdx - 1
      BY <3>1
    <3>3. curIdx <= k
      BY <2>1, <2>2
    <3>4. seen' = 0 .. k - 1
      BY <2>2, <3>1, <3>2, <3>3
    <3> QED BY <2>1, <2>2, <3>1, <3>2, <3>4
  <2>4. CASE NextPage
    <3> DEFINE to == IF curIdx' + PageSize < count THEN curIdx' + PageSize ELSE count
    <3>1. /\ curIdx + PageSize < count /\ curIdx' = curIdx + PageSize /\ count' = count
          /\ printed' = curIdx' .. to - 1
          /\ seen' = seen \union printed'
      BY <2>4 DEF NextPage, MoreToCome, Screen
    <3>2. to \in 0 .. count /\ (to = count \/ to >= curIdx' + PageSize)
      BY <3>1
    <3> HIDE DEF to
    <3>3. k >= curIdx'
      BY <2>2, <3>1
    <3>4. PICK n \in {k, to} : n >= k /\ n >= to
      BY <3>2
    <3>5. seen' = 0 .. n - 1
      BY <2>2, <3>1, <3>2, <3>3, <3>4
    <3> QED BY <2>1, <2>2, <3>1, <3>2, <3>4, <3>5
  <2> QED BY <1>2, <2>3, <2>4 DEF TurnPage
<1>3. CASE HandleMessage
  <2>1. CASE UNCHANGED pagerVars /\ scr' # "pager"
    BY <2>1 DEF pagerVars
  <2>2. CASE ~(UNCHANGED pagerVars /\ scr' # "pager")
    <3> DEFINE n == got["down"][1][1].pages
    <3>1. splitPages(n) /\ scr' = IF n <= PageSize THEN "prompt" ELSE "pager"
      BY <1>3, <2>2 DEF HandleMessage
    <3>2. n \in 0 .. MaxPages
      BY <1>3, Received1, MessageBounds DEF HandleMessage, Directions
    <3> HIDE DEF n
    <3>3. /\ count' = n /\ curIdx' = 0
          /\ n <= PageSize => printed' = 0 .. n - 1 /\ scr' = "prompt"
          /\ ~(n <= PageSize) => printed' = 0 .. PageSize - 1 /\ seen' = 0 .. PageSize - 1
      BY <3>1 DEF splitPages
    <3>4. PagerInBounds'
      BY <3>2, <3>3
    <3>5. ASSUME scr' = "pager" PROVE PageSize \in 0 .. count' /\ seen' = 0 .. PageSize - 1
      BY <3>2, <3>3, <3>5
    <3>6. scr' = "pager" => curIdx' < count' /\ PageSize >= curIdx' + PageSize
      BY <3>2, <3>3, <3>5
    <3> QED BY <3>2, <3>3, <3>4, <3>5, <3>6
  <2> QED BY <2>1, <2>2
<1>4. CASE ~(TurnPage \/ HandleMessage) /\ Next
  <2>1. UNCHANGED pagerVars /\ (scr' = "pager" => scr = "pager")
    BY <1>4 DEF Next, ClientIO, ServerStep, Menu, SwitchMode, Quit, Send, LeavePages, Die,
       ClientWrites, ClientReads, HandleRead, ServerReads, Received, Answer, Refuse,
       ServerWrites, WriteToNobody, Sent
  <2> QED BY <2>1 DEF pagerVars
<1> QED BY <1>1, <1>2, <1>3, <1>4

LEMMA PagerAlways == Spec => []PagerInv
<1>1. Init => TypeInv /\ PagerInv
  BY TypeInit, TcpClientAssumption DEF Init, PagerInit, PagerInv, PagerInBounds
<1> QED BY <1>1, TypeStep, PagerStep, PTL DEF Spec

\* The pager shows only pages that there are, for every number of pages.
THEOREM PagerShowsPages == Spec => []PagerInBounds
<1>1. PagerInv => PagerInBounds
  BY DEF PagerInv
<1> QED BY <1>1, PagerAlways, PTL

\* '>' is refused only after every page has been shown, for every screen.
THEOREM PagerShowsAll == Spec => []EveryPageSeen
<1>1. PagerInv => EveryPageSeen
  BY PagerAssumption DEF PagerInv, EveryPageSeen, MoreToCome
<1> QED BY <1>1, PagerAlways, PTL

-----------------------------------------------------------------------------
(***************************************************************************)
(* The bounds of the buffers.                                               *)
(***************************************************************************)

SizeInv ==
  /\ \A d \in Directions : Len(wire[d]) <= Room /\ Len(got[d]) <= HeaderLen + MaxLen
  /\ srv \in {"wait", "receive", "work", "send", "closed", "refused", "dead"}
  /\ killed \in BOOLEAN /\ overlong \in BOOLEAN /\ reset \in BOOLEAN

\* A read asks for no more than the message's header says it has.
LEMMA ReadSizes == \A d \in Directions : TypeInv /\ SizeInv /\ readn(d) =>
  \A e \in Directions : Len(wire'[e]) <= Room /\ Len(got'[e]) <= HeaderLen + MaxLen
<1> SUFFICES ASSUME NEW d \in Directions, TypeInv, SizeInv, readn(d)
             PROVE  \A e \in Directions : Len(wire'[e]) <= Room /\ Len(got'[e]) <= HeaderLen + MaxLen
  OBVIOUS
<1>0. HeaderLen \in Nat \ {0} /\ Room \in Nat /\ MaxLen \in Nat
  BY SocketIOAssumption, TcpClientAssumption
<1>1. PICK k \in 1 .. Len(wire[d]) :
        /\ k <= Wanted(got[d])
        /\ got' = [got EXCEPT ![d] = @ \o SubSeq(wire[d], 1, k)]
        /\ wire' = [wire EXCEPT ![d] = SubSeq(@, k + 1, Len(@))]
  BY DEF readn
<1> DEFINE g == got[d]
           w == wire[d]
<1>2. g \in Seq(Bytes) /\ w \in Seq(Bytes) /\ Len(g) \in Nat /\ Len(w) \in Nat
  BY DEF TypeInv
<1>3. /\ SubSeq(w, 1, k) \in Seq(Bytes) /\ Len(SubSeq(w, 1, k)) = k
      /\ Len(SubSeq(w, k + 1, Len(w))) = Len(w) - k
  BY <1>2, SubSeqProperties
<1>4. Len(g \o SubSeq(w, 1, k)) = Len(g) + k
  BY <1>2, <1>3, ConcatProperties
<1>5. Len(g) + k <= HeaderLen + MaxLen
  <2>1. CASE Len(g) < HeaderLen
    BY <1>0, <1>1, <1>2, <2>1 DEF Wanted
  <2>2. CASE Len(g) >= HeaderLen
    <3>1. g[1] \in Bytes
      BY <1>0, <1>2, <2>2
    <3>2. g[1][1].len \in 0 .. MaxLen
      BY <3>1, MessageBounds DEF Bytes
    <3>3. LengthRead(g) \in 0 .. MaxLen
      BY <1>0, <3>2 DEF LengthRead
    <3> HIDE DEF g
    <3>4. k <= HeaderLen + LengthRead(g) - Len(g)
      BY <1>0, <1>1, <1>2, <2>2 DEF Wanted, g
    <3> QED BY <1>0, <1>2, <3>3, <3>4
  <2> QED BY <1>0, <1>2, <2>1, <2>2
<1>6. Len(got'[d]) <= HeaderLen + MaxLen
  BY <1>1, <1>4, <1>5 DEF TypeInv
<1>7. Len(w) <= Room
  BY DEF SizeInv
<1>8. Len(wire'[d]) <= Room
  BY <1>0, <1>1, <1>2, <1>3, <1>7 DEF TypeInv
<1>9. \A e \in Directions : e # d => wire'[e] = wire[e] /\ got'[e] = got[e]
  BY <1>1 DEF TypeInv
<1> QED BY <1>6, <1>8, <1>9 DEF SizeInv

\* A write puts no more on the connection than it has room for.
LEMMA WriteSizes == \A d \in Directions : TypeInv /\ SizeInv /\ writen(d) =>
  \A e \in Directions : Len(wire'[e]) <= Room /\ Len(got'[e]) <= HeaderLen + MaxLen
<1> SUFFICES ASSUME NEW d \in Directions, TypeInv, SizeInv, writen(d)
             PROVE  \A e \in Directions : Len(wire'[e]) <= Room /\ Len(got'[e]) <= HeaderLen + MaxLen
  OBVIOUS
<1>1. PICK k \in 1 .. Len(out[d]) :
        /\ Len(wire[d]) + k <= Room
        /\ wire' = [wire EXCEPT ![d] = @ \o SubSeq(out[d], 1, k)]
        /\ UNCHANGED got
  BY DEF writen
<1>2. out[d] \in Seq(Bytes) /\ wire[d] \in Seq(Bytes)
  BY DEF TypeInv
<1>3. SubSeq(out[d], 1, k) \in Seq(Bytes) /\ Len(SubSeq(out[d], 1, k)) = k
  BY <1>2, SubSeqProperties
<1>4. Len(wire[d] \o SubSeq(out[d], 1, k)) = Len(wire[d]) + k
  BY <1>2, <1>3, ConcatProperties
<1>5. wire'[d] = wire[d] \o SubSeq(out[d], 1, k) /\ \A e \in Directions : e # d => wire'[e] = wire[e]
  BY <1>1 DEF TypeInv
<1> QED BY <1>1, <1>4, <1>5 DEF SizeInv

LEMMA SizeStep == TypeInv /\ SizeInv /\ [Next]_vars => SizeInv'
<1> SUFFICES ASSUME TypeInv, SizeInv, [Next]_vars PROVE SizeInv'
  OBVIOUS
<1>0. Len(<<>>) = 0 /\ HeaderLen + MaxLen \in Nat /\ Room \in Nat /\ HeaderLen \in Nat
  BY SocketIOAssumption, TcpClientAssumption
<1>1. CASE Send
  <2>1. sent' \in Messages
    <3>1. sent.n \in Nat
      BY MessageBounds DEF TypeInv
    <3> QED BY <1>1, <3>1, MessageTypes DEF Send
  <2>2. Header(sent') \in Seq(Bytes) /\ Len(Header(sent')) = HeaderLen
    <3>1. Frame(sent') \in Seq(Bytes) /\ Len(Frame(sent')) = HeaderLen + sent'.len /\ sent'.len \in Nat
      <4>1. sent'.len \in Nat BY <2>1, MessageBounds
      <4>2. Frame(sent') \in Seq(Bytes) BY <2>1, FrameType
      <4>3. HeaderLen + sent'.len \in Nat BY <1>0, <4>1
      <4>4. Frame(sent') = [i \in 1 .. HeaderLen + sent'.len |-> <<sent', i>>] BY DEF Frame
      <4>5. DOMAIN Frame(sent') = 1 .. HeaderLen + sent'.len BY <4>4
      <4>6. Len(Frame(sent')) = HeaderLen + sent'.len
        BY <4>2, <4>3, <4>5, LenProperties
      <4> QED BY <4>1, <4>2, <4>6
    <3>2. Header(sent') = SubSeq(Frame(sent'), 1, HeaderLen)
      BY DEF Header
    <3> QED BY <1>0, <3>1, <3>2, SubSeqProperties
  <2>3. wire["up"] \in Seq(Bytes) /\ wire["up"] \in Seq(Bytes)
    BY DEF TypeInv, Directions
  <2>4. Len(wire["up"] \o Header(sent')) <= Room
    BY <1>1, <2>2, <2>3, ConcatProperties DEF Send
  <2>5. wire' = [wire EXCEPT !["up"] = @ \o Header(sent')] /\ UNCHANGED <<got, killed, reset, srv>>
        /\ overlong' \in BOOLEAN
    BY <1>1 DEF Send, SizeInv
  <2> QED BY <2>4, <2>5 DEF SizeInv, TypeInv
<1>2. CASE Die
  BY <1>2 DEF Die, SizeInv
<1>3. CASE ClientIO
  <2>1. CASE ClientWrites BY <2>1, WriteSizes DEF ClientWrites, SizeInv, Directions
  <2>2. CASE ClientReads BY <2>2, ReadSizes DEF ClientReads, SizeInv, Directions
  <2>3. CASE HandleMessage
    <3>1. got' = [got EXCEPT !["down"] = <<>>] /\ UNCHANGED <<wire, srv, overlong, reset>> /\ killed' \in BOOLEAN
      BY <2>3 DEF HandleMessage, SizeInv
    <3> QED BY <1>0, <3>1 DEF SizeInv, TypeInv
  <2> QED BY <1>3, <2>1, <2>2, <2>3 DEF ClientIO
<1>4. CASE ServerStep
  <2>1. CASE HandleRead \/ Refuse \/ Sent BY <2>1 DEF HandleRead, Refuse, Sent, ioVars, SizeInv
  <2>2. CASE ServerReads BY <2>2, ReadSizes DEF ServerReads, SizeInv, Directions
  <2>3. CASE Received
    <3>1. /\ got' = [got EXCEPT !["up"] = <<>>] /\ UNCHANGED <<wire, killed, overlong, reset>>
          /\ srv' \in {"work", "dead"}
      BY <2>3 DEF Received
    <3> QED BY <1>0, <3>1 DEF SizeInv, TypeInv
  <2>4. CASE Answer BY <2>4 DEF Answer, SizeInv
  <2>5. CASE ServerWrites BY <2>5, WriteSizes DEF ServerWrites, SizeInv, Directions
  <2>6. CASE WriteToNobody BY <2>6 DEF WriteToNobody, SizeInv
  <2> QED BY <1>4, <2>1, <2>2, <2>3, <2>4, <2>5, <2>6 DEF ServerStep
<1>5. CASE UNCHANGED vars BY <1>5 DEF vars, ioVars, SizeInv
<1>6. CASE Next /\ ~(Send \/ ClientIO \/ ServerStep \/ Die)
  BY <1>6 DEF Next, Menu, SwitchMode, Quit, TurnPage, LeavePages, ioVars, SizeInv
<1> QED BY <1>1, <1>2, <1>3, <1>4, <1>5, <1>6

\* No read or write, however cut, overfills the connection or the buffer of
\* receive, and the pager's numbers stay within the pages of an answer.
THEOREM TypesCorrect == Spec => []TypeOK
<1>1. Init => TypeInv /\ SizeInv
  <2>1. Len(<<>>) = 0 /\ HeaderLen + MaxLen \in Nat /\ Room \in Nat
    BY SocketIOAssumption, TcpClientAssumption
  <2>2. Init => SizeInv
    <3>1. ASSUME Init, NEW d \in Directions PROVE Len(wire[d]) = 0 /\ Len(got[d]) = 0
      BY <2>1, <3>1 DEF Init, IOInit
    <3>2. ASSUME Init PROVE srv = "wait" /\ killed = FALSE /\ overlong = FALSE /\ reset = FALSE
      BY <3>2 DEF Init
    <3>3. 0 <= Room /\ 0 <= HeaderLen + MaxLen
      BY <2>1
    <3> QED BY <3>1, <3>2, <3>3 DEF SizeInv
  <2> QED BY <2>2, TypeInit
<1>2. TypeInv /\ SizeInv /\ PagerInv => TypeOK
  <2>1. MaxPages \in Nat BY TcpClientAssumption
  <2> QED BY <2>1 DEF TypeInv, SizeInv, PagerInv, TypeOK
<1> QED BY <1>1, <1>2, TypeStep, SizeStep, PagerAlways, PTL DEF Spec

-----------------------------------------------------------------------------
(***************************************************************************)
(* The connection.                                                          *)
(***************************************************************************)

Nothing(d) == got[d] = <<>> /\ wire[d] = <<>> /\ out[d] = <<>>

\* What was read, is on its way and is still to be written make up m's frame.
Whole(d, m) ==
  /\ \A i \in 1 .. Len(got[d]) : got[d][i] = <<m, i>>
  /\ \A i \in 1 .. Len(wire[d]) : wire[d][i] = <<m, Len(got[d]) + i>>
  /\ \A i \in 1 .. Len(out[d]) : out[d][i] = <<m, Len(got[d]) + Len(wire[d]) + i>>
  /\ Len(got[d]) + Len(wire[d]) + Len(out[d]) = HeaderLen + m.len

\* No byte of an earlier message is left, and no more than m's frame has.
OnlyOf(d, m) ==
  /\ Len(got[d]) + Len(wire[d]) + Len(out[d]) <= HeaderLen + m.len
  /\ \A i \in 1 .. Len(got[d]) : got[d][i][1] = m
  /\ \A i \in 1 .. Len(wire[d]) : wire[d][i][1] = m
  /\ \A i \in 1 .. Len(out[d]) : out[d][i][1] = m

LEMMA ReadKeeps ==
  ASSUME TypeInv, NEW d \in Directions, readn(d), NEW m \in Messages
  PROVE  /\ Whole(d, m) => Whole(d, m)'
         /\ OnlyOf(d, m) => OnlyOf(d, m)'
         /\ \A e \in Directions \ {d} : got'[e] = got[e] /\ wire'[e] = wire[e]
         /\ out' = out /\ wire[d] # <<>>
<1>1. PICK k \in 1 .. Len(wire[d]) :
        /\ got' = [got EXCEPT ![d] = @ \o SubSeq(wire[d], 1, k)]
        /\ wire' = [wire EXCEPT ![d] = SubSeq(@, k + 1, Len(@))]
        /\ out' = out
  BY DEF readn
<1> DEFINE g == got[d]
           w == wire[d]
           x == SubSeq(w, 1, k)
           y == SubSeq(w, k + 1, Len(w))
<1>2. /\ g \in Seq(Bytes) /\ w \in Seq(Bytes) /\ Len(w) \in Nat /\ Len(g) \in Nat
      /\ k \in Nat /\ k <= Len(w)
  BY DEF TypeInv
<1>3. x \in Seq(Bytes) /\ Len(x) = k /\ \A i \in 1 .. k : x[i] = w[i]
  BY <1>2, SubSeqProperties
<1>4. y \in Seq(Bytes) /\ Len(y) = Len(w) - k /\ \A i \in 1 .. Len(w) - k : y[i] = w[k + i]
  BY <1>2, SubSeqProperties
<1>5. /\ g \o x \in Seq(Bytes) /\ Len(g \o x) = Len(g) + k
      /\ \A i \in 1 .. Len(g) + k : (g \o x)[i] = IF i <= Len(g) THEN g[i] ELSE x[i - Len(g)]
  BY <1>2, <1>3, ConcatProperties
<1>6. got'[d] = g \o x /\ wire'[d] = y
  BY <1>1 DEF TypeInv
<1>7. \A e \in Directions \ {d} : got'[e] = got[e] /\ wire'[e] = wire[e]
  BY <1>1 DEF TypeInv
<1>8. w # <<>>
  BY <1>2
<1>9. ASSUME Whole(d, m) PROVE Whole(d, m)'
  <2> HIDE DEF g, w, x, y
  <2>0. /\ \A i \in 1 .. Len(g) : g[i] = <<m, i>>
        /\ \A i \in 1 .. Len(w) : w[i] = <<m, Len(g) + i>>
    BY <1>9 DEF Whole, g, w
  <2>1. \A i \in 1 .. Len(got'[d]) : got'[d][i] = <<m, i>>
    <3>1. ASSUME NEW i \in 1 .. Len(g) + k PROVE (g \o x)[i] = <<m, i>>
      <4>1. CASE i <= Len(g) BY <1>2, <1>5, <2>0, <4>1
      <4>2. CASE i > Len(g)
        <5>1. /\ i - Len(g) \in 1 .. k /\ i - Len(g) \in 1 .. Len(w)
              /\ Len(g) + (i - Len(g)) = i
          <6>1. i \in Nat /\ i <= Len(g) + k
            BY <1>2
          <6> QED BY <1>2, <4>2, <6>1
        <5>2. (g \o x)[i] = x[i - Len(g)]
          BY <1>2, <1>5, <4>2
        <5>3. x[i - Len(g)] = w[i - Len(g)]
          BY <1>3, <5>1
        <5>4. w[i - Len(g)] = <<m, i>>
          BY <2>0, <5>1
        <5> QED BY <5>2, <5>3, <5>4
      <4>3. i <= Len(g) \/ i > Len(g)
        BY <1>2
      <4> QED BY <4>1, <4>2, <4>3
    <3> QED BY <1>5, <1>6, <3>1
  <2>2. \A i \in 1 .. Len(wire'[d]) : wire'[d][i] = <<m, Len(got'[d]) + i>>
    <3>1. ASSUME NEW i \in 1 .. Len(w) - k PROVE y[i] = <<m, Len(g) + k + i>>
      <4>1. k + i \in 1 .. Len(w) /\ Len(g) + (k + i) = Len(g) + k + i
        BY <1>2
      <4> QED BY <1>4, <2>0, <4>1
    <3> QED BY <1>4, <1>5, <1>6, <3>1
  <2>3. Len(got'[d]) + Len(wire'[d]) = Len(g) + Len(w)
    <3>1. Len(g) + k + (Len(w) - k) = Len(g) + Len(w)
      BY <1>2
    <3>2. Len(got'[d]) = Len(g) + k /\ Len(wire'[d]) = Len(w) - k
      BY <1>4, <1>5, <1>6
    <3> QED BY <3>1, <3>2
  <2> QED BY <1>1, <1>9, <2>1, <2>2, <2>3 DEF Whole, g, w
<1>10. ASSUME OnlyOf(d, m) PROVE OnlyOf(d, m)'
  <2>1. \A i \in 1 .. Len(got'[d]) : got'[d][i][1] = m
    BY <1>2, <1>3, <1>5, <1>6, <1>10 DEF OnlyOf
  <2>2. \A i \in 1 .. Len(wire'[d]) : wire'[d][i][1] = m
    BY <1>2, <1>4, <1>6, <1>10 DEF OnlyOf
  <2>3. Len(got'[d]) + Len(wire'[d]) = Len(g) + Len(w)
    <3> HIDE DEF g, w, x, y
    <3>1. Len(g) + k + (Len(w) - k) = Len(g) + Len(w)
      BY <1>2
    <3> QED BY <1>4, <1>5, <1>6, <3>1
  <2> QED BY <1>1, <1>10, <2>1, <2>2, <2>3 DEF OnlyOf
<1> QED BY <1>1, <1>7, <1>8, <1>9, <1>10

LEMMA WriteKeeps ==
  ASSUME TypeInv, NEW d \in Directions, writen(d), NEW m \in Messages
  PROVE  /\ Whole(d, m) => Whole(d, m)'
         /\ OnlyOf(d, m) => OnlyOf(d, m)'
         /\ \A e \in Directions \ {d} : out'[e] = out[e] /\ wire'[e] = wire[e]
         /\ got' = got /\ out[d] # <<>>
<1>1. PICK k \in 1 .. Len(out[d]) :
        /\ wire' = [wire EXCEPT ![d] = @ \o SubSeq(out[d], 1, k)]
        /\ out' = [out EXCEPT ![d] = SubSeq(@, k + 1, Len(@))]
        /\ got' = got
  BY DEF writen
<1> DEFINE g == wire[d]
           w == out[d]
           x == SubSeq(w, 1, k)
           y == SubSeq(w, k + 1, Len(w))
<1>2. /\ g \in Seq(Bytes) /\ w \in Seq(Bytes) /\ Len(w) \in Nat /\ Len(g) \in Nat
      /\ Len(got[d]) \in Nat /\ k \in Nat /\ k <= Len(w)
  BY DEF TypeInv
<1>3. x \in Seq(Bytes) /\ Len(x) = k /\ \A i \in 1 .. k : x[i] = w[i]
  BY <1>2, SubSeqProperties
<1>4. y \in Seq(Bytes) /\ Len(y) = Len(w) - k /\ \A i \in 1 .. Len(w) - k : y[i] = w[k + i]
  BY <1>2, SubSeqProperties
<1>5. /\ g \o x \in Seq(Bytes) /\ Len(g \o x) = Len(g) + k
      /\ \A i \in 1 .. Len(g) + k : (g \o x)[i] = IF i <= Len(g) THEN g[i] ELSE x[i - Len(g)]
  BY <1>2, <1>3, ConcatProperties
<1>6. wire'[d] = g \o x /\ out'[d] = y
  BY <1>1 DEF TypeInv
<1>7. \A e \in Directions \ {d} : out'[e] = out[e] /\ wire'[e] = wire[e]
  BY <1>1 DEF TypeInv
<1>8. w # <<>>
  BY <1>2
<1>9. ASSUME Whole(d, m) PROVE Whole(d, m)'
  <2> DEFINE n == Len(got[d])
  <2>n. n \in Nat
    BY <1>2
  <2> HIDE DEF g, w, x, y, n
  <2>0. /\ \A i \in 1 .. Len(g) : g[i] = <<m, n + i>>
        /\ \A i \in 1 .. Len(w) : w[i] = <<m, n + Len(g) + i>>
        /\ n + Len(g) + Len(w) = HeaderLen + m.len
    BY <1>9 DEF Whole, g, w, n
  <2>1. \A i \in 1 .. Len(wire'[d]) : wire'[d][i] = <<m, n + i>>
    <3>1. ASSUME NEW i \in 1 .. Len(g) + k PROVE (g \o x)[i] = <<m, n + i>>
      <4>1. CASE i <= Len(g) BY <1>2, <1>5, <2>0, <4>1
      <4>2. CASE i > Len(g)
        <5>1. /\ i - Len(g) \in 1 .. k /\ i - Len(g) \in 1 .. Len(w)
              /\ n + Len(g) + (i - Len(g)) = n + i
          BY <1>2, <2>n, <4>2
        <5>2. (g \o x)[i] = x[i - Len(g)]
          BY <1>2, <1>5, <4>2
        <5>3. x[i - Len(g)] = w[i - Len(g)]
          BY <1>3, <5>1
        <5>4. w[i - Len(g)] = <<m, n + i>>
          BY <2>0, <5>1
        <5> QED BY <5>2, <5>3, <5>4
      <4>3. i <= Len(g) \/ i > Len(g)
        BY <1>2
      <4> QED BY <4>1, <4>2, <4>3
    <3> QED BY <1>5, <1>6, <3>1
  <2>2. \A i \in 1 .. Len(out'[d]) : out'[d][i] = <<m, n + Len(wire'[d]) + i>>
    <3>1. ASSUME NEW i \in 1 .. Len(w) - k PROVE y[i] = <<m, n + (Len(g) + k) + i>>
      <4>1. k + i \in 1 .. Len(w) /\ n + Len(g) + (k + i) = n + (Len(g) + k) + i
        BY <1>2, <2>n
      <4> QED BY <1>4, <2>0, <4>1
    <3> QED BY <1>4, <1>5, <1>6, <3>1
  <2>4. n + Len(wire'[d]) + Len(out'[d]) = HeaderLen + m.len
    <3>1. n + (Len(g) + k) + (Len(w) - k) = n + Len(g) + Len(w)
      BY <1>2, <2>n
    <3> QED BY <1>4, <1>5, <1>6, <2>0, <3>1
  <2> QED BY <1>1, <1>9, <2>1, <2>2, <2>4 DEF Whole, n
<1>10. ASSUME OnlyOf(d, m) PROVE OnlyOf(d, m)'
  <2>0. /\ \A i \in 1 .. Len(g) : g[i][1] = m
        /\ \A i \in 1 .. Len(w) : w[i][1] = m
    BY <1>10 DEF OnlyOf
  <2> HIDE DEF g, w, x, y
  <2>1. \A i \in 1 .. Len(wire'[d]) : wire'[d][i][1] = m
    <3>1. ASSUME NEW i \in 1 .. Len(g) + k PROVE (g \o x)[i][1] = m
      <4>1. CASE i <= Len(g) BY <1>2, <1>5, <2>0, <4>1
      <4>2. CASE i > Len(g)
        <5>1. i - Len(g) \in 1 .. k /\ i - Len(g) \in 1 .. Len(w)
          BY <1>2, <4>2
        <5>2. (g \o x)[i] = w[i - Len(g)]
          BY <1>2, <1>3, <1>5, <4>2, <5>1
        <5> QED BY <2>0, <5>1, <5>2
      <4>3. i <= Len(g) \/ i > Len(g)
        BY <1>2
      <4> QED BY <4>1, <4>2, <4>3
    <3> QED BY <1>5, <1>6, <3>1
  <2>2. \A i \in 1 .. Len(out'[d]) : out'[d][i][1] = m
    <3>1. ASSUME NEW i \in 1 .. Len(w) - k PROVE y[i][1] = m
      <4>1. k + i \in 1 .. Len(w)
        BY <1>2
      <4> QED BY <1>4, <2>0, <4>1
    <3> QED BY <1>4, <1>6, <3>1
  <2>3. Len(got[d]) + Len(wire'[d]) + Len(out'[d]) = Len(got[d]) + Len(g) + Len(w)
    <3>1. \A a \in Nat : a + (Len(g) + k) + (Len(w) - k) = a + Len(g) + Len(w)
      BY <1>2
    <3> QED BY <1>2, <1>4, <1>5, <1>6, <3>1
  <2>4. Len(got[d]) + Len(g) + Len(w) <= HeaderLen + m.len
    BY <1>10 DEF OnlyOf, g, w
  <2> QED BY <1>1, <1>10, <2>1, <2>2, <2>3, <2>4 DEF OnlyOf
<1> QED BY <1>1, <1>7, <1>8, <1>9, <1>10

LEMMA CompleteWhole ==
  ASSUME TypeInv, NEW d \in Directions, NEW m \in Messages, Whole(d, m), Complete(got[d])
  PROVE  /\ Parses(got[d]) /\ got[d][1][1] = m
         /\ wire[d] = <<>> /\ out[d] = <<>>
<1> DEFINE g == got[d]
<1>1. /\ HeaderLen \in Nat \ {0} /\ m.len \in Nat
      /\ g \in Seq(Bytes) /\ wire[d] \in Seq(Bytes) /\ out[d] \in Seq(Bytes)
  BY SocketIOAssumption, MessageBounds DEF TypeInv
<1>2. Len(g) >= HeaderLen /\ g[1] = <<m, 1>> /\ g[1][1] = m /\ g # <<>>
  BY <1>1 DEF Whole, Complete
<1>3. Frame(m) \in Seq(Bytes) /\ Len(Frame(m)) = HeaderLen + m.len
  BY <1>1, FrameType DEF Frame
<1>4. \A i \in 1 .. HeaderLen + m.len : Frame(m)[i] = <<m, i>>
  BY DEF Frame
<1>5. SubSeq(g, 1, HeaderLen) = Header(m)
  <2>1. /\ SubSeq(g, 1, HeaderLen) \in Seq(Bytes) /\ Len(SubSeq(g, 1, HeaderLen)) = HeaderLen
        /\ \A i \in 1 .. HeaderLen : SubSeq(g, 1, HeaderLen)[i] = g[i]
    BY <1>1, <1>2, SubSeqProperties
  <2>2. /\ Header(m) \in Seq(Bytes) /\ Len(Header(m)) = HeaderLen
        /\ \A i \in 1 .. HeaderLen : Header(m)[i] = Frame(m)[i]
    BY <1>1, <1>3, SubSeqProperties DEF Header
  <2>3. ASSUME NEW i \in 1 .. HeaderLen PROVE g[i] = Frame(m)[i]
    <3>1. i \in 1 .. Len(g) /\ i \in 1 .. HeaderLen + m.len
      BY <1>1, <1>2
    <3> QED BY <1>4, <3>1 DEF Whole
  <2>4. /\ Len(SubSeq(g, 1, HeaderLen)) = Len(Header(m))
        /\ \A i \in 1 .. Len(SubSeq(g, 1, HeaderLen)) : SubSeq(g, 1, HeaderLen)[i] = Header(m)[i]
    BY <2>1, <2>2, <2>3
  <2>5. SubSeq(g, 1, HeaderLen) \in Seq(Bytes) /\ Header(m) \in Seq(Bytes)
    BY <2>1, <2>2
  <2> HIDE DEF g
  <2> QED BY <2>4, <2>5, SeqEqual
<1>6. Len(g) = HeaderLen + m.len
  <2>1. HeaderLen + LengthRead(g) - Len(g) = 0
    BY <1>1, <1>2 DEF Complete, Wanted
  <2>2. LengthRead(g) = m.len
    <3>1. SubSeq(g, 1, HeaderLen) = Header(g[1][1])
      BY <1>2, <1>5
    <3>2. LengthRead(g) = g[1][1].len
      BY <3>1 DEF LengthRead
    <3> QED BY <1>2, <3>2
  <2>3. Len(g) \in Nat
    BY <1>1
  <2>4. HeaderLen + m.len - Len(g) = 0
    BY <2>1, <2>2
  <2> HIDE DEF g
  <2> QED BY <1>1, <2>3, <2>4
<1>7. g = Frame(m)
  <2>1. \A i \in 1 .. Len(g) : g[i] = Frame(m)[i]
    BY <1>4, <1>6 DEF Whole
  <2> QED BY <1>1, <1>3, <1>6, <2>1, SeqEqual
<1>8. Len(wire[d]) = 0 /\ Len(out[d]) = 0
  BY <1>1, <1>6 DEF Whole
<1> QED BY <1>1, <1>2, <1>7, <1>8, EmptySeq DEF Parses

-----------------------------------------------------------------------------
(***************************************************************************)
(* Requests and answers.                                                    *)
(***************************************************************************)

\* The client waits for its user, or it left by '0'.
Resting == scr \in {"menu", "prompt", "pager"} \/ (scr = "gone" /\ ~killed)

Asking == srv \in {"wait", "receive", "send"} /\ Whole("up", sent) /\ Nothing("down")
Working == srv = "work" /\ Nothing("up") /\ Nothing("down")
Refused == srv = "refused" /\ Nothing("up") /\ Nothing("down")
Answering ==
  /\ srv \in {"wait", "send"}
  /\ Nothing("up")
  /\ \E a \in AnswersTo(sent) : Whole("down", a)

\* A client that waits for its answer is in one of four phases; while it
\* waits for its user nothing is on the connection.
ConvInv ==
  /\ ~overlong /\ Fits(sent)
  /\ srv = "work" => task = sent
  /\ OnlyOf("up", sent)
  /\ scr # "gone" => ~killed /\ ~reset /\ srv \notin {"closed", "dead"}
  /\ Resting => Nothing("up") /\ Nothing("down") /\ ~reset /\ srv \in {"wait", "send", "closed"}
  /\ AnswerIsMine
  /\ scr = "menu" => sent = NoMessage /\ shown = NoMessage
  /\ scr = "await" => sent.id \in {"1", "2"} /\ (Asking \/ Working \/ Answering \/ Refused)

\* Bytes that were taken away leave only bytes of m.
LEMMA OnlyLess ==
  ASSUME TypeInv, TypeInv', NEW m \in Messages, OnlyOf("up", m), UNCHANGED wire,
         got'["up"] \in {<<>>, got["up"]}, out'["up"] \in {<<>>, out["up"]}
  PROVE  /\ \A i \in 1 .. Len(got'["up"]) : got'["up"][i][1] = m
         /\ \A i \in 1 .. Len(wire'["up"]) : wire'["up"][i][1] = m
         /\ \A i \in 1 .. Len(out'["up"]) : out'["up"][i][1] = m
         /\ Len(got'["up"]) + Len(wire'["up"]) + Len(out'["up"]) <= HeaderLen + m.len
<1>1. /\ \A i \in 1 .. Len(got["up"]) : got["up"][i][1] = m
      /\ \A i \in 1 .. Len(wire["up"]) : wire["up"][i][1] = m
      /\ \A i \in 1 .. Len(out["up"]) : out["up"][i][1] = m
      /\ Len(got["up"]) + Len(wire["up"]) + Len(out["up"]) <= HeaderLen + m.len
  BY DEF OnlyOf
<1>2. /\ Len(got["up"]) \in Nat /\ Len(wire["up"]) \in Nat /\ Len(out["up"]) \in Nat
      /\ HeaderLen \in Nat
  BY SocketIOAssumption DEF TypeInv, Directions
<1>3. m.len \in Nat
  BY MessageBounds
<1>4. /\ Len(got'["up"]) \in {0, Len(got["up"])} /\ Len(out'["up"]) \in {0, Len(out["up"])}
      /\ wire'["up"] = wire["up"]
  OBVIOUS
<1>5. \A a \in {0, Len(got["up"])}, b \in {0, Len(out["up"])} :
        a + Len(wire["up"]) + b <= HeaderLen + m.len
  <2>1. \A x, y, z, h, n \in Nat : x + y + z <= h + n =>
          \A a \in {0, x}, b \in {0, z} : a + y + b <= h + n
    OBVIOUS
  <2> QED BY <1>1, <1>2, <1>3, <2>1
<1>6. \A i \in 1 .. Len(got'["up"]) : got'["up"][i][1] = m
  <2>1. CASE got'["up"] = <<>> BY <2>1
  <2>2. CASE got'["up"] = got["up"] BY <1>1, <2>2
  <2> QED BY <2>1, <2>2
<1>7. \A i \in 1 .. Len(out'["up"]) : out'["up"][i][1] = m
  <2>1. CASE out'["up"] = <<>> BY <2>1
  <2>2. CASE out'["up"] = out["up"] BY <1>1, <2>2
  <2> QED BY <2>1, <2>2
<1> QED BY <1>1, <1>4, <1>5, <1>6, <1>7

LEMMA SameIO ==
  ASSUME UNCHANGED <<got, wire, out, sent>>
  PROVE  /\ Nothing("up") <=> Nothing("up")'
         /\ Nothing("down") <=> Nothing("down")'
         /\ Whole("up", sent) <=> Whole("up", sent)'
         /\ OnlyOf("up", sent) <=> OnlyOf("up", sent)'
         /\ \A a : Whole("down", a) <=> Whole("down", a)'
         /\ AnswersTo(sent) = AnswersTo(sent)'
BY DEF Nothing, Whole, OnlyOf, AnswersTo

LEMMA NothingOnly == \A m \in Messages : Nothing("up") => OnlyOf("up", m)
<1> SUFFICES ASSUME NEW m \in Messages, Nothing("up") PROVE OnlyOf("up", m)
  OBVIOUS
<1>1. HeaderLen \in Nat /\ m.len \in Nat
  BY SocketIOAssumption, MessageBounds
<1>2. Len(got["up"]) = 0 /\ Len(wire["up"]) = 0 /\ Len(out["up"]) = 0
  BY DEF Nothing
<1>3. 0 + 0 + 0 <= HeaderLen + m.len
  BY <1>1
<1> QED BY <1>2, <1>3 DEF OnlyOf

\* What receive has read of a request that fits stays inside its array.
LEMMA InsideArray ==
  ASSUME NEW m \in Messages, Fits(m), NEW g \in Seq(Bytes), NEW w \in Seq(Bytes),
         NEW o \in Seq(Bytes), Len(g) + Len(w) + Len(o) <= HeaderLen + m.len
  PROVE  ~Overrun(g) /\ ~(Len(g) > HeaderLen + BufferLen)
<1>1. /\ HeaderLen \in Nat /\ BufferLen \in Nat /\ m.len \in Nat /\ m.len < BufferLen
      /\ Len(g) \in Nat /\ Len(w) \in Nat /\ Len(o) \in Nat
  <2>1. m.len \in Nat
    BY MessageBounds
  <2>2. HeaderLen \in Nat /\ BufferLen \in Nat /\ m.len < BufferLen
    BY SocketIOAssumption, TcpClientAssumption DEF Fits
  <2> QED BY <2>1, <2>2
<1>2. Len(g) <= HeaderLen + m.len
  BY <1>1
<1> QED BY <1>1, <1>2 DEF Overrun

\* The steps of the client that do not touch the connection.
LEMMA ConvClient ==
  TypeInv /\ ConvInv /\ Next /\ ~(Send \/ Die \/ ClientIO \/ ServerStep) => ConvInv'
<1> SUFFICES ASSUME TypeInv, ConvInv, Next, ~(Send \/ Die \/ ClientIO \/ ServerStep)
             PROVE  ConvInv'
  OBVIOUS
<1>1. /\ UNCHANGED <<got, wire, out, sent, shown, killed, overlong, reset, srv, task>>
      /\ scr \in {"menu", "prompt", "pager"} /\ scr' \in {"menu", "prompt", "pager", "gone"}
      /\ scr' = "menu" => scr = "menu"
  BY DEF Next, Menu, SwitchMode, Quit, TurnPage, LeavePages, ioVars
<1>2. Resting /\ (scr' # "menu" => AnswerIsMine)
  BY <1>1 DEF Resting, ConvInv
<1>3. AnswerIsMine'
  <2>1. /\ shown.n = sent.n
        /\ sent.id = "1" => shown.id = "100"
        /\ sent.id = "2" => shown.id = "200"
    <3>1. CASE scr = "menu"
      <4>1. sent = NoMessage /\ shown = NoMessage
        BY <3>1 DEF ConvInv
      <4>2. NoMessage.n = 0 /\ NoMessage.id = ""
        BY DEF NoMessage
      <4>3. shown.n = sent.n /\ sent.id = ""
        BY <4>1, <4>2
      <4> QED BY <4>3
    <3>2. CASE scr # "menu"
      BY <1>1, <3>2 DEF ConvInv, AnswerIsMine
    <3> QED BY <3>1, <3>2
  <2> QED BY <1>1, <2>1 DEF AnswerIsMine
<1> QED BY <1>1, <1>2, <1>3, SameIO DEF ConvInv, Resting

LEMMA ConvSend == TypeInv /\ ConvInv /\ Send /\ ~overlong' => ConvInv'
<1> SUFFICES ASSUME TypeInv, ConvInv, Send, ~overlong' PROVE ConvInv'
  OBVIOUS
<1>1. /\ scr = "prompt" /\ scr' = "await"
      /\ sent' \in Requests(sent.n + 1)
      /\ wire' = [wire EXCEPT !["up"] = @ \o Header(sent')]
      /\ out' = [out EXCEPT !["up"] = Body(sent')]
      /\ UNCHANGED <<got, messageId, shown, killed, reset, srv, task>>
      /\ Fits(sent')
  BY DEF Send
<1>2. Nothing("up") /\ Nothing("down") /\ ~killed /\ ~reset /\ srv \in {"wait", "send"}
  BY <1>1 DEF ConvInv, Resting
<1>3. sent' \in Messages /\ sent'.id \in {"1", "2"}
  <2>1. sent.n + 1 \in Nat
    <3>1. sent \in Messages
      BY DEF TypeInv
    <3>2. sent.n \in Nat
      BY <3>1 DEF Messages
    <3> QED BY <3>2
  <2>2. sent'.id = messageId
    BY <1>1 DEF Requests
  <2> QED BY <1>1, <2>1, <2>2, MessageTypes DEF TypeInv
<1>m. PICK m \in Messages : m = sent'
  BY <1>3
<1>4. HeaderLen \in Nat \ {0} /\ m.len \in Nat
  BY SocketIOAssumption, MessageBounds
<1>5. /\ Frame(m) \in Seq(Bytes) /\ Len(Frame(m)) = HeaderLen + m.len
      /\ \A i \in 1 .. HeaderLen + m.len : Frame(m)[i] = <<m, i>>
  BY <1>4, FrameType DEF Frame
<1>6. /\ Header(m) \in Seq(Bytes) /\ Len(Header(m)) = HeaderLen
      /\ \A i \in 1 .. HeaderLen : Header(m)[i] = <<m, i>>
  <2>1. \A i \in 1 .. HeaderLen : Frame(m)[i] \in Bytes /\ i \in 1 .. HeaderLen + m.len
    BY <1>4, <1>5
  <2> QED BY <1>4, <1>5, <2>1, SubSeqProperties DEF Header
<1>7. /\ Body(m) \in Seq(Bytes) /\ Len(Body(m)) = m.len
      /\ \A i \in 1 .. m.len : Body(m)[i] = <<m, HeaderLen + i>>
  <2>1. \A i \in HeaderLen + 1 .. HeaderLen + m.len :
          Frame(m)[i] \in Bytes /\ i \in 1 .. HeaderLen + m.len
    BY <1>4, <1>5
  <2>2. /\ Body(m) \in Seq(Bytes) /\ Len(Body(m)) = m.len
        /\ \A i \in 1 .. m.len : Body(m)[i] = Frame(m)[HeaderLen + 1 + i - 1]
    BY <1>4, <1>5, <2>1, SubSeqProperties DEF Body
  <2>3. \A i \in 1 .. m.len : /\ HeaderLen + 1 + i - 1 = HeaderLen + i
                              /\ HeaderLen + i \in 1 .. HeaderLen + m.len
    BY <1>4
  <2> QED BY <1>5, <2>2, <2>3
<1>8. wire'["up"] = Header(m) /\ out'["up"] = Body(m) /\ got'["up"] = <<>>
  <2>1. <<>> \o Header(m) = Header(m)
    BY <1>6, ConcatEmptySeq
  <2> QED BY <1>1, <1>2, <1>m, <2>1 DEF Nothing, TypeInv, Directions
<1>9. Whole("up", m)'
  <2>1. Len(got'["up"]) = 0 /\ Len(wire'["up"]) = HeaderLen /\ Len(out'["up"]) = m.len
    BY <1>6, <1>7, <1>8, EmptySeq
  <2>2. \A i \in 1 .. HeaderLen : wire'["up"][i] = <<m, 0 + i>>
    BY <1>4, <1>6, <1>8
  <2>3. \A i \in 1 .. m.len : out'["up"][i] = <<m, 0 + HeaderLen + i>>
    BY <1>4, <1>7, <1>8
  <2> QED BY <1>4, <2>1, <2>2, <2>3 DEF Whole
<1>10. OnlyOf("up", m)'
  <2>1. Len(got'["up"]) + Len(wire'["up"]) + Len(out'["up"]) <= HeaderLen + m.len
    BY <1>4, <1>6, <1>7, <1>8, EmptySeq
  <2> QED BY <1>6, <1>7, <1>8, <2>1, EmptySeq DEF OnlyOf
<1>11. Nothing("down")'
  BY <1>1, <1>2 DEF Nothing, TypeInv, Directions
<1>12. ~Resting' /\ Asking' /\ srv' # "work" /\ OnlyOf("up", sent)'
  BY <1>1, <1>2, <1>m, <1>9, <1>10, <1>11 DEF Resting, Asking, Whole, OnlyOf
<1>13. Fits(sent)'
  BY <1>1 DEF Fits
<1> QED BY <1>1, <1>2, <1>3, <1>12, <1>13 DEF ConvInv, AnswerIsMine

LEMMA ConvDie == TypeInv /\ ConvInv /\ Die => ConvInv'
<1> SUFFICES ASSUME TypeInv, ConvInv, Die PROVE ConvInv'
  OBVIOUS
<1>1. /\ scr' = "gone" /\ killed' = TRUE
      /\ out' = [out EXCEPT !["up"] = <<>>]
      /\ UNCHANGED <<wire, got, sent, shown, overlong, srv, task>>
  BY DEF Die
<1>2. OnlyOf("up", sent)'
  <2>1. out'["up"] = <<>>
    BY <1>1 DEF TypeInv, Directions
  <2>2. TypeInv' /\ sent \in Messages /\ OnlyOf("up", sent)
    BY TypeStep DEF Next, TypeInv, ConvInv
  <2> QED BY <1>1, <2>1, <2>2, OnlyLess DEF OnlyOf
<1>3. Fits(sent)'
  BY <1>1 DEF ConvInv, Fits
<1> QED BY <1>1, <1>2, <1>3 DEF ConvInv, Resting, AnswerIsMine

LEMMA ConvClientIO == TypeInv /\ ConvInv /\ ClientIO => ConvInv'
<1> SUFFICES ASSUME TypeInv, ConvInv, ClientIO PROVE ConvInv'
  OBVIOUS
<1>0. scr = "await" /\ sent \in Messages
  BY DEF ClientIO, ClientWrites, ClientReads, HandleMessage, TypeInv
<1>1. CASE ClientWrites
  <2>1. /\ writen("up") /\ UNCHANGED <<scr, messageId, sent, shown, killed, overlong, reset, srv, task>>
    BY <1>1 DEF ClientWrites
  <2>2. /\ Whole("up", sent) => Whole("up", sent)'
        /\ OnlyOf("up", sent) => OnlyOf("up", sent)'
        /\ out'["down"] = out["down"] /\ wire'["down"] = wire["down"]
        /\ got' = got /\ out["up"] # <<>>
    BY <1>0, <2>1, WriteKeeps, ZenonT(60) DEF Directions, Whole, OnlyOf
  <2>3. Asking'
    BY <1>0, <2>1, <2>2 DEF ConvInv, Asking, Working, Answering, Refused, Nothing
  <2> QED BY <1>0, <2>1, <2>2, <2>3 DEF ConvInv, Resting, AnswerIsMine, Asking
<1>2. CASE ClientReads
  <2>1. /\ readn("down") /\ UNCHANGED <<scr, messageId, sent, shown, killed, overlong, reset, srv, task>>
    BY <1>2 DEF ClientReads
  <2>2. /\ \A a \in Messages : Whole("down", a) => Whole("down", a)'
        /\ got'["up"] = got["up"] /\ wire'["up"] = wire["up"]
        /\ out' = out /\ wire["down"] # <<>>
    BY <1>0, <2>1, ReadKeeps DEF Directions
  <2>3. Answering
    BY <1>0, <2>2 DEF ConvInv, Asking, Working, Refused, Nothing
  <2>4. PICK a \in AnswersTo(sent) : Whole("down", a)
    BY <2>3 DEF Answering
  <2>5. Whole("down", a)' /\ a \in AnswersTo(sent)'
    BY <1>0, <2>1, <2>2, <2>4, MessageTypes DEF AnswersTo
  <2>6. Nothing("up")' /\ OnlyOf("up", sent)'
    BY <2>1, <2>2, <2>3 DEF ConvInv, Answering, Nothing, OnlyOf
  <2>7. Answering'
    BY <2>1, <2>3, <2>5, <2>6 DEF Answering
  <2> QED BY <1>0, <2>1, <2>6, <2>7 DEF ConvInv, Resting, AnswerIsMine
<1>3. CASE HandleMessage
  <2>1. /\ Complete(got["down"]) /\ got' = [got EXCEPT !["down"] = <<>>]
        /\ UNCHANGED <<out, wire, messageId, sent, overlong, reset, srv, task>>
    BY <1>3 DEF HandleMessage
  <2>2. Answering
    <3>1. got["down"] # <<>>
      BY <2>1, SocketIOAssumption, EmptySeq DEF Complete
    <3> QED BY <1>0, <3>1 DEF ConvInv, Asking, Working, Refused, Nothing
  <2>3. PICK a \in AnswersTo(sent) : Whole("down", a)
    BY <2>2 DEF Answering
  <2>4. /\ Parses(got["down"]) /\ got["down"][1][1] = a
        /\ wire["down"] = <<>> /\ out["down"] = <<>>
    BY <1>0, <2>1, <2>3, MessageTypes, CompleteWhole DEF Directions
  <2>5. shown' = a /\ UNCHANGED killed /\ scr' \in {"prompt", "pager"}
    BY <1>3, <2>4 DEF HandleMessage
  <2>6. Nothing("up")' /\ Nothing("down")' /\ OnlyOf("up", sent)'
    BY <2>1, <2>2, <2>4 DEF ConvInv, Answering, Nothing, OnlyOf, TypeInv, Directions
  <2>7. AnswerIsMine'
    <3>1. sent.id \in {"1", "2"}
      BY <1>0 DEF ConvInv
    <3>2. a.n = sent.n /\ a.id = IF sent.id = "1" THEN "100" ELSE "200"
      BY <2>3 DEF AnswersTo
    <3> QED BY <2>1, <2>5, <3>1, <3>2 DEF AnswerIsMine
  <2>8. ~killed /\ ~reset /\ srv \in {"wait", "send"}
    BY <1>0, <2>2 DEF ConvInv, Answering
  <2> QED BY <2>1, <2>5, <2>6, <2>7, <2>8 DEF ConvInv, Resting, Fits
<1> QED BY <1>1, <1>2, <1>3 DEF ClientIO

LEMMA ConvServer == TypeInv /\ ConvInv /\ ServerStep => ConvInv'
<1> SUFFICES ASSUME TypeInv, ConvInv, ServerStep PROVE ConvInv'
  OBVIOUS
<1>0. sent \in Messages /\ UNCHANGED <<scr, messageId, sent, shown, killed, overlong>>
  BY DEF ServerStep, HandleRead, ServerReads, Received, Answer, Refuse, ServerWrites,
     WriteToNobody, Sent, TypeInv
<1>1. AnswerIsMine' /\ (Resting <=> Resting')
  BY <1>0 DEF ConvInv, AnswerIsMine, Resting
<1>2. CASE HandleRead
  <2>1. /\ srv = "wait" /\ srv' \in {"closed", "receive"}
        /\ UNCHANGED <<got, wire, out, reset, task>>
        /\ wire["up"] # <<>> \/ scr = "gone"
        /\ wire["up"] # <<>> => srv' = "receive"
        /\ wire["up"] = <<>> /\ ~reset => srv' = "closed"
    BY <1>2 DEF HandleRead, ioVars
  <2>2. scr # "gone" => srv' = "receive"
    BY <2>1
  <2>3. Resting => srv' = "closed"
    BY <2>1 DEF ConvInv, Nothing
  <2>4. scr = "await" => Asking'
    BY <1>0, <2>1, SameIO DEF ConvInv, Asking, Working, Answering, Refused, Nothing
  <2> QED BY <1>0, <1>1, <2>1, <2>2, <2>3, <2>4, SameIO DEF ConvInv
<1>3. CASE ServerReads
  <2>1. srv = "receive" /\ readn("up") /\ UNCHANGED <<reset, task>> /\ srv' \in {srv, "dead"}
    BY <1>3 DEF ServerReads
  <2>2. /\ Whole("up", sent) => Whole("up", sent)'
        /\ OnlyOf("up", sent) => OnlyOf("up", sent)'
        /\ got'["down"] = got["down"] /\ wire'["down"] = wire["down"]
        /\ out' = out
    BY <1>0, <2>1, ReadKeeps, ZenonT(60) DEF Directions, Whole, OnlyOf
  <2>5. OnlyOf("up", sent)'
    BY <2>2 DEF ConvInv
  <2>6. UNCHANGED srv
    <3>1. /\ got'["up"] \in Seq(Bytes) /\ wire'["up"] \in Seq(Bytes) /\ out'["up"] \in Seq(Bytes)
      BY <2>1, <2>2, ReadTypes DEF Directions, TypeInv
    <3>2. Fits(sent) /\ Len(got'["up"]) + Len(wire'["up"]) + Len(out'["up"]) <= HeaderLen + sent.len
      BY <1>0, <2>5 DEF OnlyOf, ConvInv
    <3>3. ~(Len(got'["up"]) > HeaderLen + BufferLen)
      BY <1>0, <3>1, <3>2, InsideArray
    <3> QED BY <1>3, <3>3 DEF ServerReads
  <2>3. scr = "await" => Asking'
    BY <1>0, <2>1, <2>2, <2>6 DEF ConvInv, Asking, Working, Answering, Nothing, Refused
  <2>4. ~Resting
    BY <2>1 DEF ConvInv
  <2> QED BY <1>0, <1>1, <2>1, <2>2, <2>3, <2>4, <2>5, <2>6 DEF ConvInv
<1>4. CASE Received
  <2>0. ~Overrun(got["up"])
    BY <1>0, InsideArray DEF ConvInv, OnlyOf, TypeInv, Directions
  <2>1. /\ srv = "receive" /\ got' = [got EXCEPT !["up"] = <<>>]
        /\ Complete(got["up"]) \/ scr = "gone"
        /\ srv' = IF Parses(got["up"]) THEN "work" ELSE "dead"
        /\ Parses(got["up"]) => task' = got["up"][1][1]
        /\ UNCHANGED <<wire, out, reset>>
    BY <1>4, <2>0 DEF Received
  <2>2. ~Resting
    BY <2>1 DEF ConvInv
  <2>3. Parses(got["up"]) => got["up"][1][1] = sent
    <3>1. Parses(got["up"]) => 1 \in 1 .. Len(got["up"])
      BY EmptySeq DEF Parses, TypeInv, Directions
    <3> QED BY <3>1 DEF ConvInv, OnlyOf
  <2>4. OnlyOf("up", sent)'
    <3>1. got'["up"] = <<>>
      BY <2>1 DEF TypeInv, Directions
    <3>2. TypeInv' /\ OnlyOf("up", sent)
      BY TypeStep DEF Next, ConvInv
    <3> QED BY <1>0, <2>1, <3>1, <3>2, OnlyLess DEF OnlyOf
  <2>5. scr = "await" => Working'
    <3> SUFFICES ASSUME scr = "await" PROVE Working'
      OBVIOUS
    <3>1. Asking /\ Complete(got["up"])
      BY <2>1 DEF ConvInv, Working, Answering, Refused
    <3>2. Parses(got["up"]) /\ wire["up"] = <<>> /\ out["up"] = <<>>
      BY <1>0, <3>1, CompleteWhole DEF Asking, Directions
    <3> QED BY <2>1, <3>1, <3>2 DEF Asking, Working, Nothing, TypeInv, Directions
  <2>6. scr # "gone" => scr = "await"
    BY <2>1, <2>2 DEF Resting, TypeInv
  <2> QED BY <1>0, <1>1, <2>1, <2>2, <2>3, <2>4, <2>5, <2>6 DEF ConvInv, Working
<1>5. CASE Answer
  <2>1. /\ srv = "work" /\ srv' = "send" /\ UNCHANGED <<wire, got, reset, task>>
    BY <1>5 DEF Answer
  <2>2. PICK a \in AnswersTo(task) : out' = [out EXCEPT !["down"] = Frame(a)]
    BY <1>5 DEF Answer
  <2>3. task = sent /\ ~Resting
    BY <2>1 DEF ConvInv
  <2>4. OnlyOf("up", sent)' /\ (Nothing("up") => Nothing("up")')
    BY <1>0, <2>1, <2>2 DEF ConvInv, OnlyOf, Nothing, TypeInv, Directions
  <2>5. scr = "await" => Answering'
    <3> SUFFICES ASSUME scr = "await" PROVE Answering'
      OBVIOUS
    <3>1. Nothing("up") /\ Nothing("down")
      BY <2>1 DEF ConvInv, Asking, Working, Answering, Refused
    <3>2. a \in Messages /\ a \in AnswersTo(sent)'
      BY <1>0, <2>2, <2>3, MessageTypes DEF AnswersTo
    <3>3. HeaderLen \in Nat /\ a.len \in Nat
      BY <3>2, SocketIOAssumption, MessageBounds
    <3>4. /\ Len(Frame(a)) = HeaderLen + a.len
          /\ \A i \in 1 .. HeaderLen + a.len : Frame(a)[i] = <<a, 0 + 0 + i>>
      BY <3>3 DEF Frame
    <3>5. out'["down"] = Frame(a) /\ wire'["down"] = <<>> /\ got'["down"] = <<>>
      BY <2>1, <2>2, <3>1 DEF Nothing, TypeInv, Directions
    <3>6. Whole("down", a)'
      BY <3>3, <3>4, <3>5, EmptySeq DEF Whole
    <3> QED BY <2>1, <2>4, <3>1, <3>2, <3>6 DEF Answering
  <2> QED BY <1>0, <1>1, <2>1, <2>3, <2>4, <2>5 DEF ConvInv
<1>6. CASE ServerWrites
  <2>1. srv = "send" /\ writen("down") /\ UNCHANGED <<reset, srv, task>>
    BY <1>6 DEF ServerWrites
  <2>2. /\ \A a \in Messages : Whole("down", a) => Whole("down", a)'
        /\ out'["up"] = out["up"] /\ wire'["up"] = wire["up"]
        /\ got' = got /\ out["down"] # <<>>
    BY <1>0, <2>1, WriteKeeps DEF Directions
  <2>3. ~Resting
    BY <2>2 DEF ConvInv, Nothing
  <2>4. OnlyOf("up", sent)' /\ (Nothing("up") => Nothing("up")')
    BY <1>0, <2>2 DEF ConvInv, OnlyOf, Nothing
  <2>5. scr = "await" => Answering'
    <3> SUFFICES ASSUME scr = "await" PROVE Answering'
      OBVIOUS
    <3>1. Answering
      BY <2>1, <2>2 DEF ConvInv, Asking, Working, Refused, Nothing
    <3>2. PICK a \in AnswersTo(sent) : Whole("down", a)
      BY <3>1 DEF Answering
    <3>3. Whole("down", a)' /\ a \in AnswersTo(sent)'
      BY <1>0, <2>2, <3>2, MessageTypes DEF AnswersTo
    <3> QED BY <2>1, <2>4, <3>1, <3>3 DEF Answering
  <2> QED BY <1>0, <1>1, <2>1, <2>3, <2>4, <2>5 DEF ConvInv
<1>7. CASE WriteToNobody
  <2>1. /\ srv = "send" /\ scr = "gone" /\ out["down"] # <<>>
        /\ srv' \in {"send", "dead"} /\ UNCHANGED <<wire, got, task>>
        /\ \E k \in 1 .. Len(out["down"]) : out' = [out EXCEPT !["down"] = SubSeq(@, k + 1, Len(@))]
    BY <1>7 DEF WriteToNobody
  <2>2. ~Resting
    BY <2>1 DEF ConvInv, Nothing
  <2>3. out'["up"] = out["up"]
    BY <2>1 DEF TypeInv, Directions
  <2>4. OnlyOf("up", sent)'
    BY <1>0, <2>1, <2>3 DEF ConvInv, OnlyOf
  <2> QED BY <1>0, <1>1, <2>1, <2>2, <2>4 DEF ConvInv
<1>8. CASE Sent
  <2>1. srv = "send" /\ srv' = "wait" /\ UNCHANGED <<got, wire, out, reset, task>>
    BY <1>8 DEF Sent, ioVars
  <2>2. Asking \/ Answering => (Asking \/ Answering)'
    BY <1>0, <2>1, SameIO DEF Asking, Answering
  <2>3. ~Working /\ ~Refused
    BY <2>1 DEF Working, Refused
  <2> QED BY <1>0, <1>1, <2>1, <2>2, <2>3, SameIO DEF ConvInv
<1>9. CASE Refuse
  <2>1. srv = "work" /\ srv' = "refused" /\ UNCHANGED <<got, wire, out, reset, task>>
    BY <1>9 DEF Refuse, ioVars
  <2>2. scr = "await" => Refused'
    BY <1>0, <2>1, SameIO DEF ConvInv, Asking, Working, Answering, Refused
  <2>3. ~Resting
    BY <2>1 DEF ConvInv
  <2> QED BY <1>0, <1>1, <2>1, <2>2, <2>3, SameIO DEF ConvInv
<1>10. Fits(sent)'
  BY <1>0 DEF ConvInv, Fits
<1> QED BY <1>2, <1>3, <1>4, <1>5, <1>6, <1>7, <1>8, <1>9, <1>10 DEF ServerStep

LEMMA ConvAlways == Spec => [](TypeInv /\ (~overlong => ConvInv))
<1>1. Init => ConvInv
  <2> SUFFICES ASSUME Init PROVE ConvInv
    OBVIOUS
  <2>1. Nothing("up") /\ Nothing("down")
    BY DEF Init, IOInit, Nothing, Directions
  <2>2. Fits(NoMessage) /\ NoMessage \in Messages
    <3>1. NoMessage \in Messages
      BY MessageBounds
    <3>2. Fits(NoMessage)
      BY TcpClientAssumption DEF Fits, NoMessage
    <3> QED BY <3>1, <3>2
  <2> QED BY <2>1, <2>2, NothingOnly DEF Init, ConvInv, AnswerIsMine
<1>2. TypeInv /\ ConvInv /\ UNCHANGED vars => ConvInv'
  <2> SUFFICES ASSUME ConvInv, UNCHANGED vars PROVE ConvInv'
    OBVIOUS
  <2>1. UNCHANGED <<got, wire, out, scr, sent, shown, killed, overlong, reset, srv, task>>
    BY DEF vars, ioVars
  <2> QED BY <2>1, SameIO DEF ConvInv, AnswerIsMine, Resting, Asking, Working, Answering, Refused
<1>3. TypeInv /\ ConvInv /\ [Next]_vars /\ ~overlong' => ConvInv'
  BY <1>2, ConvClient, ConvSend, ConvDie, ConvClientIO, ConvServer
<1>4. [Next]_vars /\ ~overlong' => ~overlong
  BY DEF Next, ClientIO, ServerStep, Menu, SwitchMode, Quit, Send, TurnPage, LeavePages, Die,
     ClientWrites, ClientReads, HandleMessage, HandleRead, ServerReads, Received, Answer,
     Refuse, ServerWrites, WriteToNobody, Sent, vars
<1> QED BY <1>1, <1>3, <1>4, TypeInit, TypeStep, PTL DEF Spec

\* However a request is cut into reads and writes, a worker gets to parse it
\* as it was sent, or not at all, as long as every request fits in the array
\* of receive.
THEOREM RequestsIntact == Spec => []RequestIntact
<1>1. (~overlong => ConvInv) => RequestIntact
  BY DEF ConvInv, RequestIntact
<1> QED BY <1>1, ConvAlways, PTL

\* The client never shows the answer to another request, for requests that
\* fit, answers of all lengths and connections of every capacity.
THEOREM AnswersMatch == Spec => []AnswerIsMine
<1>1. (~overlong => ConvInv) => AnswerIsMine
  BY DEF ConvInv, AnswerIsMine
<1> QED BY <1>1, ConvAlways, PTL

\* With requests that fit, the server is ended only by a client that was
\* killed or by a refused query whose sender still waits.
THEOREM QuittingIsHarmless == Spec => []QuitIsHarmless
<1>1. TypeInv /\ (~overlong => ConvInv) => QuitIsHarmless
  BY DEF TypeInv, ConvInv, QuitIsHarmless, Resting
<1> QED BY <1>1, ConvAlways, PTL
=============================================================================
