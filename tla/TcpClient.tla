----------------------------- MODULE TcpClient -----------------------------
(***************************************************************************)
(* A whole conversation: the client with its menu, its prompts and its        *)
(* pager, the connection byte by byte, and the server as one event loop that  *)
(* serves this client.  Reactor has the server's threads and its other        *)
(* clients; here a request is answered by one step, with the id that          *)
(* SearchServer's KindMatches gives it.                                       *)
(***************************************************************************)
EXTENDS Pager, SocketIO, FiniteSets

CONSTANTS
  MaxAsks,      \* bound: requests of the client
  BufferLen,    \* bytes of the array in the server's receive: 65534
  MaxLen,       \* bound: bytes of a message
  MaxPages      \* bound: pages of an answer

ASSUME TcpClientAssumption ==
  {MaxAsks, MaxLen, MaxPages} \subseteq Nat /\ BufferLen \in Nat \ {0}

VARIABLES
  scr,          \* what the client does: menu, prompt, await, pager, gone
  messageId,    \* the mode chosen in the menu or at a prompt
  sent,         \* its last request
  shown,        \* the last answer it handled
  killed,       \* history: it ended otherwise than by '0'
  overlong,     \* history: a request of its did not fit in receive's array
  reset,        \* the connection was reset
  srv,          \* the loop: wait, receive, work, send, closed; or the process
                \* ended: refused, by a query that has no result; else dead
  task          \* the request given to the worker

vars == <<pagerVars, ioVars, scr, messageId, sent, shown, killed, overlong, reset, srv, task>>

NoMessage == [n |-> 0, id |-> "", pages |-> 0, len |-> 0]
Requests(n) == [n : {n}, id : {messageId}, pages : {0}, len : 1 .. MaxLen]

\* The body, and the zero that readLine puts behind it.
Fits(m) == m.len < BufferLen
Overrun(g) == Len(g) >= HeaderLen + BufferLen

AnswersTo(r) == IF r.id = "1" THEN [n : {r.n}, id : {"100"}, pages : {0}, len : 1 .. MaxLen]
                              ELSE [n : {r.n}, id : {"200"}, pages : 0 .. MaxPages, len : 1 .. MaxLen]

-----------------------------------------------------------------------------
(* Faulty variants, each a bug this code could have; used by no definition. *)

\* The buffer of receive is kept from message to message.
ReceivedKeepsBuffer ==
  /\ srv = "receive" /\ Complete(got["up"])
  /\ task' = got["up"][1][1]
  /\ srv' = "work"
  /\ UNCHANGED <<pagerVars, ioVars, scr, messageId, sent, shown, killed, overlong, reset>>

\* The same in the client.
HandleKeepsBuffer ==
  /\ scr = "await" /\ Complete(got["down"])
  /\ shown' = got["down"][1][1]
  /\ scr' = "prompt"
  /\ UNCHANGED <<pagerVars, ioVars, messageId, sent, killed, overlong, reset, srv, task>>

\* handleRead calls receive only when the whole frame has arrived.
HandleReadWhole ==
  /\ srv = "wait"
  /\ Len(wire["up"]) > HeaderLen
  /\ Len(wire["up"]) = HeaderLen + wire["up"][1][1].len
  /\ srv' = "receive"
  /\ UNCHANGED <<pagerVars, ioVars, scr, messageId, sent, shown, killed, overlong, reset, task>>

-----------------------------------------------------------------------------
Init ==
  /\ PagerInit /\ IOInit
  /\ scr = "menu" /\ messageId = "1"
  /\ sent = NoMessage /\ shown = NoMessage /\ task = NoMessage
  /\ killed = FALSE /\ overlong = FALSE /\ reset = FALSE
  /\ srv = "wait"

(***************************************************************************)
(* The client.  At the end of its input it reads an arbitrary key or none.   *)
(***************************************************************************)

\* 0 is accepted and shows the menu again.
Menu(choice) ==
  /\ scr = "menu"
  /\ scr' = IF choice = "0" THEN "menu" ELSE "prompt"
  /\ messageId' = IF choice = "0" THEN messageId ELSE choice
  /\ UNCHANGED <<pagerVars, ioVars, sent, shown, killed, overlong, reset, srv, task>>

SwitchMode(key) ==
  /\ scr = "prompt"
  /\ messageId' = key
  /\ UNCHANGED <<pagerVars, ioVars, scr, sent, shown, killed, overlong, reset, srv, task>>

\* start returns, and the descriptor is closed.
Quit ==
  /\ scr = "prompt"
  /\ scr' = "gone"
  /\ UNCHANGED <<pagerVars, ioVars, messageId, sent, shown, killed, overlong, reset, srv, task>>

\* The length is written by one write.
Send ==
  /\ scr = "prompt" /\ sent.n < MaxAsks
  /\ sent' \in Requests(sent.n + 1)
  /\ Len(wire["up"]) + HeaderLen <= Room
  /\ wire' = [wire EXCEPT !["up"] = @ \o Header(sent')]
  /\ out' = [out EXCEPT !["up"] = Body(sent')]
  /\ overlong' = (overlong \/ ~Fits(sent'))
  /\ scr' = "await"
  /\ UNCHANGED <<pagerVars, got, messageId, shown, killed, reset, srv, task>>

ClientWrites ==
  /\ scr = "await" /\ writen("up")
  /\ UNCHANGED <<pagerVars, scr, messageId, sent, shown, killed, overlong, reset, srv, task>>

ClientReads ==
  /\ scr = "await" /\ out["up"] = <<>> /\ readn("down")
  /\ UNCHANGED <<pagerVars, scr, messageId, sent, shown, killed, overlong, reset, srv, task>>

\* handleMessage: a page list that needs more than one screen waits for keys.
\* What cannot be parsed ends the client.
HandleMessage ==
  /\ scr = "await" /\ Complete(got["down"])
  /\ LET g == got["down"] IN
       IF ~Parses(g)
       THEN scr' = "gone" /\ killed' = TRUE /\ UNCHANGED <<pagerVars, shown>>
       ELSE /\ shown' = g[1][1]
            /\ UNCHANGED killed
            /\ IF g[1][1].id = "200" /\ g[1][1].pages > 0
               THEN /\ splitPages(g[1][1].pages)
                    /\ scr' = IF g[1][1].pages <= PageSize THEN "prompt" ELSE "pager"
               ELSE scr' = "prompt" /\ UNCHANGED pagerVars
  /\ got' = [got EXCEPT !["down"] = <<>>]
  /\ UNCHANGED <<out, wire, messageId, sent, overlong, reset, srv, task>>

TurnPage ==
  /\ scr = "pager"
  /\ PreviousPage \/ NextPage
  /\ UNCHANGED <<ioVars, scr, messageId, sent, shown, killed, overlong, reset, srv, task>>

\* 'q'
LeavePages ==
  /\ scr = "pager"
  /\ scr' = "prompt"
  /\ UNCHANGED <<pagerVars, ioVars, messageId, sent, shown, killed, overlong, reset, srv, task>>

\* The client is killed, or finds the connection closed and parses nothing;
\* bytes it did not read make the kernel reset the connection.
Die ==
  /\ scr # "gone"
  /\ scr' = "gone"
  /\ killed' = TRUE
  /\ out' = [out EXCEPT !["up"] = <<>>]
  /\ reset' = (reset \/ wire["down"] # <<>>)
  /\ UNCHANGED <<pagerVars, wire, got, messageId, sent, shown, overlong, srv, task>>

(***************************************************************************)
(* The server.                                                              *)
(***************************************************************************)

\* handleRead: isClosed peeks at the connection, and only a peek that returns
\* zero counts as closed.
HandleRead ==
  /\ srv = "wait"
  /\ wire["up"] # <<>> \/ scr = "gone"
  /\ srv' = IF wire["up"] = <<>> /\ ~reset THEN "closed" ELSE "receive"
  /\ UNCHANGED <<pagerVars, ioVars, scr, messageId, sent, shown, killed, overlong, reset, task>>

\* Nothing compares the length with the array: bytes past its end overwrite
\* what lies behind it, and the process may end there.
ServerReads ==
  /\ srv = "receive" /\ readn("up")
  /\ \/ UNCHANGED srv
     \/ Len(got'["up"]) > HeaderLen + BufferLen /\ srv' = "dead"
  /\ UNCHANGED <<pagerVars, scr, messageId, sent, shown, killed, overlong, reset, task>>

\* receive returns, also when the client is gone; threadTask parses what it
\* returned, and what cannot be parsed ends the process.  When the array was
\* overrun the process may end, or go on with the request or with another.
Received ==
  /\ srv = "receive"
  /\ Complete(got["up"]) \/ (scr = "gone" /\ (wire["up"] = <<>> \/ reset))
  /\ LET g == got["up"] IN
       \/ Parses(g) /\ srv' = "work" /\ task' = g[1][1]
       \/ (~Parses(g) \/ Overrun(g)) /\ srv' = "dead" /\ UNCHANGED task
       \/ Overrun(g) /\ srv' = "work" /\ task' = NoMessage
  /\ got' = [got EXCEPT !["up"] = <<>>]
  /\ UNCHANGED <<pagerVars, out, wire, scr, messageId, sent, shown, killed, overlong, reset>>

\* The worker's answer reaches the loop, which writes its length and itself.
Answer ==
  /\ srv = "work"
  /\ \E a \in AnswersTo(task) : out' = [out EXCEPT !["down"] = Frame(a)]
  /\ srv' = "send"
  /\ UNCHANGED <<pagerVars, wire, got, scr, messageId, sent, shown, killed, overlong, reset, task>>

\* The database refuses the query: doQuery reads a null result, and the
\* process ends without an answer.
Refuse ==
  /\ srv = "work"
  /\ srv' = "refused"
  /\ UNCHANGED <<pagerVars, ioVars, scr, messageId, sent, shown, killed, overlong, reset, task>>

ServerWrites ==
  /\ srv = "send" /\ scr # "gone" /\ writen("down")
  /\ UNCHANGED <<pagerVars, scr, messageId, sent, shown, killed, overlong, reset, srv, task>>

\* The peer is gone: the first write makes it reset the connection, the next
\* raises SIGPIPE, which nobody handles.
WriteToNobody ==
  /\ srv = "send" /\ scr = "gone" /\ out["down"] # <<>>
  /\ \E k \in 1 .. Len(out["down"]) : out' = [out EXCEPT !["down"] = SubSeq(@, k + 1, Len(@))]
  /\ reset' = TRUE
  /\ srv' = IF reset THEN "dead" ELSE srv
  /\ UNCHANGED <<pagerVars, wire, got, scr, messageId, sent, shown, killed, overlong, task>>

Sent ==
  /\ srv = "send" /\ out["down"] = <<>>
  /\ srv' = "wait"
  /\ UNCHANGED <<pagerVars, ioVars, scr, messageId, sent, shown, killed, overlong, reset, task>>

ClientIO == ClientWrites \/ ClientReads \/ HandleMessage
ServerStep ==
  \/ HandleRead \/ ServerReads \/ Received \/ Answer \/ Refuse
  \/ ServerWrites \/ WriteToNobody \/ Sent

Next ==
  \/ \E choice \in {"0", "1", "2"} : Menu(choice)
  \/ \E key \in {"1", "2"} : SwitchMode(key)
  \/ Quit \/ Send \/ TurnPage \/ LeavePages \/ Die
  \/ ClientIO
  \/ ServerStep

\* Both programs run; a user need not type anything.
Spec == Init /\ [][Next]_vars
FairSpec == Spec /\ WF_vars(ClientIO) /\ WF_vars(ServerStep)

-----------------------------------------------------------------------------
TypeOK ==
  /\ scr \in {"menu", "prompt", "await", "pager", "gone"}
  /\ srv \in {"wait", "receive", "work", "send", "closed", "refused", "dead"}
  /\ messageId \in {"1", "2"}
  /\ count \in 0 .. MaxPages /\ curIdx \in 0 .. MaxPages
  /\ \A d \in Directions : Len(wire[d]) <= Room /\ Len(got[d]) <= HeaderLen + MaxLen
  /\ killed \in BOOLEAN /\ overlong \in BOOLEAN /\ reset \in BOOLEAN

\* What a worker gets to parse is the request as the client sent it, however
\* it was cut into reads and writes, until one is sent that is longer than
\* the array of receive.
RequestIntact == srv = "work" /\ ~overlong => task = sent

\* What the client has shown when it asks its user again is the answer to its
\* last request, of the kind that was asked for, under the same condition.
AnswerIsMine ==
  scr \in {"prompt", "pager"} /\ ~overlong =>
    /\ shown.n = sent.n
    /\ sent.id = "1" => shown.id = "100"
    /\ sent.id = "2" => shown.id = "200"

\* Requests that fit end the server in two ways only: the client was killed,
\* or it still waits for the answer to a query that the database refused.  So
\* one that leaves by '0' leaves a server that runs, wherever its last
\* message was cut.
QuitIsHarmless ==
  srv \in {"refused", "dead"} /\ ~overlong =>
    killed \/ (srv = "refused" /\ scr = "await")

\* The pager never reads past the pages it has: the loop for '<' has no bound
\* of its own, and the guard of '>' compares in unsigned arithmetic.
PagerInBounds == printed \subseteq 0 .. count - 1

\* When '>' says that there is no more, every page has been on the screen.
EveryPageSeen == scr = "pager" /\ ~MoreToCome => seen = 0 .. count - 1

\* A request is answered on the screen unless one of the two dies, and a
\* client that left has its connection closed by the server: the loop never
\* waits for ever inside receive for bytes that will not come.
EveryCallEnds ==
  /\ scr = "await" ~> scr # "await" \/ srv \in {"refused", "dead"}
  /\ scr = "gone" ~> srv \in {"closed", "refused", "dead"}
=============================================================================
