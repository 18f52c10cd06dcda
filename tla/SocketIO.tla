------------------------------ MODULE SocketIO ------------------------------
(***************************************************************************)
(* One connection between a client and the server, byte by byte: a message   *)
(* is a length and that many bytes (SocketIO and TcpConnection of both        *)
(* programs).  A read or a write may stop after any number of bytes and is    *)
(* repeated.  Byte i of a message's frame is the pair of the message and i.   *)
(***************************************************************************)
EXTENDS Naturals, Sequences

CONSTANTS
  HeaderLen,    \* sizeof(int)
  Room          \* bytes that one direction of the connection holds

ASSUME SocketIOAssumption == HeaderLen \in Nat \ {0} /\ Room \in Nat /\ Room >= HeaderLen

VARIABLES
  out,          \* per direction: what writen has still to write
  wire,         \* what was written and not yet read
  got           \* what receive has read of the current message

ioVars == <<out, wire, got>>
Directions == {"up", "down"}     \* to the server, to the client

-----------------------------------------------------------------------------
(* Faulty variants, each a bug this code could have; used by no definition. *)

\* receive passes len and not len + 1 to readLine, which keeps a byte for the
\* terminating zero.
WantedShort(g) ==
  IF Len(g) < HeaderLen THEN HeaderLen - Len(g)
                        ELSE HeaderLen + g[1][1].len - 1 - Len(g)

-----------------------------------------------------------------------------
Frame(m) == [i \in 1 .. HeaderLen + m.len |-> <<m, i>>]
Header(m) == SubSeq(Frame(m), 1, HeaderLen)
Body(m) == SubSeq(Frame(m), HeaderLen + 1, HeaderLen + m.len)

\* The length that the first HeaderLen bytes give.
LengthRead(g) == IF SubSeq(g, 1, HeaderLen) = Header(g[1][1]) THEN g[1][1].len ELSE 0

\* How many bytes the loops of readn and readLine still ask for.
Wanted(g) ==
  IF Len(g) < HeaderLen THEN HeaderLen - Len(g)
                        ELSE HeaderLen + LengthRead(g) - Len(g)

\* receive returns when it has all it asks for.
Complete(g) == Len(g) >= HeaderLen /\ Wanted(g) = 0

\* What json::parse can read: one message, whole.
Parses(g) == g # <<>> /\ g = Frame(g[1][1])

IOInit ==
  /\ out = [d \in Directions |-> <<>>]
  /\ wire = [d \in Directions |-> <<>>]
  /\ got = [d \in Directions |-> <<>>]

\* One read of readn or readLine returns k bytes.
readn(d) ==
  \E k \in 1 .. Len(wire[d]) :
    /\ k <= Wanted(got[d])
    /\ got' = [got EXCEPT ![d] = @ \o SubSeq(wire[d], 1, k)]
    /\ wire' = [wire EXCEPT ![d] = SubSeq(@, k + 1, Len(@))]
    /\ UNCHANGED out

\* One write of writen takes k bytes.
writen(d) ==
  \E k \in 1 .. Len(out[d]) :
    /\ Len(wire[d]) + k <= Room
    /\ wire' = [wire EXCEPT ![d] = @ \o SubSeq(out[d], 1, k)]
    /\ out' = [out EXCEPT ![d] = SubSeq(@, k + 1, Len(@))]
    /\ UNCHANGED got
=============================================================================
