-------------------------------- MODULE Wire --------------------------------
(***************************************************************************)
(* raster/net: Protocol, and what EventHandler and AsyncClient do with it: *)
(* requests and answers as bytes on one connection that a client keeps     *)
(* alive.                                                                  *)
(*                                                                         *)
(* TCP cuts the bytes where it likes.  An end has read or written a frame  *)
(* only when the counters in its event say so, and the next frame on the   *)
(* connection is found only if exactly one frame was taken before.         *)
(***************************************************************************)
EXTENDS Integers, Sequences, FiniteSetsExt

CONSTANTS
    Calls,      \* bound: the client makes the calls 1..Calls
    Header,     \* headerSize(), in bytes
    Bodies,     \* the body lengths that occur
    Chunk,      \* the bytes an IOBuf of CHUNK_SIZE holds
    SocketRoom  \* the bytes a socket buffers

ASSUME WireAssumption ==
    /\ {Calls, Header, Chunk, SocketRoom} \subseteq Nat \ {0}
    /\ Bodies \subseteq Nat /\ Bodies # {}

VARIABLES
    framing,    \* the channel's protocol: HBinaryProtocol or ZlibBinaryProtocol
    ev,         \* the Event of each end
    at,         \* where each end is in readData; "lost": it uses a deleted IOBuf
    stream,     \* the bytes on the way to each end
    open,       \* the ends whose socket is open
    pooled,     \* the client's event is in the EventPool
    call        \* the client's current call, 0 before the first

wireVars == <<framing, ev, at, stream, open, pooled, call>>

End     == {"client", "server"}
Peer(s) == IF s = "client" THEN "server" ELSE "client"

\* Byte i of a frame says which frame it belongs to.
Frame(s, c, n) ==
    [i \in 1..(Header + n) |-> [who |-> s, call |-> c, body |-> n, i |-> i]]

\* What bodyLength() finds in the first bytes of the buffer; bytes that are not a
\* header are taken for some length, too.
bodyLength(buf) == IF buf[1].i = 1 THEN buf[1].body ELSE Max(Bodies)

\* The bytes 00 00 ff ff, which end a frame of ZlibBinaryProtocol.
IsMark(b) == b.i = Header + b.body

\* reset(), followed by setType.
Fresh(type) == [type |-> type, rbuf |-> <<>>, wbuf |-> <<>>, rlen |-> 0, wlen |-> 0]

-----------------------------------------------------------------------------
(***************************************************************************)
(* Both ends: writeData, readData and what onWrite and onRead make of it.  *)
(***************************************************************************)

\* closePeer(): the server deletes its event and with it the socket.  The client's
\* event fails, and keeps the socket until the client lets go of it.
ClosePeer(s) ==
    /\ ev' = [ev EXCEPT ![s].type = IF s = "client" THEN "FAIL" ELSE "idle"]
    /\ at' = [at EXCEPT ![s] = "out"]
    /\ open' = IF s = "client" THEN open ELSE open \ {s}
    /\ UNCHANGED <<framing, stream, pooled, call>>

Writing(s) == ev[s].type \in {"TOWRITE", "WRITING"}
Reading(s) == ev[s].type \in {"NEXT", "TOREAD", "READING"}

\* Fault: one send() is taken for all.
SendOnce(s) ==
    /\ Writing(s) /\ Peer(s) \in open
    /\ \E k \in 1..(Len(ev[s].wbuf) - ev[s].wlen) :
        /\ Len(stream[Peer(s)]) + k <= SocketRoom
        /\ stream' = [stream EXCEPT ![Peer(s)] =
                          @ \o SubSeq(ev[s].wbuf, ev[s].wlen + 1, ev[s].wlen + k)]
        /\ ev' = [ev EXCEPT ![s] = IF s = "server" THEN Fresh("NEXT")
                                   ELSE [@ EXCEPT !.type = "TOREAD"]]
    /\ UNCHANGED <<framing, at, open, pooled, call>>

\* One send() of writeData, which may take only a part.  When all is written,
\* onComplete has the client read the answer and the server the next request.
Send(s) ==
    /\ Writing(s) /\ Peer(s) \in open
    /\ \E k \in 1..(Len(ev[s].wbuf) - ev[s].wlen) :
        LET sent == ev[s].wlen + k IN
            /\ Len(stream[Peer(s)]) + k <= SocketRoom
            /\ stream' = [stream EXCEPT ![Peer(s)] =
                              @ \o SubSeq(ev[s].wbuf, ev[s].wlen + 1, sent)]
            /\ ev' = [ev EXCEPT ![s] =
                  IF sent < Len(ev[s].wbuf)
                    THEN [@ EXCEPT !.type = "WRITING", !.wlen = sent]
                  ELSE IF s = "server" THEN Fresh("NEXT")
                  ELSE [@ EXCEPT !.type = "TOREAD", !.wlen = sent]]
    /\ UNCHANGED <<framing, at, open, pooled, call>>

\* send() to a closed peer fails.
SendFails(s) == Writing(s) /\ Peer(s) \notin open /\ ClosePeer(s)

\* The loop calls onRead() when the socket has bytes or was closed.
Readable(s) == Reading(s) /\ at[s] = "out" /\ (stream[s] # <<>> \/ Peer(s) \notin open)

\* Fault: every call asks for a header.
StartReadAnew(s) ==
    /\ Readable(s)
    /\ at' = [at EXCEPT ![s] = "first"]
    /\ ev' = [ev EXCEPT ![s].type = "READING", ![s].rlen = Header]
    /\ UNCHANGED <<framing, stream, open, pooled, call>>

\* onRead() calls readData().  HBinaryProtocol asks for a header when it has
\* nothing yet.
StartRead(s) ==
    /\ Readable(s)
    /\ at' = [at EXCEPT ![s] = "first"]
    /\ ev' = [ev EXCEPT ![s].type = "READING",
                        ![s].rlen = IF framing = "length" /\ ev[s].rbuf = <<>>
                                      THEN Header ELSE @]
    /\ UNCHANGED <<framing, stream, open, pooled, call>>

\* The room in the last IOBuf of rbuf(): when the first is full, the Appender links
\* another one.  A second is never filled, see Recv.
tailroom(s) == IF Len(ev[s].rbuf) < Chunk THEN Chunk - Len(ev[s].rbuf) ELSE Chunk

\* What recv() is asked for: what is left of the frame, or as much as the IOBuf holds.
Asked(s) == IF framing = "length" THEN ev[s].rlen ELSE tailroom(s)

\* One recv() of readData or readDataUntil.  readDataUntil looks for the mark in the
\* coalesced buffer.  If the Appender had linked a second IOBuf, coalesce() has deleted
\* it, and without a mark the next turn goes on to use it: what follows is undefined.
Recv(s) ==
    /\ at[s] # "out"
    /\ \E k \in {k \in 1..Len(stream[s]) : k <= Asked(s)} :
        LET e   == ev[s]
            buf == e.rbuf \o SubSeq(stream[s], 1, k)
        IN  /\ stream' = [stream EXCEPT ![s] = SubSeq(@, k + 1, Len(@))]
            /\ IF framing = "length"
                 THEN /\ ev' = [ev EXCEPT ![s].rbuf = buf, ![s].rlen = @ - k]
                      /\ UNCHANGED at
               ELSE IF \E i \in 1..Len(buf) : IsMark(buf[i])
                 THEN /\ ev' = [ev EXCEPT ![s].rbuf = buf, ![s].type = "READED"]
                      /\ at' = [at EXCEPT ![s] = "out"]
               ELSE /\ ev' = [ev EXCEPT ![s].rbuf = buf]
                    /\ at' = [at EXCEPT ![s] = IF Len(e.rbuf) < Chunk THEN @ ELSE "lost"]
    /\ UNCHANGED <<framing, open, pooled, call>>

\* readData has read rlen bytes.  If these were the header, HBinaryProtocol goes on
\* with the body; else the frame is complete.
ReadAll(s) ==
    /\ framing = "length" /\ at[s] # "out" /\ ev[s].rlen = 0
    /\ IF at[s] = "first" /\ Len(ev[s].rbuf) = Header
         THEN /\ at' = [at EXCEPT ![s] = "second"]
              /\ ev' = [ev EXCEPT ![s].rlen = bodyLength(ev[s].rbuf)]
         ELSE /\ at' = [at EXCEPT ![s] = "out"]
              /\ ev' = [ev EXCEPT ![s].type = "READED"]
    /\ UNCHANGED <<framing, stream, open, pooled, call>>

\* recv() has nothing: readData returns 1, and the loop polls the event again.
Again(s) ==
    /\ at[s] # "out" /\ Asked(s) > 0 /\ stream[s] = <<>> /\ Peer(s) \in open
    /\ at' = [at EXCEPT ![s] = "out"]
    /\ UNCHANGED <<framing, ev, stream, open, pooled, call>>

\* recv() returns 0, or fails with ECONNRESET: readData returns 2.
PeerClosed(s) ==
    /\ at[s] # "out" /\ Asked(s) > 0 /\ stream[s] = <<>> /\ Peer(s) \notin open
    /\ ClosePeer(s)

\* The event's time is over: found by readData or writeData when the socket is not
\* ready, by onComplete, or by the loop.
TimedOut(s) ==
    /\ ev[s].type \notin {"idle", "FAIL"}
    /\ ClosePeer(s)

-----------------------------------------------------------------------------
(***************************************************************************)
(* The client makes its calls one after the other, the server answers.     *)
(***************************************************************************)

\* connect() with an event of the pool, and the request encoded into it.  The pool's
\* connection may have been closed without the client knowing yet.
FetchPooled(n) ==
    /\ ev["client"].type = "idle" /\ call < Calls /\ pooled
    /\ call' = call + 1
    /\ ev' = [ev EXCEPT !["client"] =
                  [Fresh("TOWRITE") EXCEPT !.wbuf = Frame("client", call', n)]]
    /\ pooled' = FALSE
    /\ UNCHANGED <<framing, at, stream, open>>

\* connect() with a new socket, when there is no connected one in the pool; the
\* server accepts it.
FetchNew(n) ==
    /\ ev["client"].type = "idle" /\ call < Calls
    /\ ~pooled \/ "server" \notin open
    /\ call' = call + 1
    /\ ev' = [client |-> [Fresh("TOWRITE") EXCEPT !.wbuf = Frame("client", call', n)],
              server |-> Fresh("NEXT")]
    /\ at' = [s \in End |-> "out"]
    /\ stream' = [s \in End |-> <<>>]
    /\ open' = End
    /\ pooled' = FALSE
    /\ UNCHANGED framing

\* EventExecutor::handle(): the request is decoded and its answer encoded.
Handle(n) ==
    LET e == ev["server"] IN
        /\ e.type = "READED"
        /\ ev' = [ev EXCEPT !["server"].type = "TOWRITE",
                            !["server"].wbuf = @ \o Frame("server", e.rbuf[1].call, n)]
        /\ UNCHANGED <<framing, at, stream, open, pooled, call>>

\* Fault: a failed event is kept, too.
FreeConnectionAlways ==
    /\ ev["client"].type \in {"READED", "FAIL"}
    /\ ev' = [ev EXCEPT !["client"] = Fresh("idle")]
    /\ pooled' = TRUE
    /\ UNCHANGED <<framing, at, stream, open, call>>

\* The client has its result and closes.  An event that failed is dropped, with
\* its socket.
FreeConnection ==
    /\ ev["client"].type \in {"READED", "FAIL"}
    /\ ev' = [ev EXCEPT !["client"] = Fresh("idle")]
    /\ pooled' = (ev["client"].type = "READED")
    /\ open' = IF pooled' THEN open ELSE open \ {"client"}
    /\ UNCHANGED <<framing, at, stream, call>>

WireInit ==
    /\ framing \in {"length", "mark"}
    /\ ev = [s \in End |-> Fresh("idle")]
    /\ at = [s \in End |-> "out"]
    /\ stream = [s \in End |-> <<>>]
    /\ open = {}
    /\ pooled = FALSE
    /\ call = 0

\* Neither end has come to use a deleted IOBuf.
Defined == \A s \in End : at[s] # "lost"

EndStep(s) ==
    /\ Defined
    /\ \/ Send(s) \/ SendFails(s)
       \/ StartRead(s) \/ Recv(s) \/ ReadAll(s) \/ Again(s) \/ PeerClosed(s)

ServerAnswers == Defined /\ \E n \in Bodies : Handle(n)

WireNext ==
    \/ \E s \in End : EndStep(s)
    \/ ServerAnswers
    \/ Defined /\ \E s \in End : TimedOut(s)
    \/ Defined /\ \E n \in Bodies : FetchPooled(n) \/ FetchNew(n)
    \/ Defined /\ FreeConnection

WireSpec == WireInit /\ [][WireNext]_wireVars

-----------------------------------------------------------------------------
\* However the bytes arrive, a buffer that is handed on as read holds exactly one
\* frame of the peer, from its first byte to its last (HBinaryProtocol::readData,
\* ZlibBinaryProtocol::readData).  readDataUntil comes to use a deleted IOBuf only while
\* it reads a frame that the first IOBuf does not hold, by more than one byte.
WholeFrame ==
    \A s \in End :
        /\ ev[s].type = "READED" =>
              \E c \in 1..Calls, n \in Bodies : ev[s].rbuf = Frame(Peer(s), c, n)
        /\ at[s] = "lost" => framing = "mark" /\ Header + ev[s].rbuf[1].body > Chunk + 1

\* A client gets the answer to its own request: what is left of an exchange that
\* timed out is never on a connection that is used again (AsyncClient's
\* freeConnection and initConnection, EventHandler::closePeer).
OwnAnswer ==
    ev["client"].type = "READED" =>
        \A i \in 1..Len(ev["client"].rbuf) : ev["client"].rbuf[i].call = call

\* Even if nothing ever times out, a call comes to an end: client and server never
\* both wait for the other's bytes.  The exception is a frame that readDataUntil fails
\* on, see WholeFrame.
CallEnds ==
    ev["client"].type = "TOWRITE" ~> ev["client"].type \in {"READED", "FAIL"} \/ ~Defined
=============================================================================
