----------------------------- MODULE WireProofs -----------------------------
(***************************************************************************)
(* Proofs about Wire: for every header size, set of body lengths, size of  *)
(* an IOBuf and of a socket's buffer and number of calls, an end takes     *)
(* exactly one frame, and the client the answer to its own request.        *)
(***************************************************************************)
EXTENDS Wire, SequenceTheorems, TLAPS

Byte == [who : End, call : Nat, body : Nat, i : Nat]

Types == {"idle", "NEXT", "TOREAD", "READING", "READED", "TOWRITE", "WRITING", "FAIL"}

Events == [type : Types, rbuf : Seq(Byte), wbuf : Seq(Byte), rlen : Nat, wlen : Nat]

WireTypeOK ==
    /\ framing \in {"length", "mark"}
    /\ ev \in [End -> Events]
    /\ at \in [End -> {"out", "first", "second", "lost"}]
    /\ stream \in [End -> Seq(Byte)]
    /\ open \subseteq End
    /\ pooled \in BOOLEAN
    /\ call \in 0..Calls
    /\ \A s \in End : at[s] # "out" => ev[s].type = "READING"

\* What has reached s since its event was reset, read or not: recv() moves bytes
\* from the stream to the buffer and changes nothing here.
Got(s) == ev[s].rbuf \o stream[s]

\* rlen counts down to the end of the header first and to the end of the frame
\* then; only with "second" does an empty count mean that the frame is read.
Counted(a, have, rlen, n) ==
    \/ a # "second" /\ have + rlen = Header /\ (a = "out" => rlen # 0)
    \/ /\ have + rlen = Header + n /\ have >= Header
       /\ a = "first" => ~(have = Header /\ rlen = 0)
       /\ a = "out" => rlen # 0

\* s reads the frame of call c with a body of n, and has not all of it.
Receiving(s, c, n) ==
    /\ Len(Got(s)) <= Header + n
    /\ Got(s) = SubSeq(Frame(Peer(s), c, n), 1, Len(Got(s)))
    /\ framing = "length" /\ (at[s] # "out" \/ ev[s].rbuf # <<>>) =>
          Counted(at[s], Len(ev[s].rbuf), ev[s].rlen, n)
    /\ framing = "mark" => Len(ev[s].rbuf) < Header + n
    /\ at[s] = "lost" => framing = "mark" /\ Len(ev[s].rbuf) > Chunk

ServerOK ==
    LET e == ev["server"] IN
        \/ e.type = "idle"
        \/ /\ Reading("server") /\ e.wbuf = <<>> /\ e.wlen = 0
           /\ \E c \in 1..Calls, n \in Bodies : Receiving("server", c, n)
        \/ /\ e.type \in {"READED", "TOWRITE", "WRITING"}
           /\ stream["server"] = <<>>
           /\ \E c \in 1..Calls :
                 /\ \E n \in Bodies : e.rbuf = Frame("client", c, n)
                 /\ \/ e.type = "READED" /\ e.wbuf = <<>> /\ e.wlen = 0
                    \/ /\ Writing("server")
                       /\ \E m \in Bodies : /\ e.wbuf = Frame("server", c, m)
                                             /\ e.wlen < Header + m

\* Nothing is on the way in either direction.
Quiet ==
    /\ stream["client"] = <<>>
    /\ \/ ev["server"].type = "idle"
       \/ Reading("server") /\ Got("server") = <<>>

\* The client writes its request, and the server has read some of what was sent.
Asking ==
    \E c \in 1..Calls, n \in Bodies :
        LET e == ev["client"] IN
        /\ c = call /\ e.wbuf = Frame("client", c, n) /\ e.wlen < Header + n
        /\ Got("client") = <<>>
        /\ \/ ev["server"].type = "idle"
           \/ /\ Reading("server") /\ Receiving("server", c, n)
              /\ Got("server") = SubSeq(Frame("client", c, n), 1, e.wlen)

\* The request is on its way, with the server's handler, answered in part, or
\* answered in full.
Awaiting ==
    \E c \in 1..Calls, m \in Bodies :
        LET d == ev["server"] IN
        /\ c = call /\ Receiving("client", c, m)
        /\ \/ d.type = "idle"
           \/ /\ Reading("server") /\ Got("client") = <<>>
              /\ \E n \in Bodies : /\ Receiving("server", c, n)
                                   /\ Got("server") = Frame("client", c, n)
           \/ d.type = "READED" /\ d.rbuf[1].call = c /\ Got("client") = <<>>
           \/ /\ Writing("server") /\ d.wbuf = Frame("server", c, m)
              /\ Got("client") = SubSeq(Frame("server", c, m), 1, d.wlen)
           \/ /\ Reading("server") /\ Got("server") = <<>>
              /\ Got("client") = Frame("server", c, m)

ClientOK ==
    /\ pooled => ev["client"].type = "idle" /\ Quiet
    /\ Writing("client") => Asking
    /\ Reading("client") => Awaiting
    /\ ev["client"].type = "READED" =>
          /\ Quiet /\ call \in 1..Calls
          /\ \E m \in Bodies : ev["client"].rbuf = Frame("server", call, m)

\* WholeFrame and OwnAnswer follow from where the frames are: at most one is on the
\* connection, and each end knows how much of it there is.
WireInv == WireTypeOK /\ ServerOK /\ ClientOK

-----------------------------------------------------------------------------
(***************************************************************************)
(* Frames, and sequences that are cut in two.                              *)
(***************************************************************************)

LEMMA FrameIsSeq ==
  ASSUME NEW s \in End, NEW c \in Nat, NEW n \in Nat
  PROVE  /\ Frame(s, c, n) \in Seq(Byte)
         /\ Len(Frame(s, c, n)) = Header + n
         /\ \A j \in 1..(Header + n) : Frame(s, c, n)[j] = [who |-> s, call |-> c, body |-> n, i |-> j]
<1> DEFINE f == Frame(s, c, n)
<1>1. Header + n \in Nat /\ Header \in Nat
  BY WireAssumption
<1>2. \A j \in 1..(Header + n) : f[j] = [who |-> s, call |-> c, body |-> n, i |-> j]
  BY Zenon DEF Frame
<1>3. f \in [1..(Header + n) -> Byte]
  BY <1>1 DEF Frame, Byte
<1>4. f \in Seq(Byte)
  BY <1>1, <1>3, SeqDef, Zenon
<1>5. DOMAIN f = 1..Len(f) /\ Len(f) \in Nat
  BY <1>4, LenProperties, Zenon
<1>6. DOMAIN f = 1..(Header + n)
  BY Zenon DEF Frame
<1> QED BY <1>1, <1>2, <1>4, <1>5, <1>6

LEMMA Assoc ==
  ASSUME NEW q \in Seq(Byte), NEW r \in Seq(Byte), NEW t \in Seq(Byte)
  PROVE  (q \o r) \o t = q \o (r \o t)
BY ConcatAssociative

\* recv() moves bytes from the front of the stream to the end of the buffer.
LEMMA Moved ==
  ASSUME NEW q \in Seq(Byte), NEW r \in Seq(Byte), NEW k \in 1..Len(r)
  PROVE  /\ SubSeq(r, 1, k) \in Seq(Byte) /\ Len(SubSeq(r, 1, k)) = k
         /\ SubSeq(r, k + 1, Len(r)) \in Seq(Byte)
         /\ (q \o SubSeq(r, 1, k)) \o SubSeq(r, k + 1, Len(r)) = q \o r
<1>1. Len(r) \in Nat /\ \A j \in 1..Len(r) : r[j] \in Byte
  BY LenProperties, ElementOfSeq, Zenon
<1>2. SubSeq(r, 1, k) \in Seq(Byte) /\ Len(SubSeq(r, 1, k)) = k
  BY <1>1, SubSeqProperties
<1>3. SubSeq(r, k + 1, Len(r)) \in Seq(Byte)
  BY <1>1, SubSeqProperties
<1>4. SubSeq(r, 1, k) \o SubSeq(r, k + 1, Len(r)) = SubSeq(r, 1, Len(r))
  BY <1>1, ConcatAdjacentSubSeq
<1>5. SubSeq(r, 1, Len(r)) = r
  BY SubSeqFull, Zenon
<1>6. (q \o SubSeq(r, 1, k)) \o SubSeq(r, k + 1, Len(r))
        = q \o (SubSeq(r, 1, k) \o SubSeq(r, k + 1, Len(r)))
  <2> DEFINE u == SubSeq(r, 1, k)
             v == SubSeq(r, k + 1, Len(r))
  <2>1. u \in Seq(Byte) /\ v \in Seq(Byte)
    BY <1>2, <1>3, Zenon
  <2> HIDE DEF u, v
  <2>2. (q \o u) \o v = q \o (u \o v)
    BY <2>1, Assoc, Zenon
  <2> QED BY <2>2, Zenon DEF u, v
<1> QED BY <1>2, <1>3, <1>4, <1>5, <1>6, Zenon

\* q and r together are the first a bytes of f, and t is r with those up to b.
Are(q, r, f, a)       == q \o r = SubSeq(f, 1, a)
Longer(t, r, f, a, b) == t = r \o SubSeq(f, a + 1, b)

\* send() puts the next bytes of its buffer behind those that are on the way.
LEMMA Sent ==
  ASSUME NEW q \in Seq(Byte), NEW r \in Seq(Byte), NEW f \in Seq(Byte),
         NEW a \in Nat, NEW b \in Nat, a <= b, b <= Len(f), Are(q, r, f, a),
         NEW t, Longer(t, r, f, a, b)
  PROVE  t \in Seq(Byte) /\ Are(q, t, f, b) /\ Len(SubSeq(f, 1, b)) = b
<1> USE DEF Are, Longer
<1>1. Len(f) \in Nat /\ \A j \in 1..Len(f) : f[j] \in Byte
  BY LenProperties, ElementOfSeq, Zenon
<1>2. SubSeq(f, a + 1, b) \in Seq(Byte)
  BY <1>1, SubSeqProperties
<1>3. Len(SubSeq(f, 1, b)) = b
  BY <1>1, SubSeqProperties
<1>4. SubSeq(f, 1, a) \o SubSeq(f, a + 1, b) = SubSeq(f, 1, b)
  <2>1. 1 \in 1..(Len(f) + 1) /\ a \in (1 - 1)..Len(f) /\ b \in a..Len(f)
    BY <1>1
  <2> QED BY <2>1, ConcatAdjacentSubSeq, Zenon
<1>5. (q \o r) \o SubSeq(f, a + 1, b) = q \o (r \o SubSeq(f, a + 1, b))
  BY <1>2, Assoc, Zenon
<1>6. r \o SubSeq(f, a + 1, b) \in Seq(Byte)
  BY <1>2, ConcatProperties, Zenon
<1> QED BY <1>3, <1>4, <1>5, <1>6, Zenon

\* Two sequences that together begin a third.
LEMMA Begins ==
  ASSUME NEW q \in Seq(Byte), NEW r \in Seq(Byte), NEW f \in Seq(Byte),
         Len(q \o r) <= Len(f), q \o r = SubSeq(f, 1, Len(q \o r))
  PROVE  /\ Len(q \o r) = Len(q) + Len(r) /\ Len(q) \in Nat /\ Len(r) \in Nat
         /\ \A j \in 1..Len(q) : q[j] = f[j]
         /\ Len(q) = Len(f) => q = f /\ r = <<>>
<1>1. /\ Len(q \o r) = Len(q) + Len(r)
      /\ \A j \in 1..(Len(q) + Len(r)) : (q \o r)[j] = IF j <= Len(q) THEN q[j] ELSE r[j - Len(q)]
  BY ConcatProperties
<1>2. Len(q) \in Nat /\ Len(r) \in Nat /\ Len(f) \in Nat
  BY LenProperties, Zenon
<1>3. \A j \in 1..Len(f) : f[j] \in Byte
  BY ElementOfSeq, Zenon
<1>4. \A j \in 1..(Len(q) + Len(r)) : (q \o r)[j] = f[j]
  <2>1. \A j \in 1..(Len(q) + Len(r)) : f[j] \in Byte
    BY <1>1, <1>2, <1>3
  <2>2. \A j \in 1..(Len(q) + Len(r) - 1 + 1) : SubSeq(f, 1, Len(q) + Len(r))[j] = f[1 + j - 1]
    BY <1>2, <2>1, SubSeqProperties
  <2> QED BY <1>1, <1>2, <2>2
<1>5. \A j \in 1..Len(q) : q[j] = f[j]
  BY <1>1, <1>2, <1>4
<1>6. ASSUME Len(q) = Len(f) PROVE q = f /\ r = <<>>
  <2>1. q = f
    BY <1>5, <1>6, SeqEqual, Zenon
  <2>2. Len(r) = 0
    BY <1>1, <1>2, <1>6
  <2> QED BY <2>1, <2>2, EmptySeq, Zenon
<1> QED BY <1>1, <1>2, <1>5, <1>6, Zenon

-----------------------------------------------------------------------------
(***************************************************************************)
(* One end reads.                                                          *)
(***************************************************************************)

ReadStep(s) == StartRead(s) \/ Recv(s) \/ ReadAll(s) \/ Again(s)

LEMMA Ends ==
  /\ End = {"client", "server"} /\ Peer("client") = "server" /\ Peer("server") = "client"
  /\ \A s \in End : Peer(s) \in End /\ Peer(s) # s
BY Zenon DEF End, Peer

\* An update of some fields of an event.
LEMMA EventUpdated ==
  ASSUME NEW e \in [End -> Events], NEW s \in End,
         NEW t \in Types, NEW l \in Nat, NEW q \in Seq(Byte)
  PROVE  /\ [e EXCEPT ![s].type = t] \in [End -> Events]
         /\ [e EXCEPT ![s].rlen = l] \in [End -> Events]
         /\ [e EXCEPT ![s].wlen = l] \in [End -> Events]
         /\ [e EXCEPT ![s].rbuf = q] \in [End -> Events]
         /\ [e EXCEPT ![s].wbuf = q] \in [End -> Events]
<1>1. /\ [e[s] EXCEPT !.type = t] \in Events /\ [e[s] EXCEPT !.rlen = l] \in Events
      /\ [e[s] EXCEPT !.wlen = l] \in Events
      /\ [e[s] EXCEPT !.rbuf = q] \in Events /\ [e[s] EXCEPT !.wbuf = q] \in Events
  BY Zenon DEF Events
<1> QED BY <1>1, Zenon

LEMMA EventUpdatedTwice ==
  ASSUME NEW e \in [End -> Events], NEW s \in End
  PROVE  /\ \A t \in Types, l \in Nat : [e EXCEPT ![s].type = t, ![s].rlen = l] \in [End -> Events]
         /\ \A q \in Seq(Byte), t \in Types :
               /\ [e EXCEPT ![s].rbuf = q, ![s].type = t] \in [End -> Events]
               /\ [e EXCEPT ![s].type = t, ![s].wbuf = q] \in [End -> Events]
         /\ \A q \in Seq(Byte), l \in Nat : [e EXCEPT ![s].rbuf = q, ![s].rlen = l] \in [End -> Events]
<1> SUFFICES ASSUME NEW t \in Types, NEW l \in Nat, NEW q \in Seq(Byte)
    PROVE  /\ [e EXCEPT ![s].type = t, ![s].rlen = l] \in [End -> Events]
           /\ [e EXCEPT ![s].rbuf = q, ![s].type = t] \in [End -> Events]
           /\ [e EXCEPT ![s].type = t, ![s].wbuf = q] \in [End -> Events]
           /\ [e EXCEPT ![s].rbuf = q, ![s].rlen = l] \in [End -> Events]
  <2>1. "idle" \in Types /\ 0 \in Nat /\ <<>> \in Seq(Byte)
    BY EmptySeq, Zenon DEF Types
  <2> QED BY <2>1, Zenon
<1>1. ASSUME NEW d \in [End -> Events]
      PROVE  /\ [d EXCEPT ![s].rlen = l] \in [End -> Events]
             /\ [d EXCEPT ![s].type = t] \in [End -> Events]
             /\ [d EXCEPT ![s].wbuf = q] \in [End -> Events]
  BY EventUpdated, Zenon
<1>2. [e EXCEPT ![s].type = t] \in [End -> Events] /\ [e EXCEPT ![s].rbuf = q] \in [End -> Events]
  BY EventUpdated, Zenon
<1>3. [e EXCEPT ![s].type = t, ![s].rlen = l] \in [End -> Events]
  BY <1>1, <1>2, Zenon
<1>4. [e EXCEPT ![s].rbuf = q, ![s].type = t] \in [End -> Events]
  BY <1>1, <1>2, Zenon
<1>5. [e EXCEPT ![s].rbuf = q, ![s].rlen = l] \in [End -> Events]
  BY <1>1, <1>2, Zenon
<1>6. [e EXCEPT ![s].type = t, ![s].wbuf = q] \in [End -> Events]
  BY <1>1, <1>2, Zenon
<1> QED BY <1>3, <1>4, <1>5, <1>6, Zenon

\* What the invariant says of the frame that s reads.
LEMMA ReceivingFacts ==
  ASSUME WireTypeOK, NEW s \in End, NEW c \in Nat, NEW n \in Nat, Receiving(s, c, n)
  PROVE  /\ Len(ev[s].rbuf) \in Nat /\ Len(stream[s]) \in Nat
         /\ Len(Got(s)) = Len(ev[s].rbuf) + Len(stream[s])
         /\ Len(ev[s].rbuf) + Len(stream[s]) <= Header + n
         /\ \A j \in 1..Len(ev[s].rbuf) :
               ev[s].rbuf[j] = [who |-> Peer(s), call |-> c, body |-> n, i |-> j]
         /\ Len(ev[s].rbuf) = Header + n =>
               ev[s].rbuf = Frame(Peer(s), c, n) /\ stream[s] = <<>>
<1>0. Peer(s) \in End /\ Header \in Nat
  BY Ends, WireAssumption, Zenon
<1> DEFINE f == Frame(Peer(s), c, n)
<1>1. /\ f \in Seq(Byte) /\ Len(f) = Header + n
      /\ \A j \in 1..(Header + n) : f[j] = [who |-> Peer(s), call |-> c, body |-> n, i |-> j]
  <2>1. ASSUME NEW p \in End
        PROVE  /\ Frame(p, c, n) \in Seq(Byte) /\ Len(Frame(p, c, n)) = Header + n
               /\ \A j \in 1..(Header + n) :
                     Frame(p, c, n)[j] = [who |-> p, call |-> c, body |-> n, i |-> j]
    BY FrameIsSeq
  <2> QED BY <1>0, <2>1, Zenon
<1>2. ev[s].rbuf \in Seq(Byte) /\ stream[s] \in Seq(Byte)
  BY Zenon DEF WireTypeOK, Events
<1>3. Len(Got(s)) <= Len(f) /\ Got(s) = SubSeq(f, 1, Len(Got(s)))
  BY <1>1, Zenon DEF Receiving
<1> HIDE DEF f
<1>4. /\ Len(Got(s)) = Len(ev[s].rbuf) + Len(stream[s])
      /\ Len(ev[s].rbuf) \in Nat /\ Len(stream[s]) \in Nat
      /\ \A j \in 1..Len(ev[s].rbuf) : ev[s].rbuf[j] = f[j]
      /\ Len(ev[s].rbuf) = Len(f) => ev[s].rbuf = f /\ stream[s] = <<>>
  <2> DEFINE q == ev[s].rbuf
             r == stream[s]
  <2>1. q \in Seq(Byte) /\ r \in Seq(Byte) /\ f \in Seq(Byte)
    BY <1>1, <1>2, Zenon
  <2>2. Len(q \o r) <= Len(f) /\ q \o r = SubSeq(f, 1, Len(q \o r))
    BY <1>3, Zenon DEF Got
  <2> HIDE DEF q, r
  <2>3. /\ Len(q \o r) = Len(q) + Len(r) /\ Len(q) \in Nat /\ Len(r) \in Nat
        /\ \A j \in 1..Len(q) : q[j] = f[j]
        /\ Len(q) = Len(f) => q = f /\ r = <<>>
    BY <2>1, <2>2, Begins, Zenon
  <2> QED BY <2>3, Zenon DEF q, r, Got
<1>5. Len(ev[s].rbuf) + Len(stream[s]) <= Header + n
  BY <1>1, <1>3, <1>4, Zenon
<1>6. ASSUME NEW j \in 1..Len(ev[s].rbuf) PROVE j \in 1..(Header + n)
  <2>1. \A x, y, z \in Nat : x + y <= z => x <= z
    OBVIOUS
  <2>2. Header + n \in Nat
    BY <1>0
  <2>3. Len(ev[s].rbuf) \in Nat /\ Len(ev[s].rbuf) <= Header + n
    BY <1>4, <1>5, <2>1, <2>2, Zenon
  <2> QED BY <2>2, <2>3
<1> QED BY <1>1, <1>4, <1>5, <1>6, Zenon DEF f

\* What a step of s leaves alone.
OthersSame(s) ==
    /\ UNCHANGED <<framing, open, pooled, call>>
    /\ ev'[Peer(s)] = ev[Peer(s)] /\ at'[Peer(s)] = at[Peer(s)]
    /\ stream'[Peer(s)] = stream[Peer(s)]
    /\ ev'[s].wbuf = ev[s].wbuf /\ ev'[s].wlen = ev[s].wlen

\* s has the whole frame.
Done(s, c, n) ==
    ev[s].type = "READED" /\ ev[s].rbuf = Frame(Peer(s), c, n) /\ stream[s] = <<>>

LEMMA StartReadKeeps ==
  ASSUME WireTypeOK, NEW s \in End, NEW c \in Nat, NEW n \in Nat,
         Reading(s), Receiving(s, c, n), StartRead(s)
  PROVE  WireTypeOK' /\ OthersSame(s) /\ Got(s)' = Got(s) /\ Reading(s)' /\ Receiving(s, c, n)'
<1>1. Peer(s) \in End /\ Peer(s) # s /\ Header \in Nat /\ Header # 0
  BY Ends, WireAssumption, Zenon
<1>2. /\ ev'[s].rbuf = ev[s].rbuf /\ ev'[s].type = "READING" /\ at[s] = "out" /\ at'[s] = "first"
      /\ ev'[s].rlen = IF framing = "length" /\ ev[s].rbuf = <<>> THEN Header ELSE ev[s].rlen
      /\ stream' = stream /\ framing' = framing
  BY DEF StartRead, Readable, WireTypeOK
<1>3. WireTypeOK' /\ OthersSame(s)
  <2> DEFINE v == IF framing = "length" /\ ev[s].rbuf = <<>> THEN Header ELSE ev[s].rlen
  <2>1. v \in Nat
    BY <1>1, Zenon DEF WireTypeOK, Events
  <2>2. ev' = [ev EXCEPT ![s].type = "READING", ![s].rlen = v]
    BY Zenon DEF StartRead
  <2> HIDE DEF v
  <2>3. ev' \in [End -> Events]
    <3>1. "READING" \in Types /\ ev \in [End -> Events]
      BY Zenon DEF Types, WireTypeOK
    <3> QED BY <2>1, <2>2, <3>1, EventUpdatedTwice, Zenon
  <2>4. \A t \in End : at'[t] # "out" => ev'[t].type = "READING"
    BY <2>2 DEF StartRead, WireTypeOK
  <2>5. WireTypeOK'
    BY <2>3, <2>4, Zenon DEF StartRead, WireTypeOK
  <2>6. OthersSame(s)
    BY <1>1, <2>2 DEF StartRead, WireTypeOK, OthersSame
  <2> QED BY <2>5, <2>6, Zenon
<1>4. Got(s)' = Got(s) /\ Reading(s)'
  BY <1>2, Zenon DEF Got, Reading
<1>5. ASSUME framing = "length" PROVE Counted("first", Len(ev[s].rbuf), ev'[s].rlen, n)
  <2>1. CASE ev[s].rbuf = <<>>
    <3>1. Len(ev[s].rbuf) = 0
      BY <2>1, EmptySeq, Zenon
    <3> QED BY <1>1, <1>2, <1>5, <2>1, <3>1 DEF Counted
  <2>2. CASE ev[s].rbuf # <<>>
    <3>1. Counted("out", Len(ev[s].rbuf), ev[s].rlen, n)
      BY <1>2, <1>5, <2>2, Zenon DEF Receiving
    <3>2. \A h, l : Counted("out", h, l, n) => Counted("first", h, l, n)
      BY Zenon DEF Counted
    <3> QED BY <1>2, <2>2, <3>1, <3>2, Zenon
  <2> QED BY <2>1, <2>2, Zenon
<1>6. Receiving(s, c, n)'
  BY <1>2, <1>4, <1>5, Zenon DEF Receiving
<1> QED BY <1>3, <1>4, <1>6, Zenon

LEMMA AgainKeeps ==
  ASSUME WireTypeOK, NEW s \in End, NEW c \in Nat, NEW n \in Nat,
         Reading(s), Receiving(s, c, n), Again(s)
  PROVE  WireTypeOK' /\ OthersSame(s) /\ Got(s)' = Got(s) /\ Reading(s)' /\ Receiving(s, c, n)'
<1>1. Peer(s) \in End /\ Peer(s) # s /\ Header \in Nat /\ Header # 0
  BY Ends, WireAssumption, Zenon
<1>2. ev' = ev /\ stream' = stream /\ framing' = framing /\ at[s] # "out" /\ at'[s] = "out"
  BY Zenon DEF Again, WireTypeOK
<1>3. WireTypeOK' /\ OthersSame(s)
  BY <1>1, Zenon DEF Again, WireTypeOK, OthersSame
<1>4. Got(s)' = Got(s) /\ Reading(s)'
  BY <1>2, Zenon DEF Got, Reading
<1>5. ASSUME framing = "length" PROVE Counted("out", Len(ev[s].rbuf), ev[s].rlen, n)
  <2>1. Counted(at[s], Len(ev[s].rbuf), ev[s].rlen, n)
    BY <1>2, <1>5, Zenon DEF Receiving
  <2>2. ev[s].rlen # 0
    BY <1>5 DEF Again, Asked, WireTypeOK
  <2> QED BY <2>1, <2>2, Zenon DEF Counted
<1>6. Receiving(s, c, n)'
  BY <1>2, <1>4, <1>5, Zenon DEF Receiving
<1> QED BY <1>3, <1>4, <1>6, Zenon

LEMMA ReadAllKeeps ==
  ASSUME WireTypeOK, NEW s \in End, NEW c \in Nat, NEW n \in Nat,
         Reading(s), Receiving(s, c, n), ReadAll(s)
  PROVE  /\ WireTypeOK' /\ OthersSame(s) /\ Got(s)' = Got(s)
         /\ (Reading(s)' /\ Receiving(s, c, n)') \/ Done(s, c, n)'
<1> DEFINE have == Len(ev[s].rbuf)
<1>1. Peer(s) \in End /\ Peer(s) # s /\ Header \in Nat /\ Header # 0
  BY Ends, WireAssumption, Zenon
<1>2. /\ have \in Nat
      /\ \A j \in 1..have : ev[s].rbuf[j] = [who |-> Peer(s), call |-> c, body |-> n, i |-> j]
      /\ have = Header + n => ev[s].rbuf = Frame(Peer(s), c, n) /\ stream[s] = <<>>
  BY ReceivingFacts, Zenon
<1>3. framing = "length" /\ at[s] # "out" /\ ev[s].rlen = 0 /\ stream' = stream /\ framing' = framing
  BY Zenon DEF ReadAll
<1>4. Counted(at[s], have, 0, n)
  BY <1>3, Zenon DEF Receiving
<1> HIDE DEF have
<1>5. CASE at[s] = "first" /\ have = Header
  <2>0. 1 \in 1..have
    BY <1>1, <1>5
  <2>1. ev[s].rbuf[1].i = 1 /\ ev[s].rbuf[1].body = n
    <3>1. ev[s].rbuf[1] = [who |-> Peer(s), call |-> c, body |-> n, i |-> 1]
      BY <1>2, <2>0, Zenon
    <3> QED BY <3>1
  <2>2. ev' = [ev EXCEPT ![s].rlen = n] /\ at' = [at EXCEPT ![s] = "second"]
    BY <1>5, <2>1, Zenon DEF ReadAll, bodyLength, have
  <2>3. ev' \in [End -> Events]
    BY <2>2, EventUpdated, EmptySeq, Zenon DEF WireTypeOK, Types
  <2>4. ev'[s].rbuf = ev[s].rbuf /\ ev'[s].rlen = n /\ ev'[s].type = ev[s].type /\ at'[s] = "second"
    BY <2>2, Zenon DEF WireTypeOK, Events
  <2>5. \A t \in End : at'[t] # "out" => ev'[t].type = "READING"
    BY <1>3, <2>2, <2>4, Zenon DEF WireTypeOK
  <2>6. WireTypeOK'
    BY <2>2, <2>3, <2>5, Zenon DEF ReadAll, WireTypeOK
  <2>7. OthersSame(s)
    BY <1>1, <2>2 DEF ReadAll, WireTypeOK, OthersSame, Events
  <2>8. Got(s)' = Got(s) /\ Reading(s)'
    BY <1>3, <2>4, Zenon DEF Got, Reading
  <2>9. Counted("second", have, n, n)
    BY <1>1, <1>5 DEF Counted
  <2>10. Receiving(s, c, n)'
    BY <1>3, <2>4, <2>8, <2>9, Zenon DEF Receiving, have
  <2> QED BY <2>6, <2>7, <2>8, <2>10, Zenon
<1>6. CASE ~(at[s] = "first" /\ have = Header)
  <2>1. have = Header + n
    <3>1. have \in Nat /\ at[s] \in {"first", "second"}
      BY <1>2, <1>3, Zenon DEF WireTypeOK, Receiving
    <3> QED BY ONLY <1>1, <1>4, <1>6, <3>1, n \in Nat DEF Counted
  <2>2. ev' = [ev EXCEPT ![s].type = "READED"] /\ at' = [at EXCEPT ![s] = "out"]
    BY <1>6, Zenon DEF ReadAll, have
  <2>3. ev' \in [End -> Events]
    BY <2>2, EventUpdated, EmptySeq, Zenon DEF WireTypeOK, Types
  <2>4. ev'[s].rbuf = ev[s].rbuf /\ ev'[s].type = "READED"
    BY <2>2, Zenon DEF WireTypeOK, Events
  <2>5. \A t \in End : at'[t] # "out" => ev'[t].type = "READING"
    BY <2>2, Zenon DEF WireTypeOK
  <2>6. WireTypeOK'
    BY <2>2, <2>3, <2>5, Zenon DEF ReadAll, WireTypeOK
  <2>7. OthersSame(s)
    BY <1>1, <2>2 DEF ReadAll, WireTypeOK, OthersSame, Events
  <2>8. Got(s)' = Got(s)
    BY <1>3, <2>4, Zenon DEF Got
  <2>9. Done(s, c, n)'
    BY <1>2, <1>3, <2>1, <2>4, Zenon DEF Done
  <2> QED BY <2>6, <2>7, <2>8, <2>9, Zenon
<1> QED BY <1>5, <1>6, Zenon

LEMMA CountedDown ==
  ASSUME NEW a \in {"first", "second"}, NEW h \in Nat, NEW l \in Nat, NEW n \in Nat,
         NEW k \in Nat, k # 0, k <= l, Counted(a, h, l, n)
  PROVE  Counted(a, h + k, l - k, n)
BY WireAssumption DEF Counted

LEMMA RecvKeeps ==
  ASSUME WireTypeOK, NEW s \in End, NEW c \in Nat, NEW n \in Nat,
         Reading(s), Receiving(s, c, n), Recv(s)
  PROVE  /\ WireTypeOK' /\ OthersSame(s) /\ Got(s)' = Got(s)
         /\ (Reading(s)' /\ Receiving(s, c, n)') \/ Done(s, c, n)'
<1> DEFINE q == ev[s].rbuf
           r == stream[s]
           l == ev[s].rlen
           f == Frame(Peer(s), c, n)
<1>1. Peer(s) \in End /\ Peer(s) # s /\ Header \in Nat /\ Header # 0
  BY Ends, WireAssumption, Zenon
<1>2. q \in Seq(Byte) /\ r \in Seq(Byte) /\ l \in Nat /\ ev \in [End -> Events]
  BY Zenon DEF WireTypeOK, Events
<1>3. Len(q) \in Nat /\ Len(r) \in Nat
  BY <1>2, LenProperties, Zenon
<1>4. /\ f \in Seq(Byte) /\ Len(f) = Header + n
      /\ \A j \in 1..(Header + n) : f[j] = [who |-> Peer(s), call |-> c, body |-> n, i |-> j]
  <2>1. ASSUME NEW p \in End
        PROVE  /\ Frame(p, c, n) \in Seq(Byte) /\ Len(Frame(p, c, n)) = Header + n
               /\ \A j \in 1..(Header + n) :
                     Frame(p, c, n)[j] = [who |-> p, call |-> c, body |-> n, i |-> j]
    BY FrameIsSeq
  <2> QED BY <1>1, <2>1, Zenon
<1>5. PICK k \in 1..Len(r) :
        LET buf == q \o SubSeq(r, 1, k) IN
        /\ k <= Asked(s)
        /\ stream' = [stream EXCEPT ![s] = SubSeq(r, k + 1, Len(r))]
        /\ IF framing = "length"
             THEN ev' = [ev EXCEPT ![s].rbuf = buf, ![s].rlen = l - k] /\ UNCHANGED at
           ELSE IF \E i \in 1..Len(buf) : IsMark(buf[i])
             THEN /\ ev' = [ev EXCEPT ![s].rbuf = buf, ![s].type = "READED"]
                  /\ at' = [at EXCEPT ![s] = "out"]
           ELSE /\ ev' = [ev EXCEPT ![s].rbuf = buf]
                /\ at' = [at EXCEPT ![s] = IF Len(q) < Chunk THEN @ ELSE "lost"]
  BY Zenon DEF Recv, WireTypeOK
<1>6. at[s] # "out" /\ ev[s].type = "READING" /\ UNCHANGED <<framing, open, pooled, call>>
  BY Zenon DEF Recv, WireTypeOK
<1> DEFINE buf  == q \o SubSeq(r, 1, k)
           rest == SubSeq(r, k + 1, Len(r))
<1>7. /\ buf \in Seq(Byte) /\ Len(buf) = Len(q) + k /\ rest \in Seq(Byte)
      /\ buf \o rest = q \o r
  <2> HIDE DEF q, r
  <2>1. /\ SubSeq(r, 1, k) \in Seq(Byte) /\ Len(SubSeq(r, 1, k)) = k
        /\ rest \in Seq(Byte) /\ buf \o rest = q \o r
    BY <1>2, Moved, Zenon
  <2>2. buf \in Seq(Byte) /\ Len(buf) = Len(q) + Len(SubSeq(r, 1, k))
    BY <1>2, <2>1, ConcatProperties, Zenon
  <2> QED BY <2>1, <2>2, Zenon
<1>8. /\ Len(q \o r) <= Header + n /\ q \o r = SubSeq(f, 1, Len(q \o r))
      /\ framing = "length" => Counted(at[s], Len(q), l, n)
  BY <1>6, Zenon DEF Receiving, Got
<1>9. stream'[s] = rest /\ ev'[s].rbuf = buf
  <2>1. stream' = [stream EXCEPT ![s] = rest]
    BY <1>5, Zenon
  <2>2. \/ ev' = [ev EXCEPT ![s].rbuf = buf, ![s].rlen = l - k]
        \/ ev' = [ev EXCEPT ![s].rbuf = buf, ![s].type = "READED"]
        \/ ev' = [ev EXCEPT ![s].rbuf = buf]
    BY <1>5, Zenon
  <2> HIDE DEF buf, rest
  <2> QED BY <1>2, <2>1, <2>2 DEF WireTypeOK, Events
<1>10. Got(s)' = Got(s)
  BY <1>7, <1>9, Zenon DEF Got
<1>a. k \in Nat /\ k # 0
  BY <1>3
<1> HIDE DEF q, r, l, f, buf, rest
<1>11. /\ Len(buf) \in Nat /\ Len(rest) \in Nat /\ Len(buf) + Len(rest) <= Header + n
       /\ \A j \in 1..Len(buf) : buf[j] = f[j]
       /\ Len(buf) = Header + n => buf = f /\ rest = <<>>
  <2>1. Len(buf \o rest) <= Len(f) /\ buf \o rest = SubSeq(f, 1, Len(buf \o rest))
    BY <1>4, <1>7, <1>8, Zenon
  <2>2. /\ Len(buf \o rest) = Len(buf) + Len(rest) /\ Len(buf) \in Nat /\ Len(rest) \in Nat
        /\ \A j \in 1..Len(buf) : buf[j] = f[j]
        /\ Len(buf) = Len(f) => buf = f /\ rest = <<>>
    BY <1>4, <1>7, <2>1, Begins, Zenon
  <2> QED BY <1>4, <2>1, <2>2, Zenon
<1>12. stream' \in [End -> Seq(Byte)]
  BY <1>5, <1>7, Zenon DEF WireTypeOK, rest, r
<1>13. stream'[Peer(s)] = stream[Peer(s)]
  BY <1>1, <1>5, Zenon DEF WireTypeOK
<1>14. CASE framing = "length"
  <2>1. ev' = [ev EXCEPT ![s].rbuf = buf, ![s].rlen = l - k] /\ at' = at
    BY <1>5, <1>14, Zenon DEF buf
  <2>2. k <= l
    BY <1>5, <1>14, Zenon DEF Asked, l
  <2>3. l - k \in Nat
    BY <1>2, <1>a, <2>2
  <2>4. ev' \in [End -> Events]
    BY <1>2, <1>7, <2>1, <2>3, EventUpdatedTwice, Zenon
  <2>5. ev'[s].rlen = l - k /\ ev'[s].type = "READING"
    BY <1>2, <1>6, <2>1, Zenon DEF Events
  <2>6. WireTypeOK'
    BY <1>6, <1>12, <2>1, <2>4, <2>5, Zenon DEF WireTypeOK
  <2>7. OthersSame(s)
    BY <1>1, <1>2, <1>6, <1>13, <2>1, Zenon DEF OthersSame, Events
  <2>8. Counted(at[s], Len(buf), l - k, n)
    <3>1. Counted(at[s], Len(q), l, n) /\ Len(buf) = Len(q) + k
      BY <1>7, <1>8, <1>14, Zenon
    <3>2. at[s] \in {"first", "second"}
      BY <1>6, <1>14, Zenon DEF WireTypeOK, Receiving
    <3> QED BY <1>2, <1>3, <1>a, <2>2, <3>1, <3>2, CountedDown, Zenon
  <2>9. Receiving(s, c, n)'
    <3>1. at'[s] # "lost"
      BY <1>14, <2>1, Zenon DEF Receiving
    <3> QED BY <1>6, <1>8, <1>9, <1>10, <1>14, <2>1, <2>5, <2>8, <3>1, Zenon
            DEF Receiving, Got, q, r, f
  <2>10. Reading(s)'
    BY <2>5, Zenon DEF Reading
  <2> QED BY <1>10, <2>6, <2>7, <2>9, <2>10, Zenon
<1>15. CASE framing = "mark" /\ \E i \in 1..Len(buf) : IsMark(buf[i])
  <2>1. ev' = [ev EXCEPT ![s].rbuf = buf, ![s].type = "READED"] /\ at' = [at EXCEPT ![s] = "out"]
    BY <1>5, <1>15, Zenon DEF buf
  <2>2. ev' \in [End -> Events]
    <3>1. "READED" \in Types
      BY Zenon DEF Types
    <3> QED BY <1>2, <1>7, <2>1, <3>1, EventUpdatedTwice, Zenon
  <2>3. ev'[s].type = "READED"
    BY <1>2, <2>1, Zenon DEF Events
  <2>4. \A t \in End : at'[t] # "out" => ev'[t].type = "READING"
    BY <2>1, Zenon DEF WireTypeOK
  <2>5. WireTypeOK'
    BY <1>6, <1>12, <2>1, <2>2, <2>4, Zenon DEF WireTypeOK
  <2>6. OthersSame(s)
    BY <1>1, <1>2, <1>6, <1>13, <2>1 DEF OthersSame, Events, WireTypeOK
  <2>7. Len(buf) = Header + n
    <3>1. PICK j \in 1..Len(buf) : IsMark(buf[j])
      BY <1>15, Zenon
    <3>2. j \in 1..(Header + n)
      BY <1>1, <1>11
    <3>3. buf[j] = [who |-> Peer(s), call |-> c, body |-> n, i |-> j]
      BY <1>4, <1>11, <3>2, Zenon
    <3>4. j = Header + n
      BY <3>1, <3>3 DEF IsMark
    <3> QED BY <1>1, <1>11, <3>4
  <2>8. Done(s, c, n)'
    BY <1>9, <1>11, <2>3, <2>7, Zenon DEF Done, f
  <2> QED BY <1>10, <2>5, <2>6, <2>8, Zenon
<1>16. CASE framing = "mark" /\ ~\E i \in 1..Len(buf) : IsMark(buf[i])
  <2>1. /\ ev' = [ev EXCEPT ![s].rbuf = buf]
        /\ at' = [at EXCEPT ![s] = IF Len(q) < Chunk THEN @ ELSE "lost"]
    BY <1>5, <1>16, Zenon DEF buf
  <2>2. ev' \in [End -> Events]
    <3>1. "idle" \in Types /\ 0 \in Nat
      BY Zenon DEF Types
    <3> QED BY <1>2, <1>7, <2>1, <3>1, EventUpdated, Zenon
  <2>3. ev'[s].type = "READING" /\ at \in [End -> {"out", "first", "second", "lost"}]
    BY <1>2, <1>6, <2>1, Zenon DEF Events, WireTypeOK
  <2>a. /\ at' \in [End -> {"out", "first", "second", "lost"}]
        /\ at'[Peer(s)] = at[Peer(s)]
        /\ at'[s] = IF Len(q) < Chunk THEN at[s] ELSE "lost"
    BY <1>1, <2>1, <2>3, Zenon
  <2>b. \A t \in End : at'[t] # "out" => ev'[t].type = "READING"
    BY <1>2, <2>1, <2>3, Zenon DEF WireTypeOK
  <2>4. WireTypeOK'
    BY <1>6, <1>12, <2>2, <2>a, <2>b, Zenon DEF WireTypeOK
  <2>5. OthersSame(s)
    BY <1>1, <1>2, <1>6, <1>13, <2>1, <2>a DEF OthersSame, Events
  <2>6. Len(buf) < Header + n
    <3>1. SUFFICES ASSUME Len(buf) = Header + n PROVE FALSE
      BY <1>1, <1>11
    <3>2. Header + n \in 1..(Header + n)
      BY <1>1
    <3>3. buf[Header + n] = [who |-> Peer(s), call |-> c, body |-> n, i |-> Header + n]
      BY <1>4, <1>11, <3>1, <3>2, Zenon
    <3>4. IsMark(buf[Header + n])
      BY <3>3 DEF IsMark
    <3> QED BY <1>16, <3>1, <3>2, <3>4, Zenon
  <2>7. Receiving(s, c, n)'
    <3>1. at[s] = "lost" => Len(q) > Chunk
      BY Zenon DEF Receiving, q
    <3>2. at'[s] = "lost" => Len(buf) > Chunk
      <4>1. Chunk \in Nat
        BY WireAssumption
      <4> QED BY <1>3, <1>7, <1>a, <2>a, <3>1, <4>1
    <3> QED BY <1>6, <1>8, <1>9, <1>10, <1>16, <2>6, <3>2, Zenon DEF Receiving, Got, q, r, f
  <2>8. Reading(s)'
    BY <2>3, Zenon DEF Reading
  <2> QED BY <1>10, <2>4, <2>5, <2>7, <2>8, Zenon
<1> QED BY <1>14, <1>15, <1>16, Zenon DEF WireTypeOK

\* A step of reading keeps what has arrived, and ends with exactly one frame.
LEMMA ReadKeeps ==
  ASSUME WireTypeOK, NEW s \in End, NEW c \in Nat, NEW n \in Nat,
         Reading(s), Receiving(s, c, n), ReadStep(s)
  PROVE  /\ WireTypeOK' /\ OthersSame(s) /\ Got(s)' = Got(s)
         /\ (Reading(s)' /\ Receiving(s, c, n)') \/ Done(s, c, n)'
BY StartReadKeeps, AgainKeeps, ReadAllKeeps, RecvKeeps, Zenon DEF ReadStep

-----------------------------------------------------------------------------
(***************************************************************************)
(* Both ends together.                                                     *)
(***************************************************************************)

LEMMA Lengths ==
  /\ Header \in Nat /\ Header # 0 /\ Calls \in Nat /\ Calls # 0
  /\ Bodies \subseteq Nat /\ Bodies # {} /\ 1..Calls \subseteq Nat
BY WireAssumption

LEMMA FrameFacts ==
  ASSUME NEW s \in End, NEW c \in Nat, NEW n \in Nat
  PROVE  /\ Frame(s, c, n) \in Seq(Byte) /\ Frame(s, c, n) # <<>>
         /\ Frame(s, c, n) \o <<>> = Frame(s, c, n)
         /\ Frame(s, c, n)[1].call = c
         /\ SubSeq(Frame(s, c, n), 1, 0) = <<>>
         /\ SubSeq(Frame(s, c, n), 1, Header + n) = Frame(s, c, n)
<1> DEFINE f == Frame(s, c, n)
<1>1. /\ f \in Seq(Byte) /\ Len(f) = Header + n
      /\ \A j \in 1..(Header + n) : f[j] = [who |-> s, call |-> c, body |-> n, i |-> j]
  BY FrameIsSeq, Zenon
<1>2. Header + n \in Nat /\ Header + n # 0 /\ 1 \in 1..(Header + n)
  BY Lengths
<1>3. f[1].call = c
  <2>1. f[1] = [who |-> s, call |-> c, body |-> n, i |-> 1]
    BY <1>1, <1>2, Zenon
  <2> QED BY <2>1
<1> HIDE DEF f
<1>4. f # <<>> /\ f \o <<>> = f
  <2>1. Len(<<>>) = 0
    BY EmptySeq, Zenon
  <2> QED BY <1>1, <1>2, <2>1, ConcatEmptySeq, Zenon
<1>5. SubSeq(f, 1, 0) = <<>>
  BY SubSeqEmpty
<1>6. SubSeq(f, 1, Header + n) = f
  BY <1>1, SubSeqFull, Zenon
<1> QED BY <1>1, <1>3, <1>4, <1>5, <1>6, Zenon DEF f

\* A frame is longer than any of its beginnings.
LEMMA FrameCut ==
  ASSUME NEW s \in End, NEW c \in Nat, NEW n \in Nat, NEW k \in Nat, k < Header + n
  PROVE  SubSeq(Frame(s, c, n), 1, k) # Frame(s, c, n)
<1> DEFINE f == Frame(s, c, n)
<1>1. f \in Seq(Byte) /\ Len(f) = Header + n
  BY FrameIsSeq, Zenon
<1> HIDE DEF f
<1>2. \A j \in 1..k : f[j] \in Byte
  BY <1>1, Lengths, ElementOfSeq
<1>3. Len(SubSeq(f, 1, k)) = IF 1 <= k THEN k - 1 + 1 ELSE 0
  BY <1>2, SubSeqProperties
<1>4. Len(SubSeq(f, 1, k)) # Len(f)
  BY <1>1, <1>3, Lengths
<1> QED BY <1>4, Zenon DEF f

\* What is not touched is not changed.
LEMMA ReaderSame ==
  ASSUME NEW s \in End,
         ev'[s].rbuf = ev[s].rbuf, ev'[s].rlen = ev[s].rlen,
         at'[s] = at[s], stream'[s] = stream[s], framing' = framing
  PROVE  /\ Got(s)' = Got(s)
         /\ \A c, n : Receiving(s, c, n) => Receiving(s, c, n)'
BY Zenon DEF Got, Receiving

\* An end to which nothing has come yet waits for any frame.
LEMMA ReceivingAny ==
  ASSUME WireTypeOK, NEW s \in End, NEW c \in Nat, NEW n \in Nat, Got(s) = <<>>,
         at[s] = "out" \/ \E b, m \in Nat : Receiving(s, b, m)
  PROVE  ev[s].rbuf = <<>> /\ stream[s] = <<>> /\ Receiving(s, c, n)
<1>1. ev[s].rbuf \in Seq(Byte) /\ stream[s] \in Seq(Byte) /\ ev[s].rlen \in Nat
  BY Zenon DEF WireTypeOK, Events
<1>2. ev[s].rbuf = <<>> /\ stream[s] = <<>>
  BY <1>1, ConcatEqualIffEmpty DEF Got
<1>3. Len(Got(s)) = 0 /\ Len(ev[s].rbuf) = 0
  BY <1>2, EmptySeq, Zenon
<1>4. Got(s) = SubSeq(Frame(Peer(s), c, n), 1, Len(Got(s)))
  BY <1>3, Ends, FrameFacts
<1>5. ASSUME framing = "length", at[s] # "out" PROVE Counted(at[s], 0, ev[s].rlen, n)
  <2>1. PICK b, m \in Nat : Receiving(s, b, m)
    BY <1>5, Zenon
  <2>2. Counted(at[s], 0, ev[s].rlen, m)
    BY <1>3, <1>5, <2>1, Zenon DEF Receiving
  <2> QED BY <2>2, Lengths DEF Counted
<1>6. 0 < Header + n /\ 0 <= Header + n
  BY Lengths
<1>7. at[s] # "lost"
  <2>1. ~(0 > Chunk)
    BY WireAssumption
  <2> QED BY <1>3, <2>1, Zenon DEF Receiving
<1> QED BY <1>2, <1>3, <1>4, <1>5, <1>6, <1>7, Zenon DEF Receiving

LEMMA ServerReads ==
  ASSUME WireInv, ReadStep("server") PROVE WireInv'
<1> USE Lengths DEF WireInv
<1>1. WireTypeOK /\ "server" \in End /\ "client" \in End /\ Peer("server") = "client"
  BY Ends, Zenon
<1>2. Reading("server")
  BY <1>1, Zenon DEF ReadStep, StartRead, Readable, Recv, ReadAll, Again, WireTypeOK, Reading
<1>3. PICK b \in 1..Calls, o \in Bodies : Receiving("server", b, o)
  BY <1>2, Zenon DEF ServerOK, Reading
<1>4. ASSUME NEW c \in 1..Calls, NEW n \in Bodies, Receiving("server", c, n)
      PROVE  /\ WireTypeOK' /\ OthersSame("server") /\ Got("server")' = Got("server")
             /\ (Reading("server")' /\ Receiving("server", c, n)') \/ Done("server", c, n)'
  <2>1. c \in Nat /\ n \in Nat
    BY Zenon
  <2> QED BY <1>1, <1>2, <1>4, <2>1, ReadKeeps, Zenon
<1>5. WireTypeOK' /\ OthersSame("server") /\ Got("server")' = Got("server")
  BY <1>3, <1>4, Zenon
<1>6. /\ framing' = framing /\ pooled' = pooled /\ call' = call
      /\ ev'["client"] = ev["client"] /\ at'["client"] = at["client"]
      /\ stream'["client"] = stream["client"]
      /\ ev'["server"].wbuf = ev["server"].wbuf /\ ev'["server"].wlen = ev["server"].wlen
  BY <1>1, <1>5, Zenon DEF OthersSame
<1>7. /\ Got("client")' = Got("client")
      /\ \A c, n : Receiving("client", c, n) => Receiving("client", c, n)'
  BY <1>1, <1>6, ReaderSame, Zenon
<1>8. ASSUME NEW c \in 1..Calls, NEW n \in Bodies, Done("server", c, n)'
      PROVE  /\ ev'["server"].type = "READED" /\ ev'["server"].rbuf = Frame("client", c, n)
             /\ stream'["server"] = <<>> /\ Got("server") = Frame("client", c, n)
             /\ ev'["server"].rbuf[1].call = c
  <2>1. c \in Nat /\ n \in Nat
    BY Zenon
  <2>2. /\ ev'["server"].type = "READED" /\ ev'["server"].rbuf = Frame("client", c, n)
        /\ stream'["server"] = <<>>
    BY <1>1, <1>8, Zenon DEF Done
  <2>3. Frame("client", c, n) \o <<>> = Frame("client", c, n) /\ Frame("client", c, n)[1].call = c
    BY <1>1, <2>1, FrameFacts
  <2> QED BY <1>5, <2>2, <2>3, Zenon DEF Got
<1>9. ServerOK'
  <2>1. ev["server"].wbuf = <<>> /\ ev["server"].wlen = 0
    BY <1>2, Zenon DEF ServerOK, Reading
  <2>2. CASE Reading("server")' /\ Receiving("server", b, o)'
    BY <1>6, <2>1, <2>2, Zenon DEF ServerOK
  <2>3. CASE Done("server", b, o)'
    BY <1>6, <1>8, <2>1, <2>3, Zenon DEF ServerOK
  <2> QED BY <1>3, <1>4, <2>2, <2>3, Zenon
<1>10. ASSUME Got("server") = <<>> PROVE Reading("server")'
  <2>1. b \in Nat /\ o \in Nat
    BY Zenon
  <2>2. Frame("client", b, o) # <<>>
    BY <1>1, <2>1, FrameFacts, Zenon
  <2> QED BY <1>3, <1>4, <1>8, <1>10, <2>2, Zenon
<1>11. Quiet => Quiet'
  BY <1>2, <1>5, <1>6, <1>10, Zenon DEF Quiet, Reading
<1>12. ASSUME Asking PROVE Asking'
  <2>1. PICK c \in 1..Calls, n \in Bodies :
          /\ c = call /\ ev["client"].wbuf = Frame("client", c, n) /\ ev["client"].wlen < Header + n
          /\ Got("client") = <<>> /\ Receiving("server", c, n)
          /\ Got("server") = SubSeq(Frame("client", c, n), 1, ev["client"].wlen)
    BY <1>2, <1>12, Zenon DEF Asking, Reading
  <2>2. c \in Nat /\ n \in Nat /\ ev["client"].wlen \in Nat
    BY <1>1, Zenon DEF WireTypeOK, Events
  <2>3. Got("server") # Frame("client", c, n)
    <3>1. SubSeq(Frame("client", c, n), 1, ev["client"].wlen) # Frame("client", c, n)
      BY <1>1, <2>1, <2>2, FrameCut, Zenon
    <3> QED BY <2>1, <3>1, Zenon
  <2>4. Reading("server")' /\ Receiving("server", c, n)'
    BY <1>4, <1>8, <2>1, <2>3, Zenon
  <2> QED BY <1>5, <1>6, <1>7, <2>1, <2>4, Zenon DEF Asking
<1>13. ASSUME Awaiting PROVE Awaiting'
  <2>1. PICK c \in 1..Calls, m \in Bodies :
          /\ c = call /\ Receiving("client", c, m)
          /\ \/ /\ Got("client") = <<>>
                /\ \E n \in Bodies : /\ Receiving("server", c, n)
                                     /\ Got("server") = Frame("client", c, n)
             \/ Got("server") = <<>> /\ Got("client") = Frame("server", c, m)
    BY <1>2, <1>13, Zenon DEF Awaiting, Reading, Writing
  <2>2. CASE Got("server") = <<>> /\ Got("client") = Frame("server", c, m)
    BY <1>5, <1>6, <1>7, <1>10, <2>1, <2>2, Zenon DEF Awaiting
  <2>3. ASSUME Got("client") = <<>>, NEW n \in Bodies, Receiving("server", c, n),
               Got("server") = Frame("client", c, n)
        PROVE  Awaiting'
    <3>1. CASE Reading("server")' /\ Receiving("server", c, n)'
      BY <1>5, <1>6, <1>7, <2>1, <2>3, <3>1, Zenon DEF Awaiting
    <3>2. CASE Done("server", c, n)'
      BY <1>6, <1>7, <1>8, <2>1, <2>3, <3>2, Zenon DEF Awaiting
    <3> QED BY <1>4, <2>3, <3>1, <3>2, Zenon
  <2> QED BY <2>1, <2>2, <2>3, Zenon
<1>14. ClientOK'
  BY <1>6, <1>11, <1>12, <1>13, Zenon DEF ClientOK, Reading, Writing
<1> QED BY <1>5, <1>9, <1>14, Zenon

LEMMA ClientReads ==
  ASSUME WireInv, ReadStep("client") PROVE WireInv'
<1> USE Lengths DEF WireInv
<1>1. WireTypeOK /\ "server" \in End /\ "client" \in End /\ Peer("client") = "server"
  BY Ends, Zenon
<1>2. Reading("client")
  BY <1>1, Zenon DEF ReadStep, StartRead, Readable, Recv, ReadAll, Again, WireTypeOK, Reading
<1>3. Awaiting /\ ~pooled
  BY <1>2, Zenon DEF ClientOK, Reading
<1>4. PICK c \in 1..Calls, m \in Bodies :
        LET d == ev["server"] IN
        /\ c = call /\ Receiving("client", c, m)
        /\ \/ d.type = "idle"
           \/ /\ Reading("server") /\ Got("client") = <<>>
              /\ \E n \in Bodies : /\ Receiving("server", c, n)
                                   /\ Got("server") = Frame("client", c, n)
           \/ d.type = "READED" /\ d.rbuf[1].call = c /\ Got("client") = <<>>
           \/ /\ Writing("server") /\ d.wbuf = Frame("server", c, m)
              /\ Got("client") = SubSeq(Frame("server", c, m), 1, d.wlen)
           \/ /\ Reading("server") /\ Got("server") = <<>>
              /\ Got("client") = Frame("server", c, m)
  BY <1>3, Zenon DEF Awaiting
<1>5. c \in Nat /\ m \in Nat
  BY Zenon
<1>6. /\ WireTypeOK' /\ OthersSame("client") /\ Got("client")' = Got("client")
      /\ (Reading("client")' /\ Receiving("client", c, m)') \/ Done("client", c, m)'
  BY <1>1, <1>2, <1>4, <1>5, ReadKeeps, Zenon
<1>7. /\ framing' = framing /\ pooled' = pooled /\ call' = call
      /\ ev'["server"] = ev["server"] /\ at'["server"] = at["server"]
      /\ stream'["server"] = stream["server"]
  BY <1>1, <1>6, Zenon DEF OthersSame
<1>8. /\ Got("server")' = Got("server")
      /\ \A b, n : Receiving("server", b, n) => Receiving("server", b, n)'
  BY <1>1, <1>7, ReaderSame, Zenon
<1>9. ServerOK'
  BY <1>7, <1>8, Zenon DEF ServerOK, Reading, Writing
<1>10. CASE Reading("client")' /\ Receiving("client", c, m)'
  <2>1. Awaiting'
    BY <1>4, <1>6, <1>7, <1>8, <1>10, Zenon DEF Awaiting, Reading, Writing
  <2>2. ClientOK'
    BY <1>3, <1>7, <1>10, <2>1, Zenon DEF ClientOK, Reading, Writing
  <2> QED BY <1>6, <1>9, <2>2, Zenon
<1>11. CASE Done("client", c, m)'
  <2>1. /\ ev'["client"].type = "READED" /\ ev'["client"].rbuf = Frame("server", c, m)
        /\ stream'["client"] = <<>>
    BY <1>1, <1>11, Zenon DEF Done
  <2>2. /\ Frame("server", c, m) \o <<>> = Frame("server", c, m)
        /\ Frame("server", c, m) # <<>>
    BY <1>1, <1>5, FrameFacts, Zenon
  <2>3. Got("client") = Frame("server", c, m)
    BY <1>6, <2>1, <2>2, Zenon DEF Got
  <2>4. ~(Writing("server") /\ ev["server"].wbuf = Frame("server", c, m)
          /\ Got("client") = SubSeq(Frame("server", c, m), 1, ev["server"].wlen))
    <3>1. SUFFICES ASSUME Writing("server"), ev["server"].wbuf = Frame("server", c, m),
                          Got("client") = SubSeq(Frame("server", c, m), 1, ev["server"].wlen)
                   PROVE  FALSE
      BY Zenon
    <3>2. PICK b \in 1..Calls, o \in Bodies :
            ev["server"].wbuf = Frame("server", b, o) /\ ev["server"].wlen < Header + o
      BY <3>1, Zenon DEF ServerOK, Writing, Reading
    <3>3. Len(Frame("server", b, o)) = Header + o /\ Len(Frame("server", c, m)) = Header + m
      BY <1>1, <1>5, FrameIsSeq, Zenon
    <3>4. ev["server"].wlen \in Nat /\ ev["server"].wlen < Header + m
      BY <1>1, <3>1, <3>2, <3>3, Zenon DEF WireTypeOK, Events
    <3>5. SubSeq(Frame("server", c, m), 1, ev["server"].wlen) # Frame("server", c, m)
      BY <1>1, <1>5, <3>4, FrameCut, Zenon
    <3> QED BY <2>3, <3>1, <3>5, Zenon
  <2>5. Quiet'
    BY <1>4, <1>7, <1>8, <2>1, <2>2, <2>3, <2>4, Zenon DEF Quiet, Reading
  <2>6. ClientOK'
    BY <1>3, <1>4, <1>7, <2>1, <2>5, Zenon DEF ClientOK, Reading, Writing
  <2> QED BY <1>6, <1>9, <2>6, Zenon
<1> QED BY <1>6, <1>10, <1>11, Zenon

\* What has reached s are the first a bytes of a frame; it gets those up to b.
Has(s, c, n, a)     == Got(s) = SubSeq(Frame(Peer(s), c, n), 1, a)
Gets(s, c, n, a, b) == Longer(stream'[s], stream[s], Frame(Peer(s), c, n), a, b)

SameBuffer(s) ==
    /\ ev'[s].rbuf = ev[s].rbuf /\ ev'[s].rlen = ev[s].rlen
    /\ at'[s] = at[s] /\ framing' = framing

\* The reader gets more of the same frame.
LEMMA MoreArrives ==
  ASSUME WireTypeOK, NEW s \in End, NEW c \in Nat, NEW n \in Nat, Receiving(s, c, n),
         NEW a \in Nat, NEW b \in Nat, a <= b, b <= Header + n,
         Has(s, c, n, a), Gets(s, c, n, a, b), SameBuffer(s)
  PROVE  Has(s, c, n, b)' /\ Receiving(s, c, n)' /\ stream'[s] \in Seq(Byte)
<1> DEFINE q == ev[s].rbuf
           r == stream[s]
           f == Frame(Peer(s), c, n)
<1>1. q \in Seq(Byte) /\ r \in Seq(Byte)
  BY Zenon DEF WireTypeOK, Events
<1>2. f \in Seq(Byte) /\ Len(f) = Header + n
  BY Ends, FrameIsSeq, Zenon
<1>3. Are(q, r, f, a) /\ Longer(stream'[s], r, f, a, b)
  BY Zenon DEF Got, Are, Has, Gets
<1>4. Got(s)' = q \o stream'[s]
  BY Zenon DEF Got, SameBuffer
<1> HIDE DEF q, r, f
<1>5. b <= Len(f)
  BY <1>2, Zenon
<1>6. /\ stream'[s] \in Seq(Byte) /\ q \o stream'[s] = SubSeq(f, 1, b)
      /\ Len(SubSeq(f, 1, b)) = b
  <2>1. stream'[s] \in Seq(Byte) /\ Are(q, stream'[s], f, b) /\ Len(SubSeq(f, 1, b)) = b
    BY <1>1, <1>2, <1>3, <1>5, Sent
  <2> QED BY <2>1, Zenon DEF Are
<1>7. Got(s)' = SubSeq(f, 1, b) /\ stream'[s] \in Seq(Byte) /\ Len(Got(s)') = b
  BY <1>4, <1>6, Zenon
<1>8. Receiving(s, c, n)'
  BY <1>7, Zenon DEF Receiving, SameBuffer, f
<1>9. Has(s, c, n, b)'
  BY <1>7, Zenon DEF Has, f
<1> QED BY <1>7, <1>8, <1>9, Zenon

LEMMA ClientSends ==
  ASSUME WireInv, Send("client") PROVE WireInv'
<1> USE Lengths DEF WireInv
<1>1. WireTypeOK /\ "server" \in End /\ "client" \in End /\ Peer("client") = "server"
      /\ Peer("server") = "client"
  BY Ends, Zenon
<1>2. Writing("client") /\ Asking /\ ~pooled
  BY Zenon DEF Send, ClientOK, Writing
<1> DEFINE a == ev["client"].wlen
<1>3. PICK c \in 1..Calls, n \in Bodies :
        /\ c = call /\ ev["client"].wbuf = Frame("client", c, n) /\ a < Header + n
        /\ Got("client") = <<>>
        /\ \/ ev["server"].type = "idle"
           \/ /\ Reading("server") /\ Receiving("server", c, n)
              /\ Got("server") = SubSeq(Frame("client", c, n), 1, a)
  BY <1>2, Zenon DEF Asking
<1> DEFINE f == Frame("client", c, n)
<1>4. c \in Nat /\ n \in Nat /\ a \in Nat
  BY <1>1, Zenon DEF WireTypeOK, Events
<1>5. f \in Seq(Byte) /\ Len(f) = Header + n /\ SubSeq(f, 1, Header + n) = f
  <2>1. f \in Seq(Byte) /\ Len(f) = Header + n
    BY <1>1, <1>4, FrameIsSeq, Zenon
  <2>2. SubSeq(f, 1, Header + n) = f
    BY <1>1, <1>4, FrameFacts, Zenon
  <2> QED BY <2>1, <2>2, Zenon
<1> HIDE DEF f, a
<1>6. PICK b \in Nat :
        /\ a < b /\ b <= Header + n
        /\ stream' = [stream EXCEPT !["server"] = @ \o SubSeq(f, a + 1, b)]
        /\ ev' = [ev EXCEPT !["client"] =
              IF b < Header + n THEN [@ EXCEPT !.type = "WRITING", !.wlen = b]
              ELSE [@ EXCEPT !.type = "TOREAD", !.wlen = b]]
  <2>1. ev["client"].wbuf = f
    BY <1>3, Zenon DEF f
  <2>2. PICK k \in 1..(Len(f) - a) :
          /\ stream' = [stream EXCEPT !["server"] = @ \o SubSeq(f, a + 1, a + k)]
          /\ ev' = [ev EXCEPT !["client"] =
                IF a + k < Len(f) THEN [@ EXCEPT !.type = "WRITING", !.wlen = a + k]
                ELSE [@ EXCEPT !.type = "TOREAD", !.wlen = a + k]]
    BY <1>1, <2>1, Zenon DEF Send, a
  <2>3. a + k \in Nat /\ a < a + k /\ a + k <= Header + n
    BY <1>4, <1>5
  <2> QED BY <1>5, <2>2, <2>3, Zenon
<1>7. UNCHANGED <<framing, at, open, pooled, call>>
  BY Zenon DEF Send
<1>8. /\ ev'["server"] = ev["server"] /\ stream'["client"] = stream["client"]
      /\ stream'["server"] = stream["server"] \o SubSeq(f, a + 1, b)
      /\ ev'["client"].rbuf = ev["client"].rbuf /\ ev'["client"].rlen = ev["client"].rlen
      /\ ev'["client"].wbuf = ev["client"].wbuf /\ ev'["client"].wlen = b
      /\ ev'["client"].type = IF b < Header + n THEN "WRITING" ELSE "TOREAD"
  BY <1>1, <1>6, Zenon DEF WireTypeOK, Events
<1>9. stream' \in [End -> Seq(Byte)]
  <2>1. \A j \in (a + 1)..b : f[j] \in Byte
    <3>1. b \in Nat /\ b <= Header + n
      BY <1>6, Zenon
    <3> QED BY ONLY <1>4, <1>5, <3>1, Lengths, ElementOfSeq
  <2>2. SubSeq(f, a + 1, b) \in Seq(Byte)
    BY <1>4 , <2>1, SubSeqProperties
  <2>3. stream["server"] \o SubSeq(f, a + 1, b) \in Seq(Byte)
    BY <1>1, <2>2, ConcatProperties, Zenon DEF WireTypeOK
  <2> QED BY <1>6, <2>3, Zenon DEF WireTypeOK
<1>10. WireTypeOK'
  <2>1. ev'["client"] \in Events
    <3> DEFINE e == ev["client"]
    <3>1. e \in Events /\ "WRITING" \in Types /\ "TOREAD" \in Types
      BY <1>1, Zenon DEF WireTypeOK, Types
    <3>2. \A t \in Types : [e EXCEPT !.type = t, !.wlen = b] \in Events
      BY <3>1, Zenon DEF Events
    <3>3. ev'["client"] = IF b < Header + n THEN [e EXCEPT !.type = "WRITING", !.wlen = b]
                          ELSE [e EXCEPT !.type = "TOREAD", !.wlen = b]
      BY <1>1, <1>6, Zenon DEF WireTypeOK
    <3> QED BY <3>1, <3>2, <3>3, Zenon
  <2>2. ev' \in [End -> Events]
    BY <1>6, <2>1, Zenon DEF WireTypeOK
  <2>3. at["client"] = "out"
    BY <1>1, <1>2, Zenon DEF WireTypeOK, Writing
  <2>4. \A s \in End : at'[s] # "out" => ev'[s].type = "READING"
    BY <1>1, <1>7, <1>8, <2>3, Ends DEF WireTypeOK
  <2> QED BY <1>7, <1>9, <2>2, <2>4, Zenon DEF WireTypeOK
<1>11. Got("client")' = <<>>
  BY <1>3, <1>8, Zenon DEF Got
<1>12. \A m \in Bodies : Receiving("client", c, m)'
  <2>1. at["client"] = "out"
    BY <1>1, <1>2, Zenon DEF WireTypeOK, Writing
  <2>2. \A m \in Bodies : Receiving("client", c, m)
    BY <1>1, <1>3, <1>4, <2>1, ReceivingAny, Zenon
  <2> QED BY <1>1, <1>7, <1>8, <2>2, ReaderSame, Zenon
<1>13. ASSUME Reading("server"), Receiving("server", c, n), Got("server") = SubSeq(f, 1, a)
       PROVE  /\ Reading("server")' /\ Receiving("server", c, n)'
              /\ Got("server")' = SubSeq(f, 1, b)
  <2>1. /\ Got("server")' = SubSeq(f, 1, b)
        /\ Receiving("server", c, n)'
    <3>1. SameBuffer("server")
      BY <1>7, <1>8, Zenon DEF SameBuffer
    <3>2. Has("server", c, n, a)
      BY <1>1, <1>13, Zenon DEF f, Has
    <3>3. Gets("server", c, n, a, b)
      BY <1>1, <1>8, Zenon DEF f, Longer, Gets
    <3>4. a <= b
      BY <1>4, <1>6
    <3>5. Has("server", c, n, b)' /\ Receiving("server", c, n)'
      BY <1>1, <1>4, <1>6, <1>13, <3>1, <3>2, <3>3, <3>4, MoreArrives, Zenon
    <3> QED BY <1>1, <3>5, Zenon DEF Has, f
  <2> QED BY <1>8, <1>13, <2>1, Zenon DEF Reading
<1>14. ServerOK'
  <2>1. CASE ev["server"].type = "idle"
    BY <1>8, <2>1, Zenon DEF ServerOK
  <2>2. CASE Reading("server") /\ Receiving("server", c, n) /\ Got("server") = SubSeq(f, 1, a)
    <3>1. ev["server"].wbuf = <<>> /\ ev["server"].wlen = 0
      BY <2>2, Zenon DEF ServerOK, Reading
    <3> QED BY <1>8, <1>13, <2>2, <3>1, Zenon DEF ServerOK
  <2> QED BY <1>3, <2>1, <2>2, Zenon DEF f
<1>15. CASE b < Header + n
  <2>1. Asking'
    BY <1>3, <1>7, <1>8, <1>11, <1>13, <1>15, Zenon DEF Asking, f
  <2> QED BY <1>2, <1>7, <1>8, <1>10, <1>14, <1>15, <2>1, Zenon DEF ClientOK, Reading, Writing
<1>16. CASE b = Header + n
  <2>1. PICK m \in Bodies : TRUE
    BY Zenon
  <2>2. ev'["client"].type = "TOREAD"
    BY <1>8, <1>16
  <2>3. Awaiting'
    <3>1. CASE ev["server"].type = "idle"
      BY <1>3, <1>7, <1>8, <1>12, <2>1, <3>1, Zenon DEF Awaiting
    <3>2. CASE Reading("server") /\ Receiving("server", c, n) /\ Got("server") = SubSeq(f, 1, a)
      <4>1. Reading("server")' /\ Receiving("server", c, n)' /\ Got("server")' = Frame("client", c, n)
        BY <1>5, <1>13, <1>16, <3>2, Zenon DEF f
      <4> QED BY <1>3, <1>7, <1>8, <1>11, <1>12, <2>1, <4>1, Zenon DEF Awaiting
    <3> QED BY <1>3, <3>1, <3>2, Zenon DEF f
  <2> QED BY <1>2, <1>7, <1>10, <1>14, <2>2, <2>3, Zenon DEF ClientOK, Reading, Writing
<1> QED BY <1>4, <1>6, <1>15, <1>16

\* An end that has just been reset waits for any frame.
LEMMA ReceivingAnew ==
  ASSUME NEW s \in End, NEW c \in Nat, NEW n \in Nat
  PROVE  (WireTypeOK /\ Got(s) = <<>> /\ at[s] = "out" => Receiving(s, c, n))'
<1>1. WireTypeOK /\ Got(s) = <<>> /\ at[s] = "out" => Receiving(s, c, n)
  BY ReceivingAny, Zenon
<1> QED BY <1>1, PTL

LEMMA HasAll ==
  ASSUME NEW s \in End, NEW c \in Nat, NEW n \in Nat, NEW b, b = Header + n, Has(s, c, n, b)'
  PROVE  Got(s)' = Frame(Peer(s), c, n)
<1>1. SubSeq(Frame(Peer(s), c, n), 1, Header + n) = Frame(Peer(s), c, n)
  BY Ends, FrameFacts, Zenon
<1> QED BY <1>1, Zenon DEF Has

LEMMA ServerSends ==
  ASSUME WireInv, Send("server") PROVE WireInv'
<1> USE Lengths DEF WireInv
<1>1. WireTypeOK /\ "server" \in End /\ "client" \in End /\ Peer("client") = "server"
      /\ Peer("server") = "client"
  BY Ends, Zenon
<1>2. Writing("server")
  BY Zenon DEF Send
<1>3. PICK c0 \in 1..Calls, m0 \in Bodies :
        /\ \E n \in Bodies : ev["server"].rbuf = Frame("client", c0, n)
        /\ ev["server"].wbuf = Frame("server", c0, m0) /\ ev["server"].wlen < Header + m0
        /\ stream["server"] = <<>>
  BY <1>2, Zenon DEF ServerOK, Reading, Writing
<1>4. /\ ~pooled /\ ~Writing("client") /\ ev["client"].type # "READED"
      /\ Reading("client") =>
            \E c \in 1..Calls, m \in Bodies :
                /\ c = call /\ Receiving("client", c, m) /\ ev["server"].wbuf = Frame("server", c, m)
                /\ Got("client") = SubSeq(Frame("server", c, m), 1, ev["server"].wlen)
  <2>1. ~Reading("server") /\ ev["server"].type # "idle" /\ ev["server"].type # "READED"
    BY <1>2, Zenon DEF Reading, Writing
  <2>2. ~Quiet /\ ~Asking
    BY <2>1, Zenon DEF Quiet, Asking
  <2>3. ~pooled /\ ~Writing("client") /\ ev["client"].type # "READED" /\ (Reading("client") => Awaiting)
    BY <2>2, Zenon DEF ClientOK
  <2> QED BY <2>1, <2>3, Zenon DEF Awaiting
<1> DEFINE f == ev["server"].wbuf
           a == ev["server"].wlen
           L == Header + m0
<1>5. f \in Seq(Byte) /\ Len(f) = L /\ a \in Nat /\ L \in Nat /\ c0 \in Nat /\ m0 \in Nat
  <2>1. c0 \in Nat /\ m0 \in Nat /\ L \in Nat
    OBVIOUS
  <2>2. f \in Seq(Byte) /\ Len(f) = L
    <3>1. Frame("server", c0, m0) \in Seq(Byte) /\ Len(Frame("server", c0, m0)) = Header + m0
      BY <1>1, <2>1, FrameIsSeq, Zenon
    <3> QED BY <1>3, <3>1, Zenon
  <2>3. a \in Nat
    BY <1>1, Zenon DEF WireTypeOK, Events
  <2> QED BY <2>1, <2>2, <2>3, Zenon
<1>6. \E k \in 1..(Len(f) - a) :
          /\ stream' = [stream EXCEPT !["client"] = @ \o SubSeq(f, a + 1, a + k)]
          /\ ev' = [ev EXCEPT !["server"] =
                IF a + k < Len(f) THEN [@ EXCEPT !.type = "WRITING", !.wlen = a + k]
                ELSE Fresh("NEXT")]
  BY <1>1, Zenon DEF Send
<1> HIDE DEF f, a, L
<1>7. PICK b \in Nat :
        /\ a < b /\ b <= L
        /\ stream' = [stream EXCEPT !["client"] = @ \o SubSeq(f, a + 1, b)]
        /\ ev' = [ev EXCEPT !["server"] =
              IF b < L THEN [@ EXCEPT !.type = "WRITING", !.wlen = b] ELSE Fresh("NEXT")]
  <2>1. PICK k \in 1..(Len(f) - a) :
          /\ stream' = [stream EXCEPT !["client"] = @ \o SubSeq(f, a + 1, a + k)]
          /\ ev' = [ev EXCEPT !["server"] =
                IF a + k < Len(f) THEN [@ EXCEPT !.type = "WRITING", !.wlen = a + k]
                ELSE Fresh("NEXT")]
    BY <1>6, Zenon
  <2>2. a + k \in Nat /\ a < a + k /\ a + k <= L
    BY <1>5
  <2> QED BY <1>5, <2>1, <2>2, Zenon
<1>8. UNCHANGED <<framing, at, open, pooled, call>>
  BY Zenon DEF Send
<1>9. /\ ev'["client"] = ev["client"] /\ stream'["server"] = <<>>
      /\ stream'["client"] = stream["client"] \o SubSeq(f, a + 1, b)
      /\ ev'["server"] = IF b < L THEN [ev["server"] EXCEPT !.type = "WRITING", !.wlen = b]
                         ELSE Fresh("NEXT")
  BY <1>1, <1>3, <1>7, Zenon DEF WireTypeOK
<1>10. stream' \in [End -> Seq(Byte)]
  <2>1. \A j \in (a + 1)..b : f[j] \in Byte
    BY <1>5, <1>7, ElementOfSeq
  <2>2. SubSeq(f, a + 1, b) \in Seq(Byte)
    BY <1>5, <2>1, SubSeqProperties
  <2>3. stream["client"] \o SubSeq(f, a + 1, b) \in Seq(Byte)
    BY <1>1, <2>2, ConcatProperties, Zenon DEF WireTypeOK
  <2> QED BY <1>7, <2>3, Zenon DEF WireTypeOK
<1>11. at["server"] = "out"
  BY <1>1, <1>2, Zenon DEF WireTypeOK, Writing
<1>12. WireTypeOK'
  <2> DEFINE e == ev["server"]
  <2>1. e \in Events /\ "WRITING" \in Types /\ "NEXT" \in Types
    BY <1>1, Zenon DEF WireTypeOK, Types
  <2>2. [e EXCEPT !.type = "WRITING", !.wlen = b] \in Events
    BY <2>1, Zenon DEF Events
  <2>3. Fresh("NEXT") \in Events
    BY <2>1, EmptySeq, Zenon DEF Events, Fresh
  <2>4. ev' \in [End -> Events]
    BY <1>7, <2>2, <2>3, Zenon DEF WireTypeOK
  <2>5. \A s \in End : at'[s] # "out" => ev'[s].type = "READING"
    BY <1>1, <1>8, <1>9, <1>11, Ends, Zenon DEF WireTypeOK
  <2> QED BY <1>8, <1>10, <2>4, <2>5, Zenon DEF WireTypeOK
<1>13. ASSUME NEW c \in 1..Calls, NEW m \in Bodies, Receiving("client", c, m),
              f = Frame("server", c, m), Got("client") = SubSeq(Frame("server", c, m), 1, a)
       PROVE  Has("client", c, m, b)' /\ Receiving("client", c, m)' /\ L = Header + m
  <2>1. c \in Nat /\ m \in Nat /\ L = Header + m /\ a <= b
    <3>1. c \in Nat /\ m \in Nat
      BY Zenon
    <3> QED BY <1>1, <1>5, <1>7, <1>13, <3>1, FrameIsSeq
  <2>2. SameBuffer("client")
    BY <1>8, <1>9, Zenon DEF SameBuffer
  <2>3. Has("client", c, m, a)
    BY <1>1, <1>13, Zenon DEF Has
  <2>4. Gets("client", c, m, a, b)
    BY <1>1, <1>9, <1>13, Zenon DEF Longer, Gets
  <2>5. b <= Header + m
    BY <1>7, <2>1, Zenon
  <2> QED BY <1>1, <1>5, <1>7, <1>13, <2>1, <2>2, <2>3, <2>4, <2>5, MoreArrives, Zenon
<1>14. CASE b < L
  <2>1. /\ ev'["server"].type = "WRITING" /\ ev'["server"].wlen = b
        /\ ev'["server"].wbuf = ev["server"].wbuf /\ ev'["server"].rbuf = ev["server"].rbuf
    BY <1>1, <1>9, <1>14, Zenon DEF WireTypeOK, Events
  <2>2. ServerOK'
    BY <1>3, <1>9, <1>14, <2>1, Zenon DEF ServerOK, Writing, L
  <2>3. ASSUME Reading("client") PROVE Awaiting'
    <3>1. PICK c \in 1..Calls, m \in Bodies :
            /\ c = call /\ Receiving("client", c, m) /\ f = Frame("server", c, m)
            /\ Got("client") = SubSeq(Frame("server", c, m), 1, a)
      BY <1>4, <2>3, Zenon DEF f, a
    <3>2. Has("client", c, m, b)' /\ Receiving("client", c, m)'
      BY <1>13, <3>1, Zenon
    <3> QED BY <1>1, <1>8, <2>1, <3>1, <3>2, Zenon DEF Awaiting, Has, Writing, f
  <2> QED BY <1>4, <1>8, <1>9, <1>12, <2>2, <2>3, Zenon DEF ClientOK, Reading, Writing
<1>15. CASE b = L
  <2>1. /\ ev'["server"] = Fresh("NEXT") /\ Reading("server")'
        /\ ev'["server"].wbuf = <<>> /\ ev'["server"].wlen = 0 /\ ev'["server"].rbuf = <<>>
    BY <1>5, <1>9, <1>15 DEF Fresh, Reading
  <2>2. Got("server")' = <<>>
    BY <1>9, <2>1, EmptySeq, ConcatEmptySeq, Zenon DEF Got
  <2>3. Receiving("server", c0, m0)'
    BY <1>1, <1>5, <1>8, <1>11, <1>12, <2>2, ReceivingAnew, Zenon
  <2>4. ServerOK'
    BY <2>1, <2>3, Zenon DEF ServerOK
  <2>5. ASSUME Reading("client") PROVE Awaiting'
    <3>1. PICK c \in 1..Calls, m \in Bodies :
            /\ c = call /\ Receiving("client", c, m) /\ f = Frame("server", c, m)
            /\ Got("client") = SubSeq(Frame("server", c, m), 1, a)
      BY <1>4, <2>5, Zenon DEF f, a
    <3>2. Has("client", c, m, b)' /\ Receiving("client", c, m)'
      BY <1>13, <3>1, Zenon
    <3>3. b = Header + m
      BY <1>13, <1>15, <3>1, Zenon
    <3>4. Got("client")' = Frame("server", c, m)
      <4>1. c \in Nat /\ m \in Nat
        BY Zenon
      <4> QED BY <1>1, <3>2, <3>3, <4>1, HasAll, Zenon
    <3> QED BY <1>8, <2>1, <2>2, <3>1, <3>2, <3>4, Zenon DEF Awaiting
  <2> QED BY <1>4, <1>8, <1>9, <1>12, <2>4, <2>5, Zenon DEF ClientOK, Reading, Writing
<1> QED BY <1>5, <1>7, <1>14, <1>15

LEMMA ClientCloses ==
  ASSUME WireInv, ClosePeer("client"), ev["client"].type # "idle" PROVE WireInv'
<1> USE DEF WireInv
<1>1. WireTypeOK /\ "server" \in End /\ "client" \in End /\ "FAIL" \in Types
  BY Ends, Zenon DEF Types
<1>2. /\ ev' = [ev EXCEPT !["client"].type = "FAIL"] /\ at' = [at EXCEPT !["client"] = "out"]
      /\ UNCHANGED <<framing, stream, open, pooled, call>>
  BY Zenon DEF ClosePeer
<1>3. /\ ev'["server"] = ev["server"] /\ ev'["client"].type = "FAIL"
      /\ at'["server"] = at["server"] /\ at'["client"] = "out"
  BY <1>1, <1>2, Zenon DEF WireTypeOK, Events
<1>4. WireTypeOK'
  <2>1. ev' \in [End -> Events]
    BY <1>1, <1>2, EventUpdated, EmptySeq, Zenon DEF WireTypeOK
  <2>2. \A s \in End : at'[s] # "out" => ev'[s].type = "READING"
    BY <1>1, <1>3, Ends DEF WireTypeOK
  <2> QED BY <1>2, <2>1, <2>2, Zenon DEF WireTypeOK
<1>5. \A c, n : Receiving("server", c, n) => Receiving("server", c, n)'
  BY <1>1, <1>2, <1>3, ReaderSame, Zenon
<1>6. ServerOK'
  BY <1>2, <1>3, <1>5, Zenon DEF ServerOK, Reading, Writing
<1>7. ClientOK'
  BY <1>2, <1>3, Zenon DEF ClientOK, Reading, Writing
<1> QED BY <1>4, <1>6, <1>7, Zenon

LEMMA ServerCloses ==
  ASSUME WireInv, ClosePeer("server") PROVE WireInv'
<1> USE DEF WireInv
<1>1. WireTypeOK /\ "server" \in End /\ "client" \in End /\ "idle" \in Types
  BY Ends, Zenon DEF Types
<1>2. /\ ev' = [ev EXCEPT !["server"].type = "idle"] /\ at' = [at EXCEPT !["server"] = "out"]
      /\ open' = open \ {"server"} /\ UNCHANGED <<framing, stream, pooled, call>>
  BY Zenon DEF ClosePeer
<1>3. /\ ev'["client"] = ev["client"] /\ ev'["server"].type = "idle"
      /\ at'["client"] = at["client"] /\ at'["server"] = "out"
  BY <1>1, <1>2, Zenon DEF WireTypeOK, Events
<1>4. WireTypeOK'
  <2>1. ev' \in [End -> Events]
    BY <1>1, <1>2, EventUpdated, EmptySeq, Zenon DEF WireTypeOK
  <2>2. \A s \in End : at'[s] # "out" => ev'[s].type = "READING"
    BY <1>1, <1>3, Ends DEF WireTypeOK
  <2> QED BY <1>2, <2>1, <2>2, Zenon DEF WireTypeOK
<1>5. Got("client")' = Got("client") /\ \A c, n : Receiving("client", c, n) => Receiving("client", c, n)'
  BY <1>1, <1>2, <1>3, ReaderSame, Zenon
<1>6. ServerOK'
  BY <1>3, Zenon DEF ServerOK
<1>7. (Quiet => Quiet') /\ (Asking => Asking') /\ (Awaiting => Awaiting')
  <2>1. Quiet => Quiet'
    BY <1>2, <1>3, Zenon DEF Quiet
  <2>2. Asking => Asking'
    BY <1>2, <1>3, <1>5, Zenon DEF Asking
  <2>3. Awaiting => Awaiting'
    BY <1>2, <1>3, <1>5, Zenon DEF Awaiting
  <2> QED BY <2>1, <2>2, <2>3, Zenon
<1>8. ClientOK'
  BY <1>2, <1>3, <1>7, Zenon DEF ClientOK, Reading, Writing
<1> QED BY <1>4, <1>6, <1>8, Zenon

\* The client's event with a request, and after a call.
LEMMA FreshEvents ==
  /\ \A type \in Types : Fresh(type) \in Events
  /\ \A c \in Nat, n \in Nat :
        LET e == [Fresh("TOWRITE") EXCEPT !.wbuf = Frame("client", c, n)] IN
          /\ e \in Events /\ e.type = "TOWRITE" /\ e.rbuf = <<>> /\ e.rlen = 0
          /\ e.wbuf = Frame("client", c, n) /\ e.wlen = 0
<1>1. \A type \in Types : Fresh(type) \in Events
  BY EmptySeq, Zenon DEF Events, Fresh
<1>2. ASSUME NEW c \in Nat, NEW n \in Nat
      PROVE  LET e == [Fresh("TOWRITE") EXCEPT !.wbuf = Frame("client", c, n)] IN
               /\ e \in Events /\ e.type = "TOWRITE" /\ e.rbuf = <<>> /\ e.rlen = 0
               /\ e.wbuf = Frame("client", c, n) /\ e.wlen = 0
  <2>1. Frame("client", c, n) \in Seq(Byte) /\ "TOWRITE" \in Types
    BY Ends, FrameIsSeq, Zenon DEF Types
  <2>2. <<>> \in Seq(Byte)
    BY EmptySeq, Zenon
  <2> HIDE DEF Frame
  <2> QED BY <2>1, <2>2, Zenon DEF Fresh, Events
<1> QED BY <1>1, <1>2, Zenon

LEMMA FetchesPooled ==
  ASSUME WireInv, NEW n \in Bodies, FetchPooled(n) PROVE WireInv'
<1> USE Lengths DEF WireInv
<1>1. WireTypeOK /\ "server" \in End /\ "client" \in End /\ Peer("server") = "client"
  BY Ends, Zenon
<1>2. Quiet /\ at["client"] = "out"
  BY <1>1, Zenon DEF FetchPooled, ClientOK, WireTypeOK
<1>3. PICK c \in 1..Calls : c = call'
  BY <1>1 DEF FetchPooled, WireTypeOK
<1>4. /\ ev' = [ev EXCEPT !["client"] = [Fresh("TOWRITE") EXCEPT !.wbuf = Frame("client", c, n)]]
      /\ pooled' = FALSE /\ UNCHANGED <<framing, at, stream, open>>
  BY <1>3, Zenon DEF FetchPooled
<1>5. c \in Nat /\ n \in Nat
  BY Zenon
<1>6. /\ ev' \in [End -> Events] /\ ev'["server"] = ev["server"]
      /\ ev'["client"].type = "TOWRITE" /\ ev'["client"].rbuf = <<>>
      /\ ev'["client"].wbuf = Frame("client", c, n) /\ ev'["client"].wlen = 0
  BY <1>1, <1>4, <1>5, FreshEvents DEF WireTypeOK
<1>7. WireTypeOK'
  <2>1. \A s \in End : at'[s] # "out" => ev'[s].type = "READING"
    BY <1>1, <1>2, <1>4, <1>6, Ends, Zenon DEF WireTypeOK
  <2>2. call' \in 0..Calls
    BY <1>3
  <2>3. pooled' \in BOOLEAN
    BY <1>4, Zenon
  <2> QED BY <1>1, <1>4, <1>6, <2>1, <2>2, <2>3, Zenon DEF WireTypeOK
<1>8. Got("server")' = Got("server") /\ \A b, m : Receiving("server", b, m) => Receiving("server", b, m)'
  BY <1>1, <1>4, <1>6, ReaderSame, Zenon
<1>9. ServerOK'
  <2>1. ev'["server"] = ev["server"] /\ stream' = stream
    BY <1>4, <1>6, Zenon
  <2>2. Reading("server")' = Reading("server") /\ Writing("server")' = Writing("server")
    BY <2>1, Zenon DEF Reading, Writing
  <2> QED BY <1>8, <2>1, <2>2, Zenon DEF ServerOK
<1>10. Got("client")' = <<>>
  BY <1>2, <1>4, <1>6, EmptySeq, ConcatEmptySeq, Zenon DEF Quiet, Got
<1>11. SubSeq(Frame("client", c, n), 1, 0) = <<>> /\ 0 < Header + n
  BY <1>1, <1>5, FrameFacts
<1>12. ASSUME Reading("server"), Got("server") = <<>>
       PROVE  Reading("server")' /\ Receiving("server", c, n)' /\ Got("server")' = <<>>
  <2>1. \E b, m \in Nat : Receiving("server", b, m)
    BY <1>12, Zenon DEF ServerOK, Reading
  <2>2. Receiving("server", c, n)
    BY <1>1, <1>5, <1>12, <2>1, ReceivingAny, Zenon
  <2> QED BY <1>6, <1>8, <1>12, <2>2, Zenon DEF Reading
<1>13. Asking'
  <2>1. ev'["server"].type = "idle" \/ (Reading("server")' /\ Receiving("server", c, n)' /\ Got("server")' = <<>>)
    BY <1>2, <1>6, <1>12, Zenon DEF Quiet
  <2> QED BY <1>3, <1>6, <1>10, <1>11, <2>1, Zenon DEF Asking
<1>14. ClientOK'
  BY <1>4, <1>6, <1>13, Zenon DEF ClientOK, Reading, Writing
<1> QED BY <1>7, <1>9, <1>14, Zenon

LEMMA FetchesNew ==
  ASSUME WireInv, NEW n \in Bodies, FetchNew(n) PROVE WireInv'
<1> USE Lengths DEF WireInv
<1>1. WireTypeOK /\ "server" \in End /\ "client" \in End /\ "NEXT" \in Types
  BY Ends, Zenon DEF Types
<1>2. PICK c \in 1..Calls : c = call'
  BY <1>1 DEF FetchNew, WireTypeOK
<1>3. /\ ev' = [client |-> [Fresh("TOWRITE") EXCEPT !.wbuf = Frame("client", c, n)],
                server |-> Fresh("NEXT")]
      /\ at' = [s \in End |-> "out"] /\ stream' = [s \in End |-> <<>>]
      /\ open' = End /\ pooled' = FALSE /\ framing' = framing
  BY <1>2, Zenon DEF FetchNew
<1>4. c \in Nat /\ n \in Nat
  BY Zenon
<1>5. /\ ev' \in [End -> Events]
      /\ ev'["client"].type = "TOWRITE" /\ ev'["client"].rbuf = <<>>
      /\ ev'["client"].wbuf = Frame("client", c, n) /\ ev'["client"].wlen = 0
      /\ ev'["server"] = Fresh("NEXT")
  <2>1. /\ ev'["client"] = [Fresh("TOWRITE") EXCEPT !.wbuf = Frame("client", c, n)]
        /\ ev'["server"] = Fresh("NEXT")
    BY <1>3, Zenon
  <2>2. ev'["client"] \in Events /\ ev'["server"] \in Events
    BY <1>1, <1>4, <2>1, FreshEvents
  <2>3. ev' \in [End -> Events]
    BY <1>3, <2>1, <2>2, Zenon DEF End
  <2> QED BY <1>4, <2>1, <2>3, FreshEvents
<1>6. /\ ev'["server"].type = "NEXT" /\ ev'["server"].rbuf = <<>>
      /\ ev'["server"].wbuf = <<>> /\ ev'["server"].wlen = 0
  BY <1>5 DEF Fresh
<1>7. WireTypeOK'
  <2>1. call' \in 0..Calls /\ open' \subseteq End
    BY <1>2, <1>3
  <2>2. at' \in [End -> {"out", "first", "second", "lost"}] /\ \A s \in End : at'[s] = "out"
    BY <1>3, Zenon
  <2>3. stream' \in [End -> Seq(Byte)]
    BY <1>3, EmptySeq, Zenon
  <2>4. pooled' \in BOOLEAN
    BY <1>3, Zenon
  <2> QED BY <1>1, <1>3, <1>5, <2>1, <2>2, <2>3, <2>4, Zenon DEF WireTypeOK
<1>8. Got("server")' = <<>> /\ Got("client")' = <<>>
  BY <1>1, <1>3, <1>5, <1>6, EmptySeq, ConcatEmptySeq, Zenon DEF Got
<1>9. at'["server"] = "out"
  BY <1>1, <1>3, Zenon
<1>10. Receiving("server", c, n)'
  BY <1>1, <1>4, <1>7, <1>8, <1>9, ReceivingAnew, Zenon
<1>11. ServerOK'
  BY <1>6, <1>10, Zenon DEF ServerOK, Reading
<1>12. SubSeq(Frame("client", c, n), 1, 0) = <<>> /\ 0 < Header + n
  BY <1>1, <1>4, FrameFacts
<1>13. Asking'
  BY <1>2, <1>5, <1>6, <1>8, <1>10, <1>12, Zenon DEF Asking, Reading
<1>14. ClientOK'
  BY <1>3, <1>5, <1>13, Zenon DEF ClientOK, Reading, Writing
<1> QED BY <1>7, <1>11, <1>14, Zenon

LEMMA Handles ==
  ASSUME WireInv, NEW m \in Bodies, Handle(m) PROVE WireInv'
<1> USE Lengths DEF WireInv
<1>1. WireTypeOK /\ "server" \in End /\ "client" \in End /\ Peer("client") = "server"
  BY Ends, Zenon
<1>2. ev["server"].type = "READED"
  BY Zenon DEF Handle
<1>3. PICK c \in 1..Calls :
        /\ \E n \in Bodies : ev["server"].rbuf = Frame("client", c, n)
        /\ ev["server"].wbuf = <<>> /\ ev["server"].wlen = 0 /\ stream["server"] = <<>>
  BY <1>2, Zenon DEF ServerOK, Reading, Writing
<1>4. c \in Nat /\ m \in Nat
  BY Zenon
<1>5. ev["server"].rbuf[1].call = c
  <2>1. PICK n \in Bodies : ev["server"].rbuf = Frame("client", c, n)
    BY <1>3, Zenon
  <2>2. n \in Nat /\ Frame("client", c, n)[1].call = c
    BY <1>1, <1>4, FrameFacts
  <2> QED BY <2>1, <2>2, Zenon
<1>6. /\ Frame("server", c, m) \in Seq(Byte) /\ <<>> \o Frame("server", c, m) = Frame("server", c, m)
      /\ SubSeq(Frame("server", c, m), 1, 0) = <<>> /\ 0 < Header + m
  BY <1>1, <1>4, FrameFacts, ConcatEmptySeq
<1>7. /\ ev' = [ev EXCEPT !["server"].type = "TOWRITE", !["server"].wbuf = Frame("server", c, m)]
      /\ UNCHANGED <<framing, at, stream, open, pooled, call>>
  <2>1. ev' = [ev EXCEPT !["server"].type = "TOWRITE",
                         !["server"].wbuf = ev["server"].wbuf \o Frame("server", ev["server"].rbuf[1].call, m)]
    BY <1>1, Zenon DEF Handle, WireTypeOK, Events
  <2>2. ev["server"].wbuf \o Frame("server", ev["server"].rbuf[1].call, m) = Frame("server", c, m)
    BY <1>3, <1>5, <1>6, Zenon
  <2> QED BY <2>1, <2>2, Zenon DEF Handle
<1>8. /\ ev'["client"] = ev["client"] /\ ev'["server"].type = "TOWRITE"
      /\ ev'["server"].rbuf = ev["server"].rbuf /\ ev'["server"].wbuf = Frame("server", c, m)
      /\ ev'["server"].wlen = 0
  BY <1>1, <1>3, <1>7 DEF WireTypeOK, Events
<1>9. WireTypeOK'
  <2>1. ev' \in [End -> Events]
    <3>1. "TOWRITE" \in Types
      BY Zenon DEF Types
    <3> QED BY <1>1, <1>6, <1>7, <3>1, EventUpdatedTwice, Zenon DEF WireTypeOK
  <2>2. at["server"] = "out"
    BY <1>1, <1>2, Zenon DEF WireTypeOK
  <2>3. \A s \in End : at'[s] # "out" => ev'[s].type = "READING"
    BY <1>1, <1>7, <1>8, <2>2, Ends, Zenon DEF WireTypeOK
  <2> QED BY <1>1, <1>7, <2>1, <2>3, Zenon DEF WireTypeOK
<1>10. ServerOK'
  BY <1>3, <1>6, <1>7, <1>8, Zenon DEF ServerOK, Writing
<1>11. Got("client")' = Got("client") /\ \A b, n : Receiving("client", b, n) => Receiving("client", b, n)'
  BY <1>1, <1>7, <1>8, ReaderSame, Zenon
<1>12. ~Quiet /\ ~Asking
  BY <1>2, Zenon DEF Quiet, Asking, Reading
<1>13. ASSUME Reading("client") PROVE Awaiting'
  <2>1. PICK b \in 1..Calls, k \in Bodies :
          /\ b = call /\ Receiving("client", b, k) /\ ev["server"].rbuf[1].call = b
          /\ Got("client") = <<>>
    BY <1>2, <1>12, <1>13, Zenon DEF ClientOK, Awaiting, Reading, Writing
  <2>2. b = c /\ b \in Nat /\ k \in Nat
    BY <1>5, <2>1, Zenon
  <2>3. \E d, l \in Nat : Receiving("client", d, l)
    BY <2>1, <2>2, Zenon
  <2>4. Receiving("client", c, m)
    BY <1>1, <1>4, <2>1, <2>3, ReceivingAny, Zenon
  <2>5. /\ Receiving("client", c, m)' /\ c = call'
        /\ Got("client")' = SubSeq(Frame("server", c, m), 1, 0)
    BY <1>6, <1>7, <1>11, <2>1, <2>2, <2>4, Zenon
  <2> QED BY <1>8, <2>5, Zenon DEF Awaiting, Writing
<1>14. ClientOK'
  BY <1>7, <1>8, <1>12, <1>13, Zenon DEF ClientOK, Reading, Writing
<1> QED BY <1>9, <1>10, <1>14, Zenon

LEMMA Frees ==
  ASSUME WireInv, FreeConnection PROVE WireInv'
<1> USE DEF WireInv
<1>1. WireTypeOK /\ "server" \in End /\ "client" \in End /\ "idle" \in Types
  BY Ends, Zenon DEF Types
<1>2. /\ ev["client"].type \in {"READED", "FAIL"} /\ ev' = [ev EXCEPT !["client"] = Fresh("idle")]
      /\ pooled' = (ev["client"].type = "READED") /\ open' \subseteq open
      /\ UNCHANGED <<framing, at, stream, call>>
  BY Zenon DEF FreeConnection
<1>3. ev'["server"] = ev["server"] /\ ev'["client"].type = "idle"
  BY <1>1, <1>2, Zenon DEF WireTypeOK, Fresh
<1>4. WireTypeOK'
  <2>1. ev' \in [End -> Events]
    BY <1>1, <1>2, FreshEvents, Zenon DEF WireTypeOK
  <2>2. at["client"] = "out"
    BY <1>1, <1>2, Zenon DEF WireTypeOK
  <2>3. \A s \in End : at'[s] # "out" => ev'[s].type = "READING"
    BY <1>1, <1>2, <1>3, <2>2, Ends, Zenon DEF WireTypeOK
  <2>4. pooled' \in BOOLEAN
    BY <1>2, Zenon
  <2>5. open' \subseteq End
    BY <1>1, <1>2, Zenon DEF WireTypeOK
  <2> QED BY <1>1, <1>2, <2>1, <2>3, <2>4, <2>5, Zenon DEF WireTypeOK
<1>5. Got("server")' = Got("server") /\ \A c, n : Receiving("server", c, n) => Receiving("server", c, n)'
  BY <1>1, <1>2, <1>3, ReaderSame, Zenon
<1>6. ServerOK'
  BY <1>2, <1>3, <1>5, Zenon DEF ServerOK, Reading, Writing
<1>7. Quiet => Quiet'
  BY <1>2, <1>3, <1>5, Zenon DEF Quiet, Reading
<1>8. pooled' => Quiet
  BY <1>2, Zenon DEF ClientOK
<1>9. ClientOK'
  BY <1>3, <1>7, <1>8, Zenon DEF ClientOK, Reading, Writing
<1> QED BY <1>4, <1>6, <1>9, Zenon

-----------------------------------------------------------------------------
LEMMA WireBegins == WireInit => WireInv
<1> SUFFICES ASSUME WireInit PROVE WireInv
  BY Zenon
<1>1. "idle" \in Types /\ "client" \in End /\ "server" \in End
  BY Ends, Zenon DEF Types
<1>2. ev["client"].type = "idle" /\ ev["server"].type = "idle"
  BY <1>1, Zenon DEF WireInit, Fresh
<1>3. WireTypeOK
  <2>1. ev \in [End -> Events]
    BY <1>1, FreshEvents, Zenon DEF WireInit
  <2>2. stream \in [End -> Seq(Byte)]
    BY EmptySeq, Zenon DEF WireInit
  <2>3. call \in 0..Calls
    BY Lengths DEF WireInit
  <2>4. pooled \in BOOLEAN
    BY Zenon DEF WireInit
  <2> QED BY <2>1, <2>2, <2>3, <2>4, Zenon DEF WireInit, WireTypeOK
<1> QED BY <1>2, <1>3, Zenon DEF WireInit, WireInv, ServerOK, ClientOK, Reading, Writing

LEMMA WireStep ==
  ASSUME WireInv, [WireNext]_wireVars PROVE WireInv'
<1>1. CASE UNCHANGED wireVars
  <2>1. /\ framing' = framing /\ ev' = ev /\ at' = at /\ stream' = stream
        /\ open' = open /\ pooled' = pooled /\ call' = call
    BY <1>1, Zenon DEF wireVars
  <2>2. \A s : Got(s)' = Got(s) /\ Reading(s)' = Reading(s) /\ Writing(s)' = Writing(s)
    BY <2>1, Zenon DEF Got, Reading, Writing
  <2>3. \A s, c, n : Receiving(s, c, n)' = Receiving(s, c, n)
    BY <2>1, <2>2 DEF Receiving
  <2>4. WireTypeOK'
    BY <2>1, Zenon DEF WireInv, WireTypeOK
  <2>5. ServerOK'
    BY <2>1, <2>2, <2>3, Zenon DEF WireInv, ServerOK
  <2>6. (Quiet => Quiet') /\ (Asking => Asking') /\ (Awaiting => Awaiting')
    BY <2>1, <2>2, <2>3, Zenon DEF Quiet, Asking, Awaiting
  <2>7. ClientOK'
    BY <2>1, <2>2, <2>6, Zenon DEF WireInv, ClientOK
  <2> QED BY <2>4, <2>5, <2>7, Zenon DEF WireInv
<1>2. ASSUME NEW s \in End, EndStep(s) \/ TimedOut(s) PROVE WireInv'
  <2>1. ev[s].type = "READING" => ev[s].type # "idle"
    BY Zenon
  <2>2. ASSUME ClosePeer(s), ev[s].type # "idle" PROVE WireInv'
    BY <2>2, ClientCloses, ServerCloses, Ends, Zenon
  <2>3. CASE Send(s)
    BY <2>3, ClientSends, ServerSends, Ends, Zenon
  <2>4. CASE SendFails(s)
    BY <2>2, <2>4, Zenon DEF SendFails, Writing
  <2>5. CASE ReadStep(s)
    BY <2>5, ClientReads, ServerReads, Ends, Zenon
  <2>6. CASE PeerClosed(s)
    BY <2>2, <2>6, Zenon DEF PeerClosed, WireInv, WireTypeOK
  <2>7. CASE TimedOut(s)
    BY <2>2, <2>7, Zenon DEF TimedOut
  <2> QED BY <1>2, <2>3, <2>4, <2>5, <2>6, <2>7, Zenon DEF EndStep, ReadStep
<1>3. ASSUME NEW n \in Bodies, FetchPooled(n) \/ FetchNew(n) \/ Handle(n) PROVE WireInv'
  BY <1>3, FetchesPooled, FetchesNew, Handles, Zenon
<1>4. CASE FreeConnection
  BY <1>4, Frees, Zenon
<1> QED BY <1>1, <1>2, <1>3, <1>4, Zenon DEF WireNext, ServerAnswers

LEMMA WireAlways == WireSpec => []WireInv
<1>1. WireInv /\ [WireNext]_wireVars => WireInv'
  BY WireStep, Zenon
<1> QED BY <1>1, WireBegins, PTL DEF WireSpec

\* However send() and recv() cut the bytes, and whatever times out on the way, what
\* an end hands on as read is one whole frame of its peer (readData of both
\* protocols, with any header, body lengths, IOBuf and socket buffer).  Only for a frame
\* of ZlibBinaryProtocol that is longer than the IOBuf may the code come to use a
\* deleted one.
THEOREM FramesWhole == WireSpec => []WholeFrame
<1>1. ASSUME WireInv, NEW s \in End, ev[s].type = "READED"
      PROVE  \E c \in 1..Calls, n \in Bodies : ev[s].rbuf = Frame(Peer(s), c, n)
  <2>1. CASE s = "client"
    BY <1>1, <2>1, Ends, Zenon DEF WireInv, ClientOK
  <2>2. CASE s = "server"
    BY <1>1, <2>2, Ends, Zenon DEF WireInv, ServerOK, Reading, Writing
  <2> QED BY <2>1, <2>2, Ends, Zenon
<1>2. ASSUME WireInv, NEW s \in End, at[s] = "lost"
      PROVE  framing = "mark" /\ Header + ev[s].rbuf[1].body > Chunk + 1
  <2>1. ev[s].type = "READING" /\ WireTypeOK
    BY <1>2, Zenon DEF WireInv, WireTypeOK
  <2>2. PICK c \in 1..Calls, n \in Bodies : Receiving(s, c, n)
    <3>1. CASE s = "client"
      BY <1>2, <2>1, <3>1, Zenon DEF WireInv, ClientOK, Reading, Awaiting
    <3>2. CASE s = "server"
      BY <1>2, <2>1, <3>2, Zenon DEF WireInv, ServerOK, Reading
    <3> QED BY <3>1, <3>2, Ends, Zenon
  <2>3. c \in Nat /\ n \in Nat
    BY Lengths, Zenon
  <2>4. framing = "mark" /\ Len(ev[s].rbuf) > Chunk /\ Len(ev[s].rbuf) < Header + n
    BY <1>2, <2>2, Zenon DEF Receiving
  <2>5. /\ Len(ev[s].rbuf) \in Nat
        /\ \A j \in 1..Len(ev[s].rbuf) :
              ev[s].rbuf[j] = [who |-> Peer(s), call |-> c, body |-> n, i |-> j]
    BY <2>1, <2>2, <2>3, ReceivingFacts, Zenon
  <2>6. Chunk \in Nat
    BY WireAssumption
  <2>7. 1 \in 1..Len(ev[s].rbuf)
    BY <2>4, <2>5, <2>6
  <2>8. ev[s].rbuf[1] = [who |-> Peer(s), call |-> c, body |-> n, i |-> 1]
    BY <2>5, <2>7, Zenon
  <2>9. ev[s].rbuf[1].body = n
    BY <2>8
  <2>10. Header + n > Chunk + 1
    BY <2>3, <2>4, <2>5, <2>6, Lengths
  <2> QED BY <2>4, <2>9, <2>10, Zenon
<1>3. WireInv => WholeFrame
  BY <1>1, <1>2, Zenon DEF WholeFrame
<1> QED BY <1>3, WireAlways, PTL

\* What the client hands on is the answer to the call it is in, on a connection that
\* is used for any number of calls (AsyncClient::freeConnection keeps only an event
\* that has read its answer).
THEOREM AnswersOwn == WireSpec => []OwnAnswer
<1>1. WireInv => OwnAnswer
  <2> SUFFICES ASSUME WireInv, ev["client"].type = "READED", NEW j \in 1..Len(ev["client"].rbuf)
      PROVE  ev["client"].rbuf[j].call = call
    BY Zenon DEF OwnAnswer
  <2>1. PICK c \in 1..Calls, m \in Bodies : c = call /\ ev["client"].rbuf = Frame("server", c, m)
    BY Zenon DEF WireInv, ClientOK
  <2>2. c \in Nat /\ m \in Nat /\ "server" \in End
    BY Lengths, Ends, Zenon
  <2>3. Len(Frame("server", c, m)) = Header + m
        /\ \A i \in 1..(Header + m) :
              Frame("server", c, m)[i] = [who |-> "server", call |-> c, body |-> m, i |-> i]
    BY <2>2, FrameIsSeq, Zenon
  <2>4. j \in 1..(Header + m)
    BY <2>1, <2>3, Zenon
  <2>5. Frame("server", c, m)[j] = [who |-> "server", call |-> c, body |-> m, i |-> j]
    BY <2>3, <2>4, Zenon
  <2> QED BY <2>1, <2>5
<1> QED BY <1>1, WireAlways, PTL
=============================================================================
