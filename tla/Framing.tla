------------------------------ MODULE Framing ------------------------------
(***************************************************************************)
(* Messages as bytes: the frames that TCP, KCP and QUIC streams carry, with*)
(* their compression (stream.go, session.go, compress.go), and the         *)
(* datagrams of UDP (package.go).                                          *)
(*                                                                         *)
(* One node sends to another over one connection, via "tcp", "quic" or     *)
(* "udp".  A stream hands over its bytes in order, in pieces of any size,  *)
(* and may break; datagrams are lost, repeated and reordered.  A message   *)
(* is a member of FrameMessages; its marshalled form is as many bytes as   *)
(* the message is long, and no two messages of less than ten bytes share   *)
(* one, so that a frame that is cut at the wrong place cannot be taken for *)
(* another.                                                                *)
(***************************************************************************)
EXTENDS Integers, Sequences

CONSTANTS
    FrameMessages,  \* records [id, len, proxy]; proxy: exempt from the check of NetID
    Settings,       \* records [enable, algo, size]: the compression settings of the sender
    NetIDs,
    UdpBase,        \* 256 in the code, where a size is two bytes
    MaxDatagram,    \* what the socket takes; 65507 for UDP over IPv4
    MaxSent         \* bound: messages

IsUint32(n) == n \in Nat /\ n \div (256 * 256 * 256) < 256

ASSUME FramingAssumption ==
    /\ \A m \in FrameMessages : m.id \in Nat /\ m.len > 0 /\ IsUint32(m.len) /\ m.proxy \in BOOLEAN
    /\ \A m, n \in FrameMessages : m.id = n.id => m = n
    /\ \A s \in Settings : s.enable \in BOOLEAN /\ s.algo \in Nat /\ s.size \in Nat
    /\ \A n \in NetIDs : IsUint32(n)
    /\ UdpBase \in Nat /\ UdpBase > 1 /\ MaxDatagram \in Nat /\ MaxDatagram < UdpBase * UdpBase
    /\ MaxSent \in Nat

VARIABLES
    via, localNet, remoteNet,   \* transport, netID of the receiver and of the sender
    sent, received,             \* messages
    channel,                    \* stream: bytes on their way; udp: the set of datagrams in flight
    up,                         \* the stream is not broken
    field, buffer,              \* receiveMessage: what is being read, bytes read so far
    header,                     \* receiveMessage: what was read before
    status                      \* "open", "error": receiveMessage failed, "crash": a panic

frameVars == <<via, localNet, remoteNet, sent, received, channel, up, field, buffer, header, status>>
config == <<via, localNet, remoteNet>>
reading == <<field, buffer, header>>

NONE == 0
BZIP2 == 1
GZIP == 2
ZLIB == 3
LZW == 4

\* proto.Marshal and Unmarshal; what no message marshals to is refused.
Marshal(m) == [i \in 1..m.len |-> 10 * m.id + i]
Unmarshal(bytes) == {m \in FrameMessages : Marshal(m) = bytes}

\* The library compressors: the form of a message under an algorithm is two
\* bytes; what is no such form yields nothing.
Packed(algo, bytes) == <<200 + algo, bytes[1]>>
Unpacked(algo, bytes) ==
    LET was == {m \in FrameMessages : Packed(algo, Marshal(m)) = bytes}
    IN  IF was = {} THEN <<>> ELSE Marshal(CHOOSE m \in was : TRUE)

Compresses(s, size) == s.enable /\ size >= s.size

doBzip2Compress(src) == src
doBzip2Uncompress(src) == src
doGzipCompress(src) == Packed(GZIP, src)
doGzipUncompress(compressSrc) == Unpacked(GZIP, compressSrc)
doZlibCompress(src) == Packed(ZLIB, src)
doZlibUnCompress(compressSrc) == Unpacked(ZLIB, compressSrc)
doLzwCompress(src) == Packed(LZW, src)
doLzwUncompress(compressSrc) == Unpacked(LZW, compressSrc)

\* Compress fails on an algorithm it does not know; no bytes stand for that.
Compress(s, bytes) ==
    CASE s.algo = BZIP2 -> doBzip2Compress(bytes)
      [] s.algo = GZIP -> doGzipCompress(bytes)
      [] s.algo = ZLIB -> doZlibCompress(bytes)
      [] s.algo = LZW -> doLzwCompress(bytes)
      [] s.algo = NONE -> bytes
      [] OTHER -> <<>>

Uncompress(algo, bytes) ==
    CASE algo = BZIP2 -> doBzip2Uncompress(bytes)
      [] algo = GZIP -> doGzipUncompress(bytes)
      [] algo = ZLIB -> doZlibUnCompress(bytes)
      [] algo = LZW -> doLzwUncompress(bytes)
      [] OTHER -> bytes

\* The reader of gzip or zlib is nil for such bytes, and its use a panic.
NilReader(info, bytes) == info.enable /\ info.algo \in {GZIP, ZLIB} /\ Unpacked(info.algo, bytes) = <<>>

\* Mutant: the setting alone decides, not the size of the message.
GenCompressInfoAlways(s, msgSize) == <<IF s.enable THEN 1 ELSE 0, s.algo>>

\* Two bytes: whether the body is compressed, and how.
GenCompressInfo(s, msgSize) == <<IF Compresses(s, msgSize) THEN 1 ELSE 0, s.algo>>

GetCompressInfo(info) == [algo |-> info[2], enable |-> info[1] = 1]

PutUint32(n) == <<(n \div (256 * 256 * 256)) % 256, (n \div (256 * 256)) % 256, (n \div 256) % 256, n % 256>>
Uint32(b) == 256 * 256 * 256 * b[1] + 256 * 256 * b[2] + 256 * b[3] + b[4]

\* The frame of a message; a compression that fails leaves nothing to send.
Frame(m, s) ==
    LET bytes == IF Compresses(s, m.len) THEN Compress(s, Marshal(m)) ELSE Marshal(m)
    IN  IF bytes = <<>> THEN <<>>
        ELSE PutUint32(remoteNet) \o GenCompressInfo(s, m.len) \o PutUint32(Len(bytes)) \o bytes

FramingInit ==
    /\ via \in {"tcp", "quic", "udp"}
    /\ localNet \in NetIDs /\ remoteNet \in NetIDs
    /\ sent = <<>> /\ received = <<>>
    /\ channel = IF via = "udp" THEN {} ELSE <<>>
    /\ up = TRUE
    /\ field = "netID" /\ buffer = <<>> /\ header = <<>>
    /\ status = "open"
-----------------------------------------------------------------------------
(* Streams. *)

\* A frame is written whole, under the mutex of the writer; without one there is
\* an error, on which Write closes the client.
PutFrame(m, s) ==
    /\ up /\ Len(sent) < MaxSent
    /\ IF Frame(m, s) # <<>>
       THEN channel' = channel \o Frame(m, s) /\ sent' = Append(sent, m) /\ UNCHANGED up
       ELSE up' = FALSE /\ UNCHANGED <<channel, sent>>
    /\ UNCHANGED <<config, received, reading, status>>

sendMessage(m, s) == via = "tcp" /\ PutFrame(m, s)

\* sendQuicMessage locks the mutex itself.  Write calls it with that mutex
\* locked, and then it never returns: this is the frame of a caller that does not.
sendQuicMessage(m, s) == via = "quic" /\ PutFrame(m, s)

\* The connection breaks: some of what was written does not arrive.
BreakStream ==
    /\ via \in {"tcp", "quic"} /\ up
    /\ up' = FALSE
    /\ \E n \in 0..Len(channel) : channel' = SubSeq(channel, 1, n)
    /\ UNCHANGED <<config, sent, received, reading, status>>

\* Bytes of the field that is being read.
Wanted == CASE field = "netID" -> 4 [] field = "compress" -> 2 [] field = "size" -> 4
            [] OTHER -> Uint32(header[2])

\* n bytes more; the loop goes on until the field is complete.
Read(n) ==
    /\ Len(buffer) + n <= Wanted /\ n <= Len(channel)
    /\ buffer' = buffer \o SubSeq(channel, 1, n)
    /\ channel' = SubSeq(channel, n + 1, Len(channel))
    /\ UNCHANGED <<config, sent, received, up, field, header, status>>

ReadError ==
    /\ ~up /\ Len(buffer) < Wanted
    /\ status' = "error"
    /\ UNCHANGED <<config, sent, received, channel, up, reading>>

Field(name) == field' = name /\ buffer' = <<>>
RefuseFrame == status' = "error" /\ UNCHANGED <<received, reading>>

\* A complete field is looked at: a foreign network, an empty message and a body
\* that does not unmarshal end the loop of Accept.
FieldRead ==
    /\ Len(buffer) = Wanted
    /\ \/ /\ field = "netID"
          /\ IF Uint32(buffer) # localNet THEN RefuseFrame
             ELSE Field("compress") /\ UNCHANGED <<header, received, status>>
       \/ /\ field = "compress"
          /\ Field("size") /\ header' = <<buffer>> /\ UNCHANGED <<received, status>>
       \/ /\ field = "size"
          /\ IF Uint32(buffer) = 0 THEN RefuseFrame
             ELSE Field("body") /\ header' = Append(header, buffer) /\ UNCHANGED <<received, status>>
       \/ /\ field = "body"
          /\ LET info == GetCompressInfo(header[1])
                 body == IF info.enable THEN Uncompress(info.algo, buffer) ELSE buffer
             IN  IF NilReader(info, buffer) THEN status' = "crash" /\ UNCHANGED <<received, reading>>
                 ELSE IF Unmarshal(body) = {} \/ remoteNet # localNet THEN RefuseFrame
                 ELSE /\ received' = Append(received, CHOOSE m \in Unmarshal(body) : TRUE)
                      /\ Field("netID") /\ header' = <<>> /\ UNCHANGED status
    /\ UNCHANGED <<config, sent, channel, up>>

\* conn.Read returns some of the bytes that are there.
receiveMessage ==
    /\ via = "tcp" /\ status = "open"
    /\ FieldRead \/ (channel = <<>> /\ ReadError) \/ \E n \in 1..Wanted : Read(n)

\* io.ReadFull returns the whole field, and gives up with a part of it.
receiveQuicMessage ==
    /\ via = "quic" /\ status = "open"
    /\ FieldRead \/ (Len(channel) < Wanted /\ ReadError) \/ Read(Wanted)
-----------------------------------------------------------------------------
(* Datagrams. *)

UdpRadix == UdpBase * UdpBase
MAX_PACKAGE_SIZE == UdpRadix
STORE_PACKAGE_REAL_SIZE == 2

\* Size and message; a package that is too big is not built.
BuildRawContent(m) ==
    LET raw == <<(m.len \div UdpBase) % UdpBase, m.len % UdpBase>> \o Marshal(m)
    IN  IF Len(raw) > MAX_PACKAGE_SIZE THEN <<>> ELSE raw

\* The socket refuses what does not fit into a datagram; the error is logged.
sendUDPMessage(m) ==
    /\ via = "udp"
    /\ Len(sent) < MaxSent
    /\ sent' = Append(sent, m)
    /\ channel' = IF BuildRawContent(m) # <<>> /\ Len(BuildRawContent(m)) <= MaxDatagram
                  THEN channel \cup {BuildRawContent(m)} ELSE channel
    /\ UNCHANGED <<config, received, up, reading, status>>

\* One datagram is read, and may arrive again; its size is a 16-bit number, and
\* so is the end of the slice.
receiveUDPMessage(d, again) ==
    /\ via = "udp" /\ status = "open"
    /\ d \in channel
    /\ channel' = IF again THEN channel ELSE channel \ {d}
    /\ LET size == d[1] * UdpBase + d[2]
           end == (STORE_PACKAGE_REAL_SIZE + size) % UdpRadix
           read == d \o [i \in 1..(MAX_PACKAGE_SIZE - Len(d)) |-> 0]
           msgs == Unmarshal(SubSeq(read, 3, end))
       IN  IF end < STORE_PACKAGE_REAL_SIZE
           THEN status' = "crash" /\ UNCHANGED received
           ELSE IF \E m \in msgs : m.proxy \/ localNet = remoteNet
           THEN received' = Append(received, CHOOSE m \in msgs : TRUE) /\ UNCHANGED status
           ELSE status' = "error" /\ UNCHANGED received
    /\ Len(received) < MaxSent
    /\ UNCHANGED <<config, sent, up, reading>>

LoseDatagram(d) ==
    /\ via = "udp" /\ d \in channel
    /\ channel' = channel \ {d}
    /\ UNCHANGED <<config, sent, received, up, reading, status>>

FramingNext ==
    \/ \E m \in FrameMessages, s \in Settings : sendMessage(m, s) \/ sendQuicMessage(m, s)
    \/ BreakStream \/ receiveMessage \/ receiveQuicMessage
    \/ \E m \in FrameMessages : sendUDPMessage(m)
    \/ via = "udp" /\ \E d \in channel : LoseDatagram(d) \/ \E again \in BOOLEAN : receiveUDPMessage(d, again)

FramingSpec == FramingInit /\ [][FramingNext]_frameVars
-----------------------------------------------------------------------------
\* A receiver gets back what the sender marshalled, whatever compression the
\* sender has set for each message and however the stream cuts up the bytes: the
\* messages in order, all of them once everything is read, none of a foreign
\* network, and an error only from a foreign network or a broken stream.  Over
\* UDP what is received was sent, and no size ends the program
\* (stream.go receiveMessage, session.go receiveQuicMessage, package.go).
FramesDecoded ==
    IF via = "udp"
    THEN /\ status # "crash"
         /\ \A i \in 1..Len(received) :
                /\ \E j \in 1..Len(sent) : received[i] = sent[j]
                /\ received[i].proxy \/ localNet = remoteNet
         /\ localNet = remoteNet => status = "open"
    ELSE /\ Len(received) <= Len(sent) /\ \A i \in 1..Len(received) : received[i] = sent[i]
         /\ localNet # remoteNet => received = <<>>
         /\ localNet = remoteNet /\ up =>
                /\ status = "open"
                /\ channel = <<>> /\ field = "netID" /\ buffer = <<>> => received = sent
=============================================================================
