------------------------------ MODULE RtmpCodec ------------------------------
(***************************************************************************)
(* src/rtmp_server.rs: RtmpCodec, and a peer whose bytes it decodes.       *)
(*                                                                         *)
(* A message arrives as a chunk: a basic header of one to three bytes, a   *)
(* message header whose length the two top bits choose (fmt), four bytes   *)
(* of extended timestamp if the short one is 0xFFFFFF, and the payload up  *)
(* to the chunk size.  A peer sends the rest of a longer payload in chunks *)
(* of fmt 3.  The codec keeps nothing from one chunk to the next: it can   *)
(* neither join chunks nor fill in the fields that fmt 1 to 3 leave out.   *)
(* TCP delivers the bytes in pieces of any size.                           *)
(***************************************************************************)
EXTENDS Naturals, Sequences

CONSTANTS
    ChunkSize,      \* RtmpCodec.chunk_size: 128, whatever SetChunkSize says
    Timestamps, Payloads,   \* bounds: what peers send
    MaxMessages     \* bound: messages of one connection

Byte == 0..255
Extended == 16777215
Top == 16777216             \* the place of the fourth byte

ASSUME CodecAssumption ==
    /\ ChunkSize \in Nat /\ MaxMessages \in Nat
    /\ \A t \in Timestamps : t \in Nat /\ t \div Top \in Byte    \* u32
    /\ \A p \in Payloads : p \in Seq(Byte) /\ Len(p) <= Extended      \* u24

VARIABLES
    sent,           \* messages the peer has sent
    wire,           \* bytes on their way
    buffer,         \* bytes received and not decoded yet
    received,       \* messages decoded
    broken          \* the decoder has returned an error

codecVars == <<sent, wire, buffer, received, broken>>

Types == {1, 2, 3, 4, 5, 6, 8, 9, 15, 16, 17, 18, 19, 20, 22}

(* form: as this code's encoder sends it, in a chunk that says its length  *)
(* and type (fmt 0 or 1), or in one that does not (fmt 2 or 3).            *)
Messages == [type : {9, 20}, timestamp : Timestamps, stream : {1}, payload : Payloads,
             form : {"encoded", "headed", "bare"}]

Big3(n) == <<(n \div 65536) % 256, (n \div 256) % 256, n % 256>>
Little4(n) == <<n % 256, (n \div 256) % 256, (n \div 65536) % 256,
                n \div Top>>
-----------------------------------------------------------------------------
(* IsExtendedLate is a faulty variant of IsExtended; no action uses it.    *)
-----------------------------------------------------------------------------
(* Encoder: always fmt 0 on chunk stream 2, the payload in one piece       *)
(* however long, the top byte of the timestamp dropped and never extended. *)
Encode(m) ==
    <<2>> \o Big3(m.timestamp % Top) \o Big3(Len(m.payload)) \o <<m.type>> \o Little4(m.stream)
          \o m.payload

More == [is |-> "more"]
Invalid == [is |-> "invalid"]

(* Bytes of the message header by fmt, 0 to 3. *)
HeaderSize == <<11, 7, 3, 0>>
BasicSize(first) == IF first % 64 = 0 THEN 2 ELSE IF first % 64 = 1 THEN 3 ELSE 1
FromBig3(src, at) == src[at] * 65536 + src[at + 1] * 256 + src[at + 2]

IsExtendedLate(short) == short > Extended

IsExtended(short) == short >= Extended

(* Decoder: a message and how many bytes it took, or More, or Invalid.     *)
(* Twelve bytes are waited for even if the chunk is shorter.  A chunk that *)
(* says no length and type has length 0 and type 0, which is no type.  The *)
(* timestamp and the stream of a message are read by nothing.              *)
Decode(src) ==
    LET fmt == src[1] \div 64
        basic == BasicSize(src[1])
        plain == basic + HeaderSize[fmt + 1]
        short == IF fmt = 3 THEN 0 ELSE FromBig3(src, basic + 1)
        length == IF fmt <= 1 THEN FromBig3(src, basic + 4) ELSE 0
        type == IF fmt <= 1 THEN src[basic + 7] ELSE 0
        header == IF IsExtended(short) THEN plain + 4 ELSE plain
        end == header + IF length < ChunkSize THEN length ELSE ChunkSize
    IN  IF Len(src) < 12 \/ Len(src) < plain THEN More
        ELSE IF Len(src) < end THEN More
        ELSE IF type \notin Types THEN Invalid
        ELSE [is |-> "message", type |-> type, size |-> end,
              payload |-> SubSeq(src, header + 1, end)]
-----------------------------------------------------------------------------
(* The peer.                                                               *)

Fits(m) == Len(m.payload) <= ChunkSize
Cut(m) == IF Fits(m) THEN m.payload ELSE SubSeq(m.payload, 1, ChunkSize)

(* Basic headers of the three sizes; Rest has that of fmt 3 for each.      *)
Basic(fmt) == {<<fmt * 64 + 3>>, <<fmt * 64, 6>>, <<fmt * 64 + 1, 6, 1>>}

Stamp(m) == Big3(IF m.timestamp >= Extended THEN Extended ELSE m.timestamp)
Extension(m) == IF m.timestamp >= Extended
                THEN <<m.timestamp \div Top>> \o Big3(m.timestamp % Top) ELSE <<>>

Fields(m, fmt) ==
    IF fmt <= 1 THEN Stamp(m) \o Big3(Len(m.payload)) \o <<m.type>>
                       \o (IF fmt = 0 THEN Little4(m.stream) ELSE <<>>) \o Extension(m)
    ELSE IF fmt = 2 THEN Stamp(m) \o Extension(m)
    ELSE <<>>

Rest(m, basic) ==
    IF Fits(m) THEN <<>>
    ELSE <<(basic[1] % 64) + 192>> \o Tail(basic)
           \o SubSeq(m.payload, ChunkSize + 1, Len(m.payload))

Chunks(m, fmt, basic) == basic \o Fields(m, fmt) \o Cut(m) \o Rest(m, basic)

(* A peer that sends sooner is one whose bytes arrive later: nothing is    *)
(* lost by waiting for an empty wire.                                      *)
Send(m, bytes) ==
    /\ wire = <<>> /\ ~broken /\ Len(sent) < MaxMessages
    /\ sent' = Append(sent, m)
    /\ wire' = bytes
    /\ UNCHANGED <<buffer, received, broken>>

(* As another peer of this code would. *)
SendEncoded(m) == m.form = "encoded" /\ Send(m, Encode(m))

SendChunks(m, fmts) == \E fmt \in fmts : \E basic \in Basic(fmt) : Send(m, Chunks(m, fmt, basic))

(* The first chunk of a connection is complete. *)
SendHeaded(m) == m.form = "headed" /\ SendChunks(m, IF sent = <<>> THEN {0} ELSE {0, 1})

(* A new message that leaves out its length and type, those of an earlier  *)
(* one, or every field.                                                    *)
SendBare(m) == m.form = "bare" /\ sent # <<>> /\ SendChunks(m, {2, 3})

Deliver ==
    /\ wire # <<>> /\ ~broken
    /\ buffer' = Append(buffer, Head(wire))
    /\ wire' = Tail(wire)
    /\ UNCHANGED <<sent, received, broken>>

(* Framed asks the decoder after every read. *)
Receive ==
    LET chunk == Decode(buffer)
    IN  /\ buffer # <<>> /\ ~broken
        /\ chunk # More
        /\ broken' = (chunk = Invalid)
        /\ received' = IF chunk = Invalid THEN received ELSE Append(received, chunk)
        /\ buffer' = IF chunk = Invalid THEN <<>>
                     ELSE SubSeq(buffer, chunk.size + 1, Len(buffer))
        /\ UNCHANGED <<sent, wire>>

CodecInit == sent = <<>> /\ wire = <<>> /\ buffer = <<>> /\ received = <<>> /\ broken = FALSE
CodecNext ==
    \/ \E m \in Messages : SendEncoded(m) \/ SendHeaded(m) \/ SendBare(m)
    \/ Deliver \/ Receive
CodecSpec == CodecInit /\ [][CodecNext]_codecVars
-----------------------------------------------------------------------------
(* Properties.                                                             *)

CodecTypeOK ==
    /\ sent \in Seq(Messages) /\ Len(sent) <= MaxMessages
    /\ wire \in Seq(Byte) /\ buffer \in Seq(Byte)
    /\ \A i \in DOMAIN received : received[i].is = "message"
    /\ broken \in BOOLEAN

(* The decoder takes all of the message's bytes and no other.              *)
Whole(m) == Fits(m) /\ m.form # "bare"

(* What this code's encoder sends is not what its decoder reads: payload   *)
(* beyond the chunk size follows without a header, and a short timestamp   *)
(* of 0xFFFFFF announces bytes that are not there.                         *)
Astray(m) == m.form = "encoded" /\ (~Fits(m) \/ m.timestamp % Top >= Extended)

(* However the bytes are cut up by TCP, the messages decoded are those     *)
(* sent, in order and with their type, each one's payload cut at the chunk *)
(* size, up to the first that goes astray.  The decoder breaks only at a   *)
(* message that says no type, or at the chunk after a payload it has cut,  *)
(* or once a message has gone astray; and it goes past neither of the      *)
(* first two.                                                              *)
Framing ==
    /\ \A i \in DOMAIN received :
         (\A j \in DOMAIN sent : j <= i => ~Astray(sent[j])) =>
           /\ i <= Len(sent) /\ sent[i].form # "bare"
           /\ received[i].type = sent[i].type
           /\ received[i].payload = Cut(sent[i])
           /\ i < Len(received) => Whole(sent[i])
    /\ broken => \E j \in DOMAIN sent :
         \/ j <= Len(received) + 1 /\ Astray(sent[j])
         \/ j = Len(received) /\ ~Fits(sent[j])
         \/ j = Len(received) + 1 /\ sent[j].form = "bare"
=============================================================================
