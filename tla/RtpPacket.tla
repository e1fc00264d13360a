----------------------------- MODULE RtpPacket -----------------------------
(***************************************************************************)
(* rtp::Header and rtp::Packet (packet/rtp_packet.{h,cc}) as values: what  *)
(* PacketizeTo writes, byte by byte, and what Depacketize reads.           *)
(*                                                                         *)
(* A byte is a number.  The version, the marker, the payload type and the  *)
(* four numbers of the fixed header are copied to and from fixed places    *)
(* and decide nothing: the first stands in its byte as 2, the others as    *)
(* bytes 0.  Of the contributing sources only the number matters.          *)
(***************************************************************************)
EXTENDS Integers, Sequences, SequencesExt

kHeaderLength == 4
kCsrcOffset == 12
kCsrcLength == 4
kExtensionProfileOneByte == 48862   \* 0xBEDE
kExtensionProfileTwoByte == 4096    \* 0x1000
kExtensionIDReserved == 15

\* The fields of a Packet and of the Header in it.
NewPacket ==
    [padding |-> FALSE, extension |-> FALSE, csrc |-> 0, extension_profile |-> 0,
     extensions |-> <<>>, payload |-> <<>>, padding_size |-> 0]

Extension(id, payload) == [id |-> id, payload |-> payload]

Zeros(n) == [i \in 1..n |-> 0]
RoundUp(n) == ((n + 3) \div 4) * 4
Smaller(a, b) == IF a <= b THEN a ELSE b

-----------------------------------------------------------------------------
(* Header::PacketSize, Packet::PacketSize.                                 *)

IsElements(profile) == profile \in {kExtensionProfileOneByte, kExtensionProfileTwoByte}

\* Any profile but two carries the first extension as it is.
Carried(p) ==
    IF IsElements(p.extension_profile)
    THEN p.extensions
    ELSE SubSeq(p.extensions, 1, Smaller(1, Len(p.extensions)))

\* Mutant: the two bytes in front of an extension are counted once.
ElementHeaderSizeOne(profile) ==
    IF IsElements(profile) THEN 1 ELSE 0
ElementHeaderSize(profile) ==
    CASE profile = kExtensionProfileOneByte -> 1
      [] profile = kExtensionProfileTwoByte -> 2
      [] OTHER -> 0

ElementsSize(profile, exts) ==
    LET size[i \in 0..Len(exts)] ==
            IF i = 0 THEN 0
            ELSE size[i - 1] + ElementHeaderSize(profile) + Len(exts[i].payload)
    IN size[Len(exts)]

FixedSize(csrc) == kCsrcOffset + csrc * kCsrcLength
HeaderSize(p) ==
    FixedSize(p.csrc)
    + IF p.extension THEN RoundUp(4 + ElementsSize(p.extension_profile, Carried(p))) ELSE 0

\* padding_size counts whether or not the packet is padded.
PacketSize(p) == HeaderSize(p) + Len(p.payload) + p.padding_size

-----------------------------------------------------------------------------
(* Header::PacketizeTo, Packet::PacketizeTo.                               *)

Fits(profile, ext) ==
    CASE profile = kExtensionProfileOneByte -> ext.id \in 1..14 /\ Len(ext.payload) <= 16
      [] profile = kExtensionProfileTwoByte -> ext.id >= 1 /\ Len(ext.payload) <= 255
      [] OTHER -> Len(ext.payload) % 4 = 0

\* Mutant: the length of a one-byte element is written as it is.
ElementBytesBare(profile, ext) ==
    (CASE profile = kExtensionProfileOneByte -> <<16 * ext.id + (Len(ext.payload) % 16)>>
       [] profile = kExtensionProfileTwoByte -> <<ext.id, Len(ext.payload)>>
       [] OTHER -> <<>>)
    \o ext.payload
\* A payload of no bytes has the length field of one of 16.
ElementBytes(profile, ext) ==
    (CASE profile = kExtensionProfileOneByte -> <<16 * ext.id + ((Len(ext.payload) + 15) % 16)>>
       [] profile = kExtensionProfileTwoByte -> <<ext.id, Len(ext.payload)>>
       [] OTHER -> <<>>)
    \o ext.payload

ElementsBytes(profile, exts) ==
    LET bytes[i \in 0..Len(exts)] ==
            IF i = 0 THEN <<>> ELSE bytes[i - 1] \o ElementBytes(profile, exts[i])
    IN bytes[Len(exts)]

Unfit(p) == SelectInSeq(Carried(p), LAMBDA ext : ~Fits(p.extension_profile, ext))
HeaderFits(p) == p.extension => Unfit(p) = 0

Flag(condition, value) == IF condition THEN value ELSE 0

(***************************************************************************)
(* What is written over the first bytes of the vector base: all of the     *)
(* header, or what comes before the first extension that does not fit; the *)
(* length then is what stood there.  The length field is right for lists   *)
(* below 2^18 bytes; more would have to come from a packet larger still.   *)
(***************************************************************************)
HeaderBytes(p, base) ==
    LET fixed == <<128 + Flag(p.padding, 32) + Flag(p.extension, 16) + p.csrc>>
                 \o Zeros(FixedSize(p.csrc) - 1)
        profile == <<p.extension_profile \div 256, p.extension_profile % 256>>
        elements == ElementsBytes(p.extension_profile, Carried(p))
        size == RoundUp(Len(elements))
        before == ElementsBytes(p.extension_profile, SubSeq(Carried(p), 1, Unfit(p) - 1))
        n == FixedSize(p.csrc)
    IN
    CASE ~p.extension -> fixed
      [] p.extension /\ HeaderFits(p) ->
            fixed \o profile \o <<size \div 1024, (size \div 4) % 256>>
            \o elements \o Zeros(size - Len(elements))
      [] p.extension /\ ~HeaderFits(p) ->
            fixed \o profile \o SubSeq(base, n + 3, n + 4) \o before

\* bytes written over those of the vector from the offset on.
Overwrite(base, offset, bytes) ==
    [i \in 1..Len(base) |->
        IF i - offset \in 1..Len(bytes) THEN bytes[i - offset] ELSE base[i]]

\* The vector grows if it must, and never shrinks.
Resize(vector, size) ==
    IF Len(vector) < size THEN vector \o Zeros(size - Len(vector)) ELSE vector

\* The vector afterwards, and what the call returned.
PacketizeTo(p, vector) ==
    LET base == Resize(vector, PacketSize(p))
        header == Overwrite(base, 0, HeaderBytes(p, base))
        whole == Overwrite(header, HeaderSize(p), p.payload)
        last == HeaderSize(p) + Len(p.payload) + p.padding_size
    IN
    CASE p.padding /\ p.padding_size = 0 -> [vector |-> vector, done |-> FALSE]
      [] OTHER ->
            IF HeaderFits(p)
            THEN [vector |-> IF p.padding THEN [whole EXCEPT ![last] = p.padding_size]
                             ELSE whole,
                  done |-> TRUE]
            ELSE [vector |-> header, done |-> FALSE]

\* A new vector; what PacketizeTo returns is not looked at.
Packetize(p) == PacketizeTo(p, Zeros(PacketSize(p))).vector

-----------------------------------------------------------------------------
(* Header::Depacketize, Packet::Depacketize.  Byte n of the code's buffer  *)
(* is buf[n + 1].                                                          *)

Unsigned16(buf, n) == 256 * buf[n + 1] + buf[n + 2]

ElementId(profile, buf, n) ==
    IF profile = kExtensionProfileOneByte THEN buf[n + 1] \div 16 ELSE buf[n + 1]

ElementLen(profile, buf, n) ==
    IF profile = kExtensionProfileOneByte THEN (buf[n + 1] % 16) + 1 ELSE buf[n + 2]

(***************************************************************************)
(* What has been read: the elements, up to where, whether the loop goes on *)
(* and whether the call does.  A turn of the loop: the identifier 15 ends  *)
(* the list on the spot, and an element may reach beyond end, but not      *)
(* beyond the buffer.                                                      *)
(***************************************************************************)
Read(extensions, n, going, ok) ==
    [extensions |-> extensions, n |-> n, going |-> going, ok |-> ok]

ReadElement(profile, buf, end, read) ==
    LET n == read.n
        One == profile = kExtensionProfileOneByte
        id == ElementId(profile, buf, n)
        first == n + ElementHeaderSize(profile)
        next == first + ElementLen(profile, buf, n)
    IN
    IF ~read.going \/ n >= end THEN read
    ELSE IF buf[n + 1] = 0 THEN Read(read.extensions, n + 1, TRUE, TRUE)
    ELSE IF One /\ id = kExtensionIDReserved THEN Read(read.extensions, n + 1, FALSE, TRUE)
    ELSE IF ~One /\ n + 1 >= Len(buf) THEN Read(read.extensions, n + 1, FALSE, FALSE)
    ELSE IF next > Len(buf) THEN Read(read.extensions, first, FALSE, FALSE)
    ELSE Read(Append(read.extensions, Extension(id, SubSeq(buf, first + 1, next))),
              next, TRUE, TRUE)

\* The loop from n up to end; a turn advances, so as many turns as bytes are enough.
Elements(profile, buf, n, end) ==
    LET read[i \in 0 .. end - n] ==
            IF i = 0 THEN Read(<<>>, n, TRUE, TRUE)
            ELSE ReadElement(profile, buf, end, read[i - 1])
    IN read[end - n]

ReadExtensions(profile, buf, n, end) ==
    IF IsElements(profile)
    THEN Elements(profile, buf, n, end)
    ELSE Read(<<Extension(0, SubSeq(buf, n + 1, end))>>, end, FALSE, TRUE)

(***************************************************************************)
(* The header read over the fields of p, how long it was, and whether the  *)
(* call returned true.  The profile stays where there is no extension, and *)
(* a buffer that breaks off leaves the fields read by then.                *)
(***************************************************************************)
ReadHeader(p, buf) ==
    LET flags == buf[1]
        n == FixedSize(flags % 16)
        begun == [p EXCEPT !.padding = (flags \div 32) % 2 = 1,
                           !.extension = (flags \div 16) % 2 = 1]
        cleared == [begun EXCEPT !.csrc = flags % 16, !.extensions = <<>>]
        profile == Unsigned16(buf, n)
        profiled == [cleared EXCEPT !.extension_profile = profile]
        end == n + 4 + 4 * Unsigned16(buf, n + 2)
        read == ReadExtensions(profile, buf, n + 4, end)
        Result(packet, size, ok) == [packet |-> packet, size |-> size, ok |-> ok]
    IN
    IF Len(buf) < kHeaderLength THEN Result(p, 0, FALSE)
    ELSE IF Len(buf) < n THEN Result(begun, 0, FALSE)
    ELSE IF ~begun.extension THEN Result(cleared, n, TRUE)
    ELSE IF Len(buf) < n + 4 THEN Result(cleared, 0, FALSE)
    ELSE IF Len(buf) < end THEN Result(profiled, 0, FALSE)
    ELSE Result([profiled EXCEPT !.extensions = read.extensions], read.n, read.ok)

(***************************************************************************)
(* The packet read over the fields of p, and what the call did: "true",    *)
(* "false", or "overrun" where the padding count is larger than the        *)
(* buffer, `end` wraps and the payload is copied from beyond it.           *)
(***************************************************************************)
Depacketize(p, buf) ==
    LET header == ReadHeader(p, buf)
        padding_size == IF header.packet.padding THEN buf[Len(buf)] ELSE 0
        end == Len(buf) - padding_size
        counted == [header.packet EXCEPT !.padding_size = padding_size]
        Result(packet, outcome) == [packet |-> packet, outcome |-> outcome]
    IN
    IF ~header.ok \/ (header.packet.padding /\ Len(buf) <= header.size)
    THEN Result(header.packet, "false")
    ELSE IF end < 0 THEN Result(counted, "overrun")
    ELSE IF end < header.size THEN Result(counted, "false")
    ELSE Result([counted EXCEPT !.payload = SubSeq(buf, header.size + 1, end)], "true")
=============================================================================
