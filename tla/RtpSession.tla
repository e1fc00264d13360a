----------------------------- MODULE RtpSession -----------------------------
(***************************************************************************)
(* An application that builds an RTP packet, writes it, and reads it at    *)
(* the other end, through the public methods of rtp::Header and rtp::Packet*)
(* (packet/rtp_packet.{h,cc}): header extensions are set and deleted,      *)
(* fields assigned, packets written to a new vector or to one used before, *)
(* read, and a packet that was read is cloned, changed and passed on.      *)
(* Packets of other implementations arrive as well.                        *)
(***************************************************************************)
EXTENDS RtpPacket, FiniteSets

CONSTANTS
    Ids,        \* identifiers of extensions the application sets or deletes
    Payloads,   \* payloads of extensions it sets
    Fields,     \* what it assigns to padding, padding_size, csrc and payload
    Foreign,    \* buffers of other implementations
    MaxCalls    \* bound: calls

Byte == 0..255
ASSUME IdsAssumption == Ids \subseteq Byte
\* Shorter than 256 bytes and not empty: a longer first extension leaves the
\* profile as it was, and an empty one is not read back.
ASSUME PayloadsAssumption == Payloads \subseteq {p \in Seq(Byte) : Len(p) \in 1..255}
\* The count of the contributing sources has four bits.
ASSUME FieldsAssumption ==
    Fields \subseteq
        [padding : BOOLEAN, padding_size : Byte, csrc : 0..15, payload : Seq(Byte)]
ASSUME ForeignAssumption == Foreign \subseteq Seq(Byte)
ASSUME MaxCallsAssumption == MaxCalls \in Nat

VARIABLES
    tx,        \* the packet the application builds
    rx,        \* the packet it reads into
    vector,    \* the vector it passes to PacketizeTo
    wire,      \* the buffer under way, <<>> between a call that reads and one that writes
    faithful,  \* whether that was tx, written without a fault and with nothing behind it
    outcome,   \* of the last Depacketize: "none" yet, "true", "false" or "overrun"
    answer,    \* what SetExtension or DeleteExtension, called last, returned; else <<>>
    calls      \* how many calls there were

vars == <<tx, rx, vector, wire, faithful, outcome, answer, calls>>

Init ==
    /\ tx = NewPacket /\ rx = NewPacket
    /\ vector = <<>> /\ wire = <<>> /\ faithful = FALSE
    /\ outcome = "none" /\ answer = <<>> /\ calls = 0

\* The application goes on until a payload was copied from beyond its buffer.
Call ==
    /\ wire = <<>> /\ outcome # "overrun"
    /\ calls < MaxCalls /\ calls' = calls + 1

-----------------------------------------------------------------------------
(* Header::SetExtension, DeleteExtension, GetExtension.                    *)

FirstProfile(profile, payload) ==
    CASE Len(payload) <= 16 -> kExtensionProfileOneByte
      [] Len(payload) \in 17..255 -> kExtensionProfileTwoByte
      [] OTHER -> profile

\* Mutant: the size is not looked at once there is a profile.
AcceptsAnySize(profile, id, payload) ==
    CASE profile = kExtensionProfileOneByte -> id \in 1..14
      [] profile = kExtensionProfileTwoByte -> id >= 1
      [] OTHER -> id = 0
Accepts(profile, id, payload) ==
    CASE profile = kExtensionProfileOneByte -> id \in 1..14 /\ Len(payload) <= 16
      [] profile = kExtensionProfileTwoByte -> id >= 1 /\ Len(payload) <= 255
      [] OTHER -> id = 0

\* What was asked, and what the call returned.
Set(id, payload, done) == [op |-> "set", id |-> id, payload |-> payload, done |-> done]
Deleted(id, done) == [op |-> "delete", id |-> id, done |-> done]

PositionOf(p, id) == SelectInSeq(p.extensions, LAMBDA ext : ext.id = id)

\* Mutant: the new payload goes behind the old one.
UpdatedBehind(p, id, payload) == Append(p.extensions, Extension(id, payload))
Updated(p, id, payload) ==
    IF PositionOf(p, id) = 0
    THEN Append(p.extensions, Extension(id, payload))
    ELSE ReplaceAt(p.extensions, PositionOf(p, id), Extension(id, payload))

\* The first extension chooses the profile, whatever its identifier; what does
\* not suit the profile later is refused.
SetExtension(id, payload) ==
    LET accepted == tx.extension => Accepts(tx.extension_profile, id, payload) IN
    /\ Call
    /\ tx' = CASE ~accepted -> tx
               [] accepted /\ tx.extension ->
                     [tx EXCEPT !.extensions = Updated(tx, id, payload)]
               [] ~tx.extension ->
                     [tx EXCEPT !.extension = TRUE,
                                !.extension_profile = FirstProfile(@, payload),
                                !.extensions = Append(@, Extension(id, payload))]
    /\ answer' = Set(id, payload, accepted)
    /\ UNCHANGED <<rx, vector, wire, faithful, outcome>>

\* The flag and the profile stay when the last one goes.
DeleteExtension(id) ==
    LET found == tx.extension /\ PositionOf(tx, id) # 0 IN
    /\ Call
    /\ tx' = IF found
             THEN [tx EXCEPT !.extensions = RemoveAt(@, PositionOf(tx, id))]
             ELSE tx
    /\ answer' = Deleted(id, found)
    /\ UNCHANGED <<rx, vector, wire, faithful, outcome>>

GetExtension(p, id) == p.extensions[PositionOf(p, id)].payload

-----------------------------------------------------------------------------
(* The other calls.                                                        *)

\* The application assigns to the public fields.
Assign(fields) ==
    /\ Call /\ answer' = <<>>
    /\ tx' = [tx EXCEPT !.padding = fields.padding, !.padding_size = fields.padding_size,
                        !.csrc = fields.csrc, !.payload = fields.payload]
    /\ UNCHANGED <<rx, vector, wire, faithful, outcome>>

CanWrite(p) == HeaderFits(p) /\ (p.padding => p.padding_size > 0)

\* Packet::Packetize hands over what there is even if PacketizeTo gave up.
SendNew ==
    /\ Call /\ answer' = <<>>
    /\ wire' = Packetize(tx)
    /\ faithful' = CanWrite(tx)
    /\ UNCHANGED <<tx, rx, vector, outcome>>

\* The vector was perhaps used before, and is sent if PacketizeTo returns true.
SendReused ==
    LET written == PacketizeTo(tx, vector) IN
    /\ Call /\ answer' = <<>>
    /\ vector' = written.vector
    /\ IF written.done
       THEN wire' = written.vector /\ faithful' = (Len(vector) <= PacketSize(tx))
       ELSE UNCHANGED <<wire, faithful>>
    /\ UNCHANGED <<tx, rx, outcome>>

SendForeign(buf) ==
    /\ Call /\ answer' = <<>>
    /\ wire' = buf
    /\ faithful' = FALSE
    /\ UNCHANGED <<tx, rx, vector, outcome>>

Receive ==
    LET read == Depacketize(rx, wire) IN
    /\ wire # <<>>
    /\ rx' = read.packet
    /\ outcome' = read.outcome
    /\ wire' = <<>>
    /\ UNCHANGED <<tx, vector, faithful, answer, calls>>

\* The packet that was read is cloned, to be changed and written.
Clone ==
    /\ Call /\ answer' = <<>>
    /\ outcome = "true"
    /\ tx' = rx
    /\ UNCHANGED <<rx, vector, wire, faithful, outcome>>

Next ==
    \/ \E id \in Ids, payload \in Payloads : SetExtension(id, payload)
    \/ \E id \in Ids : DeleteExtension(id)
    \/ \E fields \in Fields : Assign(fields)
    \/ SendNew \/ SendReused
    \/ \E buf \in Foreign : SendForeign(buf)
    \/ Receive \/ Clone

Spec == Init /\ [][Next]_vars

-----------------------------------------------------------------------------
(* Properties.                                                             *)

(***************************************************************************)
(* A packet that can be written is as long as its size says: neither the   *)
(* header nor the payload runs past what PacketizeTo made room for         *)
(* (rtp_packet.cc:157), and the payload begins where the header ends.      *)
(***************************************************************************)
SizesRight ==
    HeaderFits(tx) => Len(HeaderBytes(tx, Zeros(PacketSize(tx)))) = HeaderSize(tx)

\* Of neither profile, a list that was emptied is one of an empty extension.
ReadBack(p) ==
    IF IsElements(p.extension_profile) \/ p.extensions # <<>>
    THEN p.extensions
    ELSE <<Extension(0, <<>>)>>

(***************************************************************************)
(* A packet written without a fault is read back, whatever was set,        *)
(* deleted, cloned and refused before: the same extensions in the same     *)
(* order, the same payload, and a padding count that does not reach beyond *)
(* the packet (rtp_packet.cc:418).  Where padding_size was set without     *)
(* padding, that many bytes of the vector come out behind the payload.     *)
(***************************************************************************)
RoundTrip ==
    wire # <<>> /\ faithful =>
        LET read == Depacketize(rx, wire) IN
        /\ read.outcome = "true"
        /\ read.packet.padding = tx.padding
        /\ read.packet.csrc = tx.csrc
        /\ read.packet.extension = tx.extension
        /\ tx.extension => read.packet.extensions = ReadBack(tx)
        /\ IsPrefix(tx.payload, read.packet.payload)
        /\ Len(read.packet.payload) = Len(tx.payload) + Flag(~tx.padding, tx.padding_size)

(***************************************************************************)
(* Whatever SetExtension let in, at most the first extension of a packet   *)
(* keeps it from being written (rtp_packet.cc:333, "No existing            *)
(* extensions, create first one", where nothing is looked at but the       *)
(* size), and no identifier is held twice.                                 *)
(***************************************************************************)
AcceptedFits ==
    /\ \A i \in 2..Len(tx.extensions) : Fits(tx.extension_profile, tx.extensions[i])
    /\ IsInjective([i \in 1..Len(tx.extensions) |-> tx.extensions[i].id])

\* The payloads GetExtension gives; it does not tell none from an empty one.
HeldBy(p) ==
    LET ids == {p.extensions[i].id : i \in 1..Len(p.extensions)}
        held == {id \in ids : p.extension /\ GetExtension(p, id) # <<>>}
    IN [id \in held |-> GetExtension(p, id)]

\* The two packets implement a map of extensions that are set, deleted, sent and
\* passed on.
Map == INSTANCE ExtensionMap WITH map <- HeldBy(tx), seen <- HeldBy(rx)
MapSpec == Map!Spec

-----------------------------------------------------------------------------
(***************************************************************************)
(* The inductive invariant behind them.  What a packet holds can be told   *)
(* apart again when it is read; a buffer under way that was written        *)
(* without a fault begins with the header of tx, goes on with its payload  *)
(* and ends with its padding count.                                        *)
(***************************************************************************)
ExtensionType == [id : Nat, payload : Seq(Nat)]
PacketType ==
    [padding : BOOLEAN, extension : BOOLEAN, csrc : 0..15, extension_profile : Nat,
     extensions : Seq(ExtensionType), payload : Seq(Nat), padding_size : Nat]

TypeInv ==
    /\ tx \in PacketType /\ rx \in PacketType
    /\ vector \in Seq(Nat) /\ wire \in Seq(Nat)
    /\ faithful \in BOOLEAN /\ outcome \in {"none", "true", "false", "overrun"}
    /\ calls \in 0..MaxCalls

Distinct(p) ==
    /\ ~p.extension => p.extensions = <<>>
    /\ p.extension_profile = kExtensionProfileOneByte =>
          \A i \in 1..Len(p.extensions) : p.extensions[i].payload # <<>>
    /\ ~IsElements(p.extension_profile) =>
          Len(p.extensions) <= 1 /\ \A i \in 1..Len(p.extensions) : p.extensions[i].id = 0

BeginsWith(buf, p) ==
    /\ Len(buf) >= HeaderSize(p)
    /\ \A i \in 1..HeaderSize(p) : buf[i] = HeaderBytes(p, <<>>)[i]

Holds(buf, p) ==
    /\ Len(buf) = PacketSize(p)
    /\ BeginsWith(buf, p)
    /\ \A i \in 1..Len(p.payload) : buf[HeaderSize(p) + i] = p.payload[i]
    /\ p.padding => buf[Len(buf)] = p.padding_size

(***************************************************************************)
(* Another implementation may hold an identifier twice or use one that     *)
(* cannot be written.  Where none does, neither does what is passed on.    *)
(***************************************************************************)
Suits(p) ==
    /\ \A i \in 2..Len(p.extensions) : Fits(p.extension_profile, p.extensions[i])
    /\ \A i, j \in 1..Len(p.extensions) : p.extensions[i].id = p.extensions[j].id => i = j

ReadSuits(buf) ==
    LET read == ReadHeader(NewPacket, buf) IN read.ok => Suits(read.packet)

ForeignSuits == \A buf \in Foreign : ReadSuits(buf)

RoundInv ==
    /\ Distinct(tx) /\ (outcome = "true" => Distinct(rx))
    /\ wire # <<>> /\ faithful => CanWrite(tx) /\ Holds(wire, tx)

SuitsInv ==
    /\ Suits(tx) /\ (outcome = "true" => Suits(rx))
    /\ wire # <<>> => ReadSuits(wire)

IndInv == TypeInv /\ RoundInv /\ (ForeignSuits => SuitsInv)
=============================================================================
