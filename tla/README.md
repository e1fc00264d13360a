# libmediartp in TLA+

libmediartp cuts encoded media frames into RTP payloads and puts them together
again. This directory holds TLA+ models of its packetizers and depacketizers,
the TLC configurations that check them on small instances, and proofs, checked
by TLAPS, of what matters most. `PROJECT.json` lists the components, the runs,
the hazards, the theorems, and for every definition the lines of `src/` it
stands for.

    tlc -config H264Safe.cfg MCH264        # any run: its cfg and its MC module
    tlapm H264Proofs.tla                   # the proofs of a module

## 1. The system

    application ── RTPPacketizer (facade) ── packetizer ──┐
                                                          ├── Sequencer (Opus, VP8; mutex)
                                             packetizer ──┘
         │ packets, over a transport the library knows nothing of
         ▼
    application ── RTPDepacketizer (facade) ── depacketizer ── payload parser

Everything is synchronous: a call of `Packetize` or `Depacketize` runs to its
end on the caller's thread. No timer, no thread, no file and no socket is in the
library; the one object with a mutex is the sequencer. What is hard about this
code is therefore not scheduling but *state that outlives a call* (stored
parameter sets, reassembly buffers, picture identifiers), *arithmetic of
sizes* at the edges of an MTU or of an integer, and *packets that are lost*
between two objects that share no state.

| component | state it keeps over calls | operations |
|---|---|---|
| `H264Packetizer` | `sps_nalu_`, `pps_nalu_`, `disable_stap_a_` | `Packetize`, `EnableStapA`, `DisableStapA` |
| `H264Depacketizer` | `fua_buffer_` | `Depacketize`, partition predicates |
| `H265Packetizer` with `H265Payloader` | `donl_`, `add_donl_`, `skip_aggregation_` | `Packetize`, `WithDONL`, `WithSkipAggregation` |
| `H265Depacketizer` | `fragment_buffer_`, `current_fragment_is_valid_`, `might_need_donl_` | `Depacketize`, `SetDONL` |
| `AV1Packetizer` | none (locals over the OBUs of a frame) | `Packetize` |
| `AV1Depacketizer` | `buffer_` | `Depacketize` |
| `VP8Packetizer` | `enable_picture_id_`, `picture_id_`, a sequencer | `Packetize`, `EnablePictureID`, `ResetPictureID` |
| `VP8Depacketizer` | the last descriptor | `Depacketize`, `IsPartitionHead/Tail` |
| `VP9Packetizer` | `flexibleMode_`, `pictureID_`, `initialized_`; a static temporal index | `Packetize`, `SetFlexibleMode`, `SetInitialPictureID` |
| `VP9Depacketizer` | the last descriptor; it appends to its caller's frame | `Depacketize`, `IsPartitionHead/Tail` |
| `OPUSPacketizer` | a sequencer | `Packetize`, `SetSequencer` |
| `RandomSequencer`, `FixedSequencer` | `sequence_number_`, `roll_over_count_`, `mutex_` | `NextSequenceNumber`, `RollOverCount` |
| `H264Packet::EmitNalus`, the scan in `H265Payloader` | none (one frame at a time) | cut a frame at its start codes |
| `Header`, `Packet` | header fields, list of extensions and its profile, padding | `Packetize`, `PacketizeTo`, `Depacketize`, `SetExtension`, `GetExtension`, `DeleteExtension`, `Clone` |
| `RTPPacketizer`, `RTPDepacketizer` | none | one forwarding call per method |

How they interact:

* A packetizer and a depacketizer meet only in the packets. Each pair is
  composed here into a *session*: packetizer, transport, depacketizer, and where
  the library leaves reassembly to the application, the application's part.
* Opus packetizers may be given a shared sequencer (`SetSequencer`), which they
  call from their threads; VP8 packetizers have one of their own.
* The application sets options between calls (STAP-A, DONL, aggregation,
  flexible mode, identifiers) and these meet what earlier calls left behind.

What makes each component correct:

* *packetizers*: every payload fits the MTU and has exactly the bytes its
  headers announce; all that was given is sent, once and in order; cutting ends;
  the marker is on the end of the frame; identifiers count what they are said to
  count;
* *depacketizers*: what comes out went in; a loss damages only what was lost;
  nothing of an earlier unit gets into a later one;
* *sessions*: without loss, sender and receiver together are a stream;
* *sequencers*: an atomic counter, for any number of threads;
* *splitters*: nothing is lost between start codes, no start code is left inside a
  NAL unit, and nothing beyond the frame is read;
* *RTP header*: the size computed is the size written, what is written is read
  back, and the extensions are a map.

## 2. Modules

| component | data | machines | session and properties | for TLC | proofs |
|---|---|---|---|---|---|
| H.264 | `H264Packet` | `H264Packetizer`, `H264Depacketizer` | `H264Session` | `MCH264` | `H264Proofs` |
| H.265 | `H265Packet` | `H265Packetizer`, `H265Depacketizer` | `H265Session` | `MCH265` | `H265Proofs` |
| AV1 | `AV1Packet` | `AV1Packetizer`, `AV1Depacketizer` | `AV1Session` | `MCAV1` | `AV1Proofs` |
| VP8 | `VP8Packet` | `VP8Packetizer` | `VP8Session` (with the depacketizer) | `MCVP8` | `VP8Proofs` |
| VP9 | `VP9Packet` | `VP9Packetizer` | `VP9Session` (with the depacketizer) | `MCVP9` | `VP9Proofs` |
| sequencers, Opus | | `Sequencer` | `OpusSenders` | `MCOpusSenders` | `SequencerProofs` |
| Annex B splitters | | `EmitNalus`, `NaluScan` | `AnnexB` | `MCAnnexB` | `AnnexBProofs` |
| RTP header and packet | `RtpPacket` | | `RtpSession` | `MCRtp` | `RtpProofs` |

Three abstract specifications say what a component promises, without its inner
workings:

* `NaluStream`: units are accepted in some order and come out in that order,
  each once, none missing. `H264Session` implements it with `stream <- sent`
  and `out <- DeliveredNalus` (a damaged unit counts as unit 0, so that damage
  is seen); `H265Session` with `stream <- SentNalus`, those of the units sent that the
  depacketizer hands out at all. Once a packet is lost (`faulty`) units may be missing
  or damaged, and only that order is promised.
* `IndexCounter`: an atomic counter that never wraps, of which a caller sees the
  remainder. `OpusSenders` implements it with `index <- Index`, the roll-over
  count and the sequence number read together, where a roll-over not counted yet
  is added.
* `ExtensionMap`: each end of an RTP stream holds extension payloads by
  identifier; one is set or deleted at a time, a call that returns false changes
  nothing, and what travels without a fault arrives as it was. `RtpSession`
  implements it with what `GetExtension` answers of the two packets.

Conventions of all models:

* **Bytes are tokens** in the codec sessions. Byte *i* of unit *k* is `<<k, i>>`. A body that comes
  out is compared byte for byte with the one that went in, so bytes that are
  missing, doubled, exchanged or of another unit all show. In the splitters and the
  RTP header, where values of bytes decide, they are numbers.
* **Units are named by position** in `given`, the history of all that the
  application handed over; a sender's variable that holds a NAL unit in the code
  holds its position here, 0 for an empty vector.
* **A call is a run of steps** (`pc`): the call, a step per unit, a step per
  turn of a fragmentation loop, the return. Nothing else of the object runs in
  between. The steps are apart so that the end of a loop is something to check;
  packets reach the transport only with `Return`.
* **History variables** (`given`, `sent`, `delivered`, `issued`, ...) are marked
  as such at their declarations, and no guard of code reads one except through
  the position it stands for.
* **Mutants.** An operator under a comment `Mutant:` is a plausible bug in the
  definition after it. No specification uses it; it is there to show which
  property would notice.

### How state and actions correspond to the code

**H.264.** `FilterNalu`, `StoreParameterSet`, `SendStapA`, `SendSingle` and
`StartFua` are the branches of `H264Packetizer::Payload`, in its order: the
filter on the type, the store of parameter sets unless STAP-A is off, the
STAP-A that is made when both sets are stored and the three units fit, the
single packet, the FU-A loop (`FuaFragment`, one turn each). Both stored sets
are cleared after the STAP-A test whether it fitted or not. `Return` is the
packet loop that puts the marker on the last payload. `Depacketize` is a step per
packet: `ParseSingle`, `ParseStapA` (with the exception for a length beyond the
payload) and `ParseFua`, which does not look at the start bit. `LengthField`
models `htons` followed by explicit stores; `SwapLength` is the host's byte
order.

**H.265.** `flushBufferedNals`, `BufferNalu`, `StartFu`, `FuFragment`,
`SkipShort` and `ContinueInPlace` are what `H265Payloader::Payload` does with one
NAL unit; `MustFlush` holds at exactly the four places where the code calls
`flushBufferedNals`. `ContinueInPlace` is the `continue` that skips the advance
of the scan. `aggregationBufferSize` and `calcMarginalAggregationSize` keep the
code's arithmetic; `BytesWritten` says independently what is written.
`ParseAggregation` hands out the first unit only, as the code does; `FuBody`
takes a decoding order number off a start fragment only. `h265_frame` is the
caller's vector, which is cleared before each unit. The MTU belongs to the
packetizer object: `mtu` is chosen from `Mtus` when it is made.

**AV1.** `Scan`, `Take` and `ScanEnd` are `Packetize`'s loop over OBUs, which
writes an OBU only when the next is known; `AppendOBUPayload` and `Fragment` are
the two halves of the method of that name and `Appended` what its caller
does with the results. `ComputeWriteSize` keeps the code's arithmetic on length
fields, whose size grows at powers of `LebBase`. The depacketizer's step is
`Depacketize`; it is defined on packets whose lengths add up (`Parseable`).

**VP8, VP9.** `Packetize` with its refusals, `Fragment` and `Return`, with the
size of the descriptor (`HeaderSize`, `headerSize`), the identifier's wrap, and
in VP9 `minInt` with its arguments cut to 16 bits. `VP8Depacketizer` replaces its
caller's frame with each payload and `VP9Depacketizer` appends, so in both
sessions an application puts frames together from heads, tails, and sequence
numbers (VP8) or the picture identifier (VP9): `Collect`, and `Depacketize` in
VP9. These are marked as the application's; their shape is the one use the
library leaves open. The tail of a VP9 frame is `E` or the marker, as in
`IsPartitionTail`; the header is the application's, which marks the last packet
of a frame or does not (`MarkersOf`).

**Sequencers.** One step per statement of `NextSequenceNumber` and
`RollOverCount`, per thread, with the `lock_guard` as the step that takes the
mutex and the unlock with the return. `OpusSenders` puts
`OPUSPacketizer::Packetize` around it, which takes its number before it looks at
the size of the frame, and a sender that asks for the roll-over count of its
number (external: what an SRTP index needs).

**Annex B.** `EmitNalus` and `NaluScan` have a step per turn of the two loops, over
frames of numbers. NAL units are ranges of the frame. `std::search` is
`FirstFrom` and `NoneFrom`; `CodeStart` and `CodeLen` the code's look at the byte
in front of a start code. The branches in which the code reads behind its vector
are actions of their own (`EmitBeyond`, `ScanBeyond`), which end the run in the
state `overrun`: what such a read returns is not modelled. `AnnexB` lets both
work on the same frame, one after the other.

**RTP header.** `RtpPacket` has `PacketSize`, `PacketizeTo` and `Depacketize` as
operators on packets and sequences of bytes, with their returns half-way
(`Unfit`, `HeaderBytes`, `ReadHeader`), the profile that stays when the extensions
are gone, and the vector that never shrinks. `RtpSession` is an application that
calls the public methods in any order: `SetExtension`, `DeleteExtension`,
`Assign` to the public fields, `SendNew` and `SendReused` (a new vector and the one
used before), `Receive`, and `Clone`, which passes on what was read. A copy of
version, marker, payload type and the four numbers from and to fixed places is
left out. The loops over extensions are recursive functions (`ElementsSize`,
`ElementsBytes`, and `Elements` with `ReadElement`, a turn of it); a length field is
right for lists below 2^18 bytes, and a larger one could only come from a packet larger
still, which another implementation would have to send.

## 3. What the runs check and show

Twelve runs: eight that pass and four in which the code breaks what it says. The
codec sessions all lose any subset of the packets.

| run | question | properties beyond types |
|---|---|---|
| `h264_safe` | what is sent, with parameter sets stored over calls and STAP-A switched at will; what a lost packet damages; does every call return? | `IndInv`, `PayloadsFit`, `SentOnceInOrder`, `FreshParameterSets`, `DamageIsLocal`, `MarkerCompletes`, `StreamSpec`, `EverySentDelivered` |
| `h265_safe` | do single packets, aggregation packets and fragments mix, with and without DONL? what does a lost packet damage? | `IndInv`, `SizesRight`, `KeptInOrder`, `DamageIsLocal`, `MarkerCompletes`, `StreamSpec`, `EveryHandedOut` |
| `av1_safe` | aggregation, fragmentation, header bits, loss | `CutsRight`, `KeptInOrder`, `SequenceStarts`, `BeginsWithHeader`, `LossIsLocal` |
| `vp8_safe` | sizes, identifiers and reassembly | `IdsCountFrames`, `LossIsLocal` |
| `vp9_safe` | the same in both modes, with sizes that wrap | `IdsCountCalls`, `NeverMixed`, `LossIsLocal` |
| `sequencer_safe` | is the shared counter one? | `OwnNumber`, `Accounted`, `IndexRight`, `CounterSpec`, `CallsReturn` |
| `annexb` | are frames cut right, and alike for both codecs? | `IndInv`, `SplitsAgree` |
| `rtp_safe` | is what is set what is written and read? | `SizesRight`, `RoundTrip`, `AcceptedFits`, `MapSpec` |

In words, the ones a reader may not expect:

* `NaluStream` lets a faulty stream skip and damage units, but not exchange them:
  of the units that come out intact, `InOrder` asks the order of the stream.
* `SentOnceInOrder` (H.264): a parameter set stored in one call may be sent in a
  later one, replaced, sent alone or dropped; no unit is ever sent twice, and the
  slices are never affected.
* `FreshParameterSets`: the sets in a STAP-A are the last given before its
  slice, *but for* those that went out on their own while STAP-A was switched off:
  a pair stored before that is sent after them. See section 6.
* `DamageIsLocal` (H.264): a damaged unit lost a fragment of its own, *or comes
  after one whose end was lost*. The second half is what the code really does,
  since `ParseFua` ignores the start bit. In H.265 and AV1 the unit that comes
  out damaged is the one that lost something, though in H.265 it may swallow later
  ones. With DONL, H.265's `AsExpected` also accepts the unit with the numbers of its
  later fragments in it (`Assembled`), which is what comes out where nothing is lost.
* `SizesRight` (H.265): the size summed up unit by unit is the size written.
* `EveryHandedOut` (H.265): `NoRoom` is its third way out, a call that never
  returns because the headers leave no room for a fragment. That is the only
  reason for which a call does not return.
* `LossIsLocal` (AV1, VP8): both directions. A unit that comes out damaged lost a
  packet of its own, and one none of whose packets was lost comes out whole. For
  VP8 the first half holds while no two packets share a sequence number
  (`Len(packets) <= Word`): a loss of 65536 packets in a row goes unnoticed.
* `IdsCountFrames`, `IdsCountCalls` (VP8, VP9) include that every payload fits the
  MTU, since the identifier decides the size of the descriptor.
* "Fits the MTU" is about the payload in every codec (`PayloadsFit`, `SizesRight`,
  `CutsRight`, `IdsCountFrames`, `IdsCountCalls`), as in the code: each packetizer
  compares `mtu_` with what it puts behind the RTP header, which H.264 calls the
  "Maximum size for RTP packet payload" (`h264_packetizer.h:26`). The 12 bytes of the
  header come on top.
* `SplitsAgree`: frames that begin with a start code are cut into the same NAL
  units for H.264 and H.265, those of no bytes aside. They differ where bytes come
  before the first start code: H.264 drops them, H.265 sends them as a NAL unit.
* `RoundTrip` (RTP): a vector that is longer than the packet is not part of
  `faithful`, as what stood behind the packet is then read as payload or as the
  padding count. A list of plain extensions that was emptied comes back as one
  empty extension; `padding_size` without `padding` makes that many bytes of the
  vector part of the payload.
* `AcceptedFits` (RTP): all extensions but the first suit the profile. The first one
  may not (its identifier is not looked at), and the packet can then not be
  written.
* `IndexRight`: the roll-over count is asked for in a second critical section; it
  may be ahead of the number but never behind, and is exact while no other
  thread has taken a number.

### The four violations

| run | the source says | the code does |
|---|---|---|
| `h264_little_endian` | "network byte order" (`h264_depacketizer.cc:73`); "Returns true if successful, false on error" (`media_rtp.h:69`) | `htons` and then high byte first: lengths are byte-swapped on a little-endian host, and the depacketizer throws on every STAP-A the packetizer makes |
| `h265_lone_fragment` | "Set end bit" (`h265_packetizer.cc:245`) | only in the `else` of the start bit: a NAL unit of `mtu - 1` bytes is one fragment without an end, and the next fragmented one is appended to it |
| `av1_lengths` | "Set W field to number of OBUs in packet" (`av1_packetizer.cc:182`) | the last fragment of an OBU is written with W = 1 and no length; the next OBU goes behind it and ORs its count into W |
| `vp9_large` | "Payload fragments a VP9 frame across one or more RTP packets" (`vp9_packetizer.h:19`) | a remainder of 65536 bytes is 0 in 16 bits: empty fragments for ever |

### Bounds, and why they are enough

Every bound is a CONSTANT named in a guard; nothing else is cut.

* **H.264**: MTU 10. With parameter sets of no body a slice of 0 just fits a
  STAP-A and one of 1 does not; 9 is the largest single unit, 10 the smallest cut,
  16 fills two fragments exactly, 17 takes three. Frames of one or
  two units and `MaxNalus` = 4 in all: a stored set, its replacement, a pair and the
  slice that uses it. Every code path depends on at most that many units at once.
* **H.265**: MTUs 20 and 5, with and without DONL. For 20, sizes on both sides of
  every test and up to three units in a packet; for 5, fragments of two bytes
  around the ends of the loop, and with DONL no room at all. Four units in all.
  Sizes of exactly one fragment are kept out of the passing run and are the
  `h265_lone_fragment` run.
* **AV1**: MTU 11 and `LebBase` 4 in place of 128, so that length fields change
  size within a packet. The frames are listed in `MCAV1`. Two families are kept out,
  each for a defect of the code: a large OBU that others follow in its last packet
  (`av1_lengths`), and a tile list just before an OBU that starts a packet
  (section 6). The proof is for all frames; only `Starts` keeps the second family out.
* **VP8**: MTU 5, identifiers wide from 2 on and wrapping at 3 in place of 128 and
  32768, so the three encodings and the wrap all occur in four frames. Sequence numbers
  have the code's 16 bits (`Word`) and start at 65534, so they wrap too.
* **VP9**: MTU 7, and for the passing run 16 values in place of 65536 for
  `minInt`; a frame of 16 bytes is the one whose size comes to 0. Identifiers wrap
  at 3. `vp9_large` runs in the code's own widths.
* **Sequencer**: two threads, five calls, a number of two bits: it rolls over
  once or twice from every start of both constructors. The proof is for any
  number of threads and any even width.
* **Annex B**: all frames of up to ten bytes 0, 1 and 2, of which 2 stands for any
  other value: two start codes of either length, zeros in front of and behind them,
  ends in the middle of one. The proof is for every frame.
* **RTP**: identifiers 0, 1, 2 and 15 (illegal, legal, and beyond the one-byte
  profile), payloads of 2, 16 and 17 bytes (both sides of that profile's limit),
  three buffers of another implementation, five calls: two extensions set, one
  deleted or set anew, the packet written and read, or read, cloned, changed and
  written. Payloads of no bytes and of 256 and more are excluded
  (`PayloadsAssumption`, section 6).

Deadlock checking is off everywhere: each instance stops when the bound on what
the application hands over is reached.

### Fairness

* Codec sessions: weak fairness of the packetizer's steps inside a call, because
  a call runs on its caller's thread until it returns, and of `Receive`, because an
  application hands every packet that arrives to the depacketizer. None of the
  application's own calls and no loss is fair.
* `OpusSenders`: weak fairness of each thread's steps inside a call.
  `std::mutex` promises no order among waiters, so no strong fairness of the lock is
  assumed; a waiting thread is only sure of it since the others' calls are
  finitely many.

## 4. What is proved

For every value of the constants that satisfies the named assumptions (TLC
evaluates these on each run):

| theorem | says | assumes beyond the module's ASSUMEs |
|---|---|---|
| `H264Proofs` | | `Mtu >= 2`, in all |
| `Invariant`, `TypeCorrect` | `IndInv` and the types, under any loss | |
| `Locality` | `DamageIsLocal`: a NAL unit is damaged only if a fragment of its own was lost, or the last fragment of an earlier one | |
| `Integrity` | `NoCorruption`: where nothing is lost, what comes out is what went in, for any NAL units, sizes and MTU | |
| `MarkerIsEnd` | `MarkerCompletes` | |
| `StoreInvariant`, `Fits`, `OnceInOrder`, `Fresh` | `StoreIndInv`, and `PayloadsFit`, `SentOnceInOrder`, `FreshParameterSets` from it | |
| `Refinement` | `Spec => StreamSpec`: packetizer, transport and depacketizer implement `NaluStream` | `~SwapLength`: the host writes the lengths right |
| `H265Proofs` | | |
| `TypeCorrect`, `Sizes`, `Order` | `TypeOK`, `SizesRight`, `KeptInOrder`, whatever is given, for every MTU | |
| `Invariant` | `IndInv` | |
| `Locality`, `Uncorrupted`, `Marker` | `DamageIsLocal`, `NoCorruption` without DONL and loss, `MarkerCompletes` | a hypothesis on the state: `NoLoneFragment` |
| `Refinement` | `Spec => StreamSpec`: packetizer, transport and depacketizer implement `NaluStream` | `[]NoLoneFragment` |
| `AV1Proofs` | | `Mtu >= 3`, in all |
| `Invariant`, `TypeCorrect` | `IndInv`, `TypeOK`, for any frames and any base of the length fields | |
| `Cuts`, `Order` | `CutsRight`, `KeptInOrder` | |
| `Starts` | `SequenceStarts` | `NoneSwallowed`: no tile list right before an OBU that starts a packet |
| `Headers`, `LossLocal` | `BeginsWithHeader`, `LossIsLocal`, whatever is lost of the packets `Receive` takes | |
| `VP8Proofs` | | |
| `Invariant`, `TypeCorrect`, `Identifiers`, `LossLocal` | `IndInv`, `TypeOK`, `IdsCountFrames`, `LossIsLocal` | |
| `VP9Proofs` | | |
| `Invariant`, `TypeCorrect`, `Unmixed`, `LossLocal` | `IndInv`, `TypeOK`, `NeverMixed`, `LossIsLocal` | |
| `Identifiers` | `IdsCountCalls` | `Mtu >= 5`: room for the descriptor |
| `SequencerProofs` | | |
| `TypeCorrect`, `SequencerCorrect` | types, mutual exclusion, `OwnNumber`, for any threads | |
| `CounterRefined` | `Spec => CounterSpec` | |
| `AllAccounted`, `RollOversRight` | `Accounted`, `IndexRight` | |
| `AnnexBProofs` | | |
| `Invariant` | `IndInv`: the NAL units `EmitNalus` emits tile the frame from its first start code on, none has a start code inside, and the frame is left only where a start code ends it, for every frame of bytes | |
| `InBounds` | a frame that does not end with a start code is never read beyond its end | |
| `SplitAlike` | `SplitsAgree`: the H.265 scan cuts every frame that begins with a start code alike | |
| `RtpProofs` | | |
| `Structure` | types, `Distinct`, and that a buffer written without a fault `Holds` the packet | |
| `Sizes`, `RoundTrips` | `SizesRight`, `RoundTrip`, for all extensions, sizes and orders of calls | |
| `Invariant` | `IndInv` | |
| `Accepted` | `AcceptedFits` | `ForeignSuits`: no packet of another implementation holds an identifier twice, or behind its first extension one that cannot be written |
| `Refinement` | `Spec => MapSpec`: the two packets implement `ExtensionMap` | `ForeignSuits` |

The hypotheses are needed. At an MTU of 1 an H.264 fragment is a start without an
end, and `NoCorruption` fails; at the MTU of 2 that AV1's constructor allows a fragment
with a length field gets no byte, and `NoneSwallowed` is the defect of section 6 turned
round; below 5 a VP9 descriptor may not fit; the lone
fragment of H.265 is the defect `h265_lone_fragment` shows, and `NoLoneFragment`
says of the units given that none is cut into one fragment. `SwapAssumption` limits
the little-endian configuration of H.264 to MTUs below 256, where a swapped length
always points behind the payload. Where another implementation sends an identifier
twice, `DeleteExtension` takes the first and `GetExtension` then finds the second, so
the extensions of a clone are no map; `MCRtp` assumes `ForeignSuits` of its buffers, and TLC
evaluates it.

**The argument for H.264.** `DamageIsLocal` is not inductive: whether the next
unit comes out whole depends on what `fua_buffer` holds, and that on the
payloads made before. `IndInv` adds what connects the ends. `ChainInv`:
fragments of a unit follow each other without a gap from byte 0, nothing comes
between, and an end bit is on the unit's last byte. `OpenInv`: only the FU-A loop
leaves a unit open, and `nalu_index` is where it stopped. `OrderInv`: fragmented
units are in the order of their numbers, so that a lost end reaches later units
only. `BufferInv`: the buffer is the prefix of the unit that has arrived, or a loss
reached it. `ShapeInv` and `LoopInv` say what other payloads and the loop look
like, `MarkInv` that a marked payload ends its unit. The proof has a lemma per
action. `AppendPayload` does the work common to all that make a payload,
`BytesJoin` (a prefix and the piece behind it make the longer prefix) is the one
fact about data, and the end bit comes down to linear arithmetic in
`FuaFragmentInd`. TLC checks `IndInv` itself in `h264_safe`.

`StoreInv` is what the sender's properties need: a stored set is of its kind, was
not sent, and every later one of its kind went out on its own. The refinement maps a
step that sends to `Accept`, an arrival that makes units to `Deliver`, a loss to
`Fail`. Until something is lost the units out are a prefix of those sent because
what `fua_buffer` holds is the unit before `nalu_index`; afterwards `OrderInv` gives
the order of those that are intact.

**The argument for H.265.** `SenderInv` is unconditional. `AggregationInv` gives
the running size in closed form, from which `SizesRight` follows for the packet
`flushBufferedNals` makes; `UnitsWritten` is a recursive function, and what it
returns for one unit more is proved by induction over the sums it goes through
(`SetInduction`, `IterationUnique`). `SessionInv` needs `NoLoneFragment`. It follows
the pattern of H.264, with two differences: `Assembled` says what fragments make
where decoding order numbers stay in, and the open unit of the receiver is known to
be the sender's only while no fragment was lost.

The refinement of `NaluStream` needs the order of what comes out as well. Its stream is
`SentNalus`, taken from `sent`; what arrives is payloads. `Handed` connects them: it
lists the unit each payload hands out when it ends one. `HandedInv` says that this
list rises and has the elements of `SentNalus`, so the two are equal
(`SentIsHanded`: a rising sequence is known by its elements). `OutInv` relates
it to the receiver: the units out are `Handed[rcvd]` while nothing is lost, and
afterwards the intact ones are among it and rise. What comes out with the header of
one unit and the end of another never passes for intact: the last byte of a body
tells units apart (`ExpectedHeader`). A step that sends maps to `Accept` or to a stutter,
since short units and all fragments but the last of a unit change nothing in the stream,
an arrival to `Deliver` or a stutter, and a loss to `Fail`.

**The argument for AV1.** `KeptInOrder` as it stands says nothing of the call under
way, and `LossIsLocal` nothing of the buffer. `Chain` holds of the packets handed over
and of those being made: an element goes on where the one before it stopped, only the
first of a packet is not the beginning of an OBU, and Z and Y of neighbours agree with
the cut between them. `OutInv` says where the last packet stands, at `written` inside
the loop of `AppendOBUPayload` and else at the end of an OBU, so that `Extends`, the step
common to its two halves (`AppendWrites`, `FragmentWrites`), keeps the chain.
`CarriedBefore` and `CarriedNow` say whose ends are in packets. That the write and its
length field fit is `WriteSize`, a fact about `ComputeWriteSize` for every base of the
length fields; sizes of packets are recursive functions, of which `PacketSizeMore`
proves one turn. On the receiving side `BufferInv` makes `buffer` the bytes of the OBU
cut at the end of the packet that came last, unless that OBU lost something, and
`DeliveredInv` and `ArrivedInv` carry this over to what `HandedOut` gathers. `Starts`
needs `SequenceInv` besides: between `Scan` and the append of the OBU before, the
decision to begin a packet is in `need_new_packet` and then in
`start_with_new_packet`, and a skipped tile list drops it.

**The argument for VP8 and VP9.** `Chain` says that fragments of a frame follow each
other from byte 0 to the one with the marker (E) and `WholeFrames` that calls hand over
all of them. In VP8 `NumberInv` makes sequence numbers count packets, so a packet the
application goes on with is the next one (`OpenInv`), and `LocalInv` that what has
arrived of a frame that lost nothing is held. In VP9 nothing but the
picture identifier tells frames apart: `IdInv` says that the identifier of a packet
is as far from the next one as their calls are, unless the application set a new
one between, and `MixedInv` that an open frame has bytes of its own alone; a marker
ends no frame early because `WholeFrames` puts it on a packet with E (`MarkedIsEnd`).
Both proofs rest on lemmas about differences modulo the wrap.

**The argument for the splitter.** That the emitted ranges tile the frame is not
inductive without where the loop stands: `AtCode` says that a start code ends at
`start + offset`, and `EmitInv` that the last NAL unit ends where that start code
begins. `NextStart` shows that the zero the code looks at in front of a start code
is never before the NAL unit, because the byte before the NAL unit is the 1 of its
own start code. `TiledAppend` is the step common to the three actions that emit.

**The argument for the RTP header.** Three facts about data carry it, each an induction
over turns of a loop. `ElementsAre`: the bytes of a list are the bytes of its elements at
the sums of their sizes, so the size computed (`SizeIs`) is the size written
(`HeaderWritten`). `ElementsRead`: whatever the bytes, the loop that reads stays in the
buffer and gives a list of extensions that can be told apart (`ReadSoFar`). And
`ElementsReadBack`: where the bytes of a list stand in a buffer (`ListInPlace`), each turn
reads one element (`OneByteRead`, `TwoByteRead`) and the zeros behind are skipped
(`PaddingRead`). `RoundTrip` is not inductive, since nothing in it says what is under
way. `RoundInv` does: `Holds` says which byte is where, and `Distinct` what keeps an
element apart from padding: no empty payload in the one-byte profile, one extension of
identifier 0 where there is no profile, none without the flag. `SetKeeps` and
`DeleteKeeps` show that the two calls keep this, `PacketizeIs` that it is established even
over a vector used before, if that is not longer than the packet, and `PacketReadBack`
reads it over any fields.

`SuitsInv` is what `AcceptedFits` needs: `Suits` of the packet built, of the one read, since
it may be cloned, and of the buffer under way (`ReadSuits`), since it may be read. The
buffer is the hard part, as `Packetize` hands over what was written before
`PacketizeTo` gave up. `BrokenSuits` shows that this is only over its first extension,
and behind it stand the zeros of a new vector, with a length of zero words. The
refinement then follows the list: `Shows` says that a map has just the payloads of a list,
two such maps are equal (`ShownAlike`), and setting, deleting and sending keep it
(`SetShows`, `DeleteShows`, `ReceiveHeld`).

**The argument for the counter.** The point where a call takes effect is the
increment. Between it and the next statement the roll-over is missing from
`roll_over_count_`; `Index` adds it, and the invariant says that at most one
thread is there, since it holds the mutex. So the increment is
`IndexCounter!Take` and every other step a stutter. `Accounted` is inductive once
numbers on their way through `Packetize` are counted (`HeldInv`). For `IndexRight`,
`CountIsTrue` computes the roll-over count from the first number and how many were
issued since, and `TrueMonotone` says that it only grows while a thread waits for
the mutex.

**The argument for the splitters.** `EmitInv` says that the NAL units tile the frame,
`FirstInv` that the first one starts behind the start code the frame begins with.
`ScanInv` ties the scan to them: when it has passed k of them it has found those of at
least one byte, and it is at the start code in front of the next, whichever length that has
(`ScannedTo`). `NextCode` is the step: from there, three bytes on, the next start code
of either length is where that NAL unit ends. For that `Joined` has to say that there is no
zero in front of a start code of three bytes, or the scan would stop one byte before.

## 5. What is only model-checked

* Liveness (`EverySentDelivered`, `EveryHandedOut`, `CallsReturn`): the prover
  does not do `ENABLED` or fairness.

Induction is done where it is needed as `SetInduction` does it: over the set of
numbers for which the claim holds, since the library's theorems take an operator; that a
recursive function is what its equation says is `IterationExists` and `IterationUnique`.

## 6. Behaviour of the code worth knowing that no run is about

* H.264: at an MTU of 2 the header of a fragment leaves no byte and the loop makes
  packets for ever; at 1 `max_fragment_size` wraps, and a NAL unit becomes a start
  fragment without an end.
* H.264: after a lost end fragment the next fragmented unit is appended to what
  is left (the second half of `DamageIsLocal`).
* H.264: a pair of parameter sets with a slice too large for a STAP-A is dropped,
  not sent on its own. `SentOnceInOrder` speaks of slices only for that reason.
* H.264: `DisableStapA` leaves a stored pair behind; after a later `EnableStapA`
  it is sent though newer sets have gone out on their own.
* H.265: at an MTU that leaves no room behind the fragment headers (3, or 5 with
  DONL) `continue` returns to the same NAL unit for ever (`ContinueInPlace`).
* H.265: of an aggregation packet only the first unit comes out; a single unit
  that is a header alone is refused; a fragment in the middle returns false, where
  `media_rtp.h:70` promises true.
* H.265 with DONL: every fragment carries a number and the receiver takes it off
  the first only, so two bytes of each later one get into the NAL unit
  (`DonlBytes`); `donl_` advances with every fragment and not with
  aggregation packets.
* AV1: at an MTU of 2, which the constructor allows, a length field leaves no
  byte for a fragment and the loop makes packets for ever. The layer of the OBU that
  starts a packet is forgotten with it, so of layers 1, 2, 3 the third shares the
  second's packet. A tile list just before a sequence header swallows
  `need_new_packet`, and the sequence goes on in the packet before, without N. A
  frame that breaks off is refused with its first packets left in the caller's vector.
* VP8: a descriptor that leaves no room makes every later call return false, and
  only a reset of the identifier helps.
* VP9: the first `Packetize` draws the identifier and overwrites
  `SetInitialPictureID`; an MTU smaller than the descriptor wraps in `minInt`;
  `tl0PicIdx` is a static that all packetizers increment, per packet and without a
  lock.
* H.264 packets all have sequence number 0; AV1 and VP9 packetizers return bare
  payloads where their depacketizers expect RTP packets. In the sessions the
  application puts the header on.
* Opus: a frame that is too large uses up a sequence number (`Accounted` says
  that exactly these gaps exist).
* RTP: the first extension chooses the profile by its size alone. If it is longer than
  255 bytes the profile stays what it was; an identifier above 14, or 0, is taken and
  the packet can then not be written, and `Packetize` hands over what was written so
  far without a word. An extension of no bytes has the length field of one of 16.
  More than 15 contributing sources run into the flags of the first byte. A reader
  that meets identifier 15 takes the rest of the extension for payload.
* RTP: the padding count of a packet is subtracted before it is compared with the
  size; larger than the packet it wraps, and the payload is copied from beyond the
  buffer (`overrun`). `RoundTrip` says that no packet of the library's own does that.
* Annex B: a frame that ends with a start code makes `EmitNalus` look for the next NAL
  unit beyond it; the H.265 scan reads beyond frames of one byte, of two zeros, and
  of three zeros at the end.
* Facade: `IsFrameStart` and `IsFrameEnd` pass the whole RTP packet where the
  predicates expect the payload, and setters a codec does not have do nothing.

## 7. What is not modelled, and why

* **Fixed fields of the RTP header**, `ToString` and buffer sizes below a packet's:
  copies from and to fixed places. The sessions take them for transported as
  written.
* **What is read beyond a buffer**: the models stop there.
* **Parsers on input the library's own packetizers do not make**: PACI and TSCI
  (H.265), the scalability structure and layer indices (VP9), extension fields
  (VP8), AV1 packets whose lengths do not add up.
* **`AV1Packet`'s own parser**, which has the rules of the depacketizer a second time.
* **Opus depacketizer**: it copies a payload and keeps no state.
* **Facade**: one forwarding call per method, no state, no condition but the codec.
  `H265Session` takes from it that DONL is set at both ends. What `IsFrameStart` and
  `IsFrameEnd` answer is one expression over the first bytes of a header whose
  fields the sessions leave out; for AV1 the end is always false.
* **Partition predicates of H.264, H.265, AV1 and Opus**: through the facade they
  get the whole packet, and inside the library nothing calls them.
* Jitter buffer, RTCP and scheduling are named in the repository's README, and
  there is no code for them.

## 8. Plan

Done, in this order: H.264 (machines, session, proofs up to the refinement),
sequencers with Opus (machines, refinement, proofs), H.265 (machines, session, loss,
refinement, proofs), AV1, VP8 and VP9 (machines, sessions, loss, proofs), RTP header
(operators, session, refinement, proofs), Annex B splitters (machines, proof).

Next, in order of what it is worth:

1. A depacketizer for AV1 packets whose lengths do not add up.
2. The parser of VP9 descriptors with layers and references, and of PACI packets,
   against descriptors of other senders.
