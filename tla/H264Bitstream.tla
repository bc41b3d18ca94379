--------------------------- MODULE H264Bitstream ---------------------------
(***************************************************************************)
(* What the host does to the bytes of the hardware encoder                 *)
(* (host/encode/src/lib.rs): parameter sets and samples come with start    *)
(* codes (Annex B) or with length fields (AVCC), and leave with start      *)
(* codes, a key frame behind the parameter sets.                           *)
(*                                                                         *)
(* A payload is a sequence of bytes.  A function that returns a Result     *)
(* gives Failed where the code gives Err.                                  *)
(***************************************************************************)
EXTENDS Integers, Sequences, SequencesExt

Byte == 0..255

Failed == [ok |-> FALSE, data |-> <<>>]
Done(data) == [ok |-> TRUE, data |-> data]

StartCode == <<0, 0, 0, 1>>
NalType(byte) == byte % 32
ParameterSets == {7, 8}

-----------------------------------------------------------------------------
LooksLikeAnnexB(payload) == IsPrefix(<<0, 0, 1>>, payload) \/ IsPrefix(StartCode, payload)

(* The big-endian number in the n bytes behind an offset. *)
BigEndian(payload, offset, n) ==
    LET value[i \in 0..n] == IF i = 0 THEN 0 ELSE value[i - 1] * 256 + payload[offset + i]
    IN  value[n]

(* length_prefixed_h264_to_annex_b: every NAL unit behind an n-byte length
   gets a start code; empty ones are skipped, a unit that is cut off or a
   payload without any unit is an error.  rest[o] is what the bytes behind
   offset o become. *)
Converted(payload, n) ==
    LET end == Len(payload)
        rest[o \in 0..end] ==
            IF o = end THEN Done(<<>>)
            ELSE IF end - o < n THEN Failed
            ELSE LET from == o + n
                     to == from + BigEndian(payload, o, n)
                 IN  IF to = from THEN rest[from]
                     ELSE IF to > end \/ ~rest[to].ok THEN Failed
                     ELSE Done(StartCode \o SubSeq(payload, from + 1, to) \o rest[to].data)
    IN  rest

LengthPrefixedToAnnexB(payload, n) ==
    LET all == Converted(payload, n)[0]
    IN  IF n \notin 1..4 \/ ~all.ok \/ all.data = <<>> THEN Failed ELSE all

(* The types of the NAL units of an Annex B payload, as AnnexBNalTypeIter finds
   them: a start code of three or four bytes and the byte behind it. *)
TypesFrom(payload) ==
    LET end == Len(payload)
        from[o \in 0..(end + 4)] ==
            IF o + 3 >= end THEN <<>>
            ELSE LET tail == SubSeq(payload, o + 1, end)
                 IN  IF IsPrefix(<<0, 0, 1>>, tail) THEN <<NalType(tail[4])>> \o from[o + 3]
                     ELSE IF IsPrefix(StartCode, tail)
                          THEN IF Len(tail) = 4 THEN <<>> ELSE <<NalType(tail[5])>> \o from[o + 4]
                     ELSE from[o + 1]
    IN  from

NalTypes(payload) == TypesFrom(payload)[0]

StartsWithParameterSet(payload) ==
    NalTypes(payload) # <<>> /\ Head(NalTypes(payload)) \in ParameterSets

OnlyParameterSets(payload) ==
    NalTypes(payload) # <<>> /\ ToSet(NalTypes(payload)) \subseteq ParameterSets

-----------------------------------------------------------------------------
(* avcc_sequence_header_to_annex_b: `count` sets with 16-bit lengths from an
   offset on; at is where the next thing starts. *)
AvccSets(config, offset, count) ==
    LET step[i \in 0..count] ==
            IF i = 0 THEN [ok |-> TRUE, at |-> offset, data |-> <<>>]
            ELSE LET p == step[i - 1]
                     to == p.at + 2 + BigEndian(config, p.at, 2)
                 IN  IF ~p.ok \/ p.at + 2 > Len(config) \/ to > Len(config)
                     THEN [ok |-> FALSE, at |-> 0, data |-> <<>>]
                     ELSE [ok |-> TRUE, at |-> to,
                           data |-> p.data \o StartCode \o SubSeq(config, p.at + 3, to)]
    IN  step[count]

NoHeader == [ok |-> FALSE, size |-> 0, data |-> <<>>]
Header(size, data) == [ok |-> TRUE, size |-> size, data |-> data]

AvccHeader(config) ==
    IF Len(config) < 7 \/ config[1] # 1 THEN NoHeader
    ELSE LET sps == AvccSets(config, 6, config[6] % 32)
         IN  IF ~sps.ok \/ sps.at >= Len(config) THEN NoHeader
             ELSE LET pps == AvccSets(config, sps.at + 1, config[sps.at + 1])
                  IN  IF pps.ok THEN Header((config[5] % 4) + 1, sps.data \o pps.data) ELSE NoHeader

(* try_length_prefixed_parameter_sets_to_annex_b: the longest length field that
   gives parameter sets and nothing else. *)
Fits(config, n) ==
    LET annex_b == LengthPrefixedToAnnexB(config, n)
    IN  annex_b.ok /\ OnlyParameterSets(annex_b.data)

LengthPrefixedHeader(config) ==
    LET fits == {n \in 1..4 : Fits(config, n)}
        n == Max(fits)
    IN  IF fits = {} THEN NoHeader ELSE Header(n, LengthPrefixedToAnnexB(config, n).data)

(* h264_sequence_header_to_annex_b: the size of the length fields of the samples
   to come, and the parameter sets. *)
SequenceHeader(config) ==
    IF LooksLikeAnnexB(config) THEN Header(4, config)
    ELSE IF config # <<>> /\ config[1] = 1 THEN AvccHeader(config)
    ELSE LengthPrefixedHeader(config)

(* assemble_annex_b_access_unit *)
AccessUnit(payload, header, size, key) ==
    LET annex_b == IF LooksLikeAnnexB(payload) THEN Done(payload)
                   ELSE LengthPrefixedToAnnexB(payload, size)
    IN  IF annex_b.ok /\ key /\ ~StartsWithParameterSet(annex_b.data)
        THEN Done(header \o annex_b.data)
        ELSE annex_b

-----------------------------------------------------------------------------
(* The reference.  A NAL unit, as H.264 has it: it does not end with a zero, and
   no start code is inside (bytes that would form one are escaped). *)
IsUnit(nal) ==
    /\ nal \in Seq(Byte) \ {<<>>}
    /\ nal[Len(nal)] # 0
    /\ \A i \in 1..(Len(nal) - 2) : ~(nal[i] = 0 /\ nal[i + 1] = 0 /\ nal[i + 2] <= 1)

NonEmpty(nals) == FlattenSeq([i \in 1..Len(nals) |-> IF nals[i] = <<>> THEN <<>> ELSE <<nals[i]>>])

(* Bytes(n, v): v as n bytes, big-endian, if it fits into them. *)
Weight == <<1, 256, 65536, 16777216>>
IsShort(v, n) == v \div Weight[n] < 256
Bytes(n, v) == [i \in 1..n |-> (v \div Weight[n - i + 1]) % 256]

(* A payload is NAL units in one of the formats that H.264 streams have. *)
StartCodes == {StartCode, <<0, 0, 1>>}
AnnexB(nals, code) == FlattenSeq([i \in 1..Len(nals) |-> code \o nals[i]])
LengthPrefixed(nals, n) == FlattenSeq([i \in 1..Len(nals) |-> Bytes(n, Len(nals[i])) \o nals[i]])
AvccRecord(sps, pps, n) ==
    <<1, 77, 64, 31, 252 + n - 1, 224 + Len(sps)>> \o LengthPrefixed(sps, 2)
        \o <<Len(pps)>> \o LengthPrefixed(pps, 2)

(* What a decoder finds in an Annex B stream: the units between start codes.  The
   zero that makes a code one of four bytes is not part of the unit before. *)
Codes(stream) == {o \in 0..(Len(stream) - 3) : SubSeq(stream, o + 1, o + 3) = <<0, 0, 1>>}
UnitEnd(stream, o) ==
    LET later == {p \in Codes(stream) : p > o}
        stop == IF later = {} THEN Len(stream) ELSE Min(later)
    IN  IF later # {} /\ stop > o + 3 /\ stream[stop] = 0 THEN stop - 1 ELSE stop

UnitsFrom(stream) ==
    LET end == Len(stream)
        from[o \in 0..end] ==
            IF o = end THEN <<>>
            ELSE IF o \in Codes(stream)
                 THEN <<SubSeq(stream, o + 4, UnitEnd(stream, o))>> \o from[o + 1]
                 ELSE from[o + 1]
    IN  from

UnitsOf(stream) == UnitsFrom(stream)[0]
=============================================================================
