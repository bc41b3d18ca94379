--------------------------- MODULE MCH264Encoder ---------------------------
(* Two frame sizes, a transform that holds two frames.  The headers come as
   Annex B, as an AVCC record with 2-byte lengths, and with 2-byte lengths;
   the samples in every format, with and without parameter sets, with an empty
   unit, and with a first unit of one byte. *)
EXTENDS H264Encoder

sps == <<103, 66>>
pps == <<104, 5>>
idr == <<101, 9>>
slice == <<65, 7, 3>>

MCHeaders == {
    [bytes |-> AnnexB(<<sps, pps>>, StartCode), nals |-> <<sps, pps>>],
    [bytes |-> AvccRecord(<<sps, sps>>, <<pps>>, 2), nals |-> <<sps, sps, pps>>],
    [bytes |-> LengthPrefixed(<<pps, sps>>, 2), nals |-> <<pps, sps>>]}

MCSamples == {
    [nals |-> <<idr, slice>>, format |-> "annex_b", key |-> TRUE],
    [nals |-> <<sps, pps, idr>>, format |-> "length", key |-> TRUE],
    [nals |-> <<<<>>, idr, <<>>>>, format |-> "length", key |-> TRUE],
    [nals |-> <<slice>>, format |-> "short", key |-> FALSE],
    [nals |-> <<slice, slice>>, format |-> "length", key |-> FALSE],
    [nals |-> <<<<65>>>>, format |-> "length", key |-> FALSE]}
=============================================================================
