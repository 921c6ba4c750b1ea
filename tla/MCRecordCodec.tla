---------------------------- MODULE MCRecordCodec ----------------------------
(* Model-checking instance of RecordCodec: short keys and values whose     *)
(* records fit a small maxRecordSize.                                      *)
EXTENDS RecordCodec

MCKeys   == {<<107>>, <<107, 50>>}
MCValues == {<<118>>, <<0, 255>>}

\* The CRC operator computes CRC-32/IEEE: its check value over "123456789"
\* is 0xCBF43926.
ASSUME ChecksumIEEE(<<49, 50, 51, 52, 53, 54, 55, 56, 57>>) = <<38, 57, 244, 203>>
=============================================================================
