------------------------------ MODULE TlvSimple ------------------------------
(***************************************************************************)
(* Parsing of SIMPLE-TLV data.  A blob is its size and the bytes the       *)
(* parser looks at: the tag, the length byte and the two bytes of a long   *)
(* length.  The value is the range of positions that is copied.            *)
(***************************************************************************)
EXTENDS Integers

CONSTANTS
    Bytes,     \* bound: the values tried for each byte of the header
    Sizes      \* bound: the sizes of the data tried

ASSUME TlvAssumption == Bytes \subseteq 0..255 /\ Sizes \subseteq Nat

VARIABLES data, tlvOutput

tlvVars == <<data, tlvOutput>>

OneByteLengthMinimumSize == 2
ThreeByteLengthMinimumSize == 4
ThreeByteLengthIndicatorValue == 255

NullPtr == [result |-> "not called"]
Failed == [result |-> "Failed"]
Tlv(tag, first, last) ==
    [result |-> "Succeeded", tag |-> tag, first |-> first, last |-> last]

\* The rest of the data is the value, and has exactly the length announced.
ParseValue(blob, headerSize, length) ==
    IF blob.size = headerSize + length
    THEN Tlv(blob.tag, blob.size - length + 1, blob.size)
    ELSE Failed

\* Mutant: the size of the data is not compared with a long length.
BugParse(blob) ==
    IF blob.size < OneByteLengthMinimumSize THEN Failed
    ELSE IF blob.length # ThreeByteLengthIndicatorValue
         THEN ParseValue(blob, OneByteLengthMinimumSize, blob.length)
    ELSE Tlv(blob.tag, ThreeByteLengthMinimumSize + 1, blob.size)

Parse(blob) ==
    IF blob.size < OneByteLengthMinimumSize THEN Failed
    ELSE IF blob.length # ThreeByteLengthIndicatorValue
         THEN ParseValue(blob, OneByteLengthMinimumSize, blob.length)
    ELSE IF blob.size < ThreeByteLengthMinimumSize THEN Failed
    ELSE ParseValue(blob, ThreeByteLengthMinimumSize,
                    (blob.high * 256 + blob.low) % 65536)

TlvInit ==
    /\ data \in [tag : {1, 2}, length : Bytes, high : Bytes, low : Bytes, size : Sizes]
    /\ tlvOutput = NullPtr

ParseData ==
    /\ tlvOutput = NullPtr
    /\ tlvOutput' = Parse(data)
    /\ UNCHANGED data

TlvSpec == TlvInit /\ [][ParseData]_tlvVars

-----------------------------------------------------------------------------
\* The two forms of an encoding, written the other way around, from a value:
\* n bytes after a header that says n.
ShortForm(blob, n) == n < 255 /\ blob.size = 2 + n /\ blob.length = n

LongForm(blob, n) ==
    /\ n < 65536 /\ blob.size = 4 + n
    /\ blob.length = 255
    /\ blob.high = n \div 256 /\ blob.low = n % 256

\* Parse is the inverse of both encodings and of nothing else: it succeeds on
\* exactly the blobs that are an encoding, and then gives the tag and all of
\* the value, at every boundary of the two lengths (0, 254, 255, 65535).
ParsesEncodingsOnly ==
    tlvOutput # NullPtr =>
        LET Encodes(n) == n >= 0 /\ (ShortForm(data, n) \/ LongForm(data, n))
            n == CHOOSE k \in {data.size - 2, data.size - 4} : Encodes(k)
        IN IF \E k \in {data.size - 2, data.size - 4} : Encodes(k)
           THEN tlvOutput = Tlv(data.tag, data.size - n + 1, data.size)
           ELSE tlvOutput = Failed
=============================================================================
