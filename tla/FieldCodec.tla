----------------------------- MODULE FieldCodec -----------------------------
(***************************************************************************)
(* What the chunks of a field file are made of: validity bits              *)
(* (splayed-format, bitmap.rs), value encodings and the chunk around them  *)
(* (splayed-codec), the rows of each chunk and the joining of the bits of  *)
(* several chunks (splayed-core).  Buffers are sequences of bytes, bytes   *)
(* are numbers below 2^ByteBits, bits count from 0 with the lowest first.  *)
(***************************************************************************)
EXTENDS Integers, Sequences, FiniteSets, SequencesExt

CONSTANTS
    ByteBits,   \* bits in a byte
    WordBits,   \* bits of the widest value (u64), a multiple of ByteBits
    ChunkRows,  \* CREATE_CHUNK_ROWS: rows of a chunk where none are asked for
    Corrupt     \* what a call returns that refuses its input

ASSUME CodecAssumption ==
    ByteBits \in Nat \ {0} /\ WordBits \in Nat \ {0} /\ ChunkRows \in Nat \ {0}

Least(a, b) == IF a <= b THEN a ELSE b
Greatest(a, b) == IF a >= b THEN a ELSE b

Byte == 0 .. 2 ^ ByteBits - 1
BitOf(byte, j) == (byte \div 2 ^ j) % 2
BitAt(bytes, i) == BitOf(bytes[i \div ByteBits + 1], i % ByteBits)
BytesFor(bits) == (bits + ByteBits - 1) \div ByteBits

----------------------------------------------------------------------------
(* Bitmaps.  The bits off, ..., off + len - 1 are a head up to the next    *)
(* byte, whole bytes and a tail.                                           *)

(* Mutant: a short range is taken to reach the end of its byte.            *)
HeadBitsLong(off, len) == IF off % ByteBits = 0 THEN 0 ELSE ByteBits - (off % ByteBits)

HeadBits(off, len) == IF off % ByteBits = 0 THEN 0 ELSE Least(ByteBits - (off % ByteBits), len)
BodyBytes(off, len) == (len - HeadBits(off, len)) \div ByteBits
TailBits(off, len) == (len - HeadBits(off, len)) % ByteBits

(* Of the byte a bits from p on, and n bits of it.                         *)
BitField(a, p, n) == (a \div 2 ^ p) % 2 ^ n
(* (a & !mask) | (b & mask), where the mask is n bits from p on.           *)
Merge(a, b, p, n) == (a - BitField(a, p, n) * 2 ^ p) + BitField(b, p, n) * 2 ^ p

PopCount(a) == Cardinality({j \in 0 .. ByteBits - 1 : BitOf(a, j) = 1})
SumOver(f(_), n) == FoldLeft(LAMBDA acc, i : acc + f(i), 0, [i \in 1 .. n |-> i])

CountOnes(bits, off, len) ==
    LET h == HeadBits(off, len)
        at == (off + h) \div ByteBits
    IN  (IF h > 0 THEN PopCount(BitField(bits[off \div ByteBits + 1], off % ByteBits, h)) ELSE 0)
        + SumOver(LAMBDA k : PopCount(bits[at + k]), BodyBytes(off, len))
        + (IF TailBits(off, len) > 0
           THEN PopCount(BitField(bits[at + BodyBytes(off, len) + 1], 0, TailBits(off, len))) ELSE 0)

(* Each of the three parts is merged into its byte or bytes of dst;        *)
(* the bytes of the body are those the function gives, counted from 0.     *)
Spread(dst, off, len, headByte, bodyBytes, tailByte) ==
    LET h == HeadBits(off, len)
        at == (off + h) \div ByteBits
        b == BodyBytes(off, len)
    IN  [i \in DOMAIN dst |->
            IF h > 0 /\ i = off \div ByteBits + 1
            THEN Merge(dst[i], headByte, off % ByteBits, h)
            ELSE IF i \in at + 1 .. at + b THEN bodyBytes[i - at - 1]
            ELSE IF TailBits(off, len) > 0 /\ i = at + b + 1
            THEN Merge(dst[i], tailByte, 0, TailBits(off, len))
            ELSE dst[i]]

FillBits(dst, off, len, valid) ==
    LET all == IF valid THEN 2 ^ ByteBits - 1 ELSE 0
    IN  IF len = 0 THEN dst ELSE Spread(dst, off, len, all, [k \in 0 .. len |-> all], all)

(* read_shifted_byte: n bits of src from a bit on, the next byte only read *)
(* if they reach into it; what is above them is not cleared.               *)
ReadShifted(src, bit, n) ==
    LET p == bit % ByteBits
        lo == src[bit \div ByteBits + 1] \div 2 ^ p
    IN  IF p + n <= ByteBits THEN lo
        ELSE lo + ((src[bit \div ByteBits + 2] * 2 ^ (ByteBits - p)) % 2 ^ ByteBits)

(* bitmap_copy_bits.                                                       *)
CopyBits(dst, off, src, from, len) ==
    LET h == HeadBits(off, len)
        body == [k \in 0 .. BodyBytes(off, len) - 1 |->
                    ReadShifted(src, from + h + k * ByteBits, ByteBits)]
        last == from + h + BodyBytes(off, len) * ByteBits
    IN  IF len = 0 THEN dst
        ELSE Spread(dst, off, len,
                    IF h > 0
                    THEN (ReadShifted(src, from, h) * 2 ^ (off % ByteBits)) % 2 ^ ByteBits ELSE 0,
                    body,
                    IF TailBits(off, len) > 0 THEN ReadShifted(src, last, TailBits(off, len)) ELSE 0)

----------------------------------------------------------------------------
(* Encodings.  Values are words of `width` bits.                           *)

(* RLE: <<run, value>> pairs.                                              *)
RleEncode(values) ==
    FoldLeft(LAMBDA acc, v : IF acc # <<>> /\ Last(acc)[2] = v
                             THEN [acc EXCEPT ![Len(acc)][1] = @ + 1]
                             ELSE Append(acc, <<1, v>>),
             <<>>, values)

RleDecode(payload, rows) ==
    LET out == FoldLeft(LAMBDA acc, r : acc \o [i \in 1 .. r[1] |-> r[2]], <<>>, payload)
    IN  IF Len(out) # rows THEN Corrupt ELSE out

(* DELTA: differences, in the widest word, cut to the value's width.       *)
DeltaEncode(values, width) ==
    [i \in DOMAIN values |->
        (IF i = 1 THEN values[1] ELSE (values[i] - values[i - 1]) % 2 ^ WordBits) % 2 ^ width]

DeltaDecode(payload, rows, width) ==
    LET prev[i \in 0 .. Len(payload)] ==
            IF i = 0 THEN 0
            ELSE IF i = 1 THEN payload[1] ELSE (prev[i - 1] + payload[i]) % 2 ^ WordBits
    IN  IF Len(payload) # rows THEN Corrupt
        ELSE [i \in 1 .. rows |-> prev[i] % 2 ^ width]

(* BITPACK: signed values are sign-extended and folded onto the naturals.  *)
MapToWord(v, width, signed) ==
    IF ~signed THEN v
    ELSE IF v < 2 ^ (width - 1) THEN 2 * v ELSE 2 * (2 ^ width - v) - 1

MapFromWord(u, width, signed) ==
    IF ~signed THEN u % 2 ^ width
    ELSE (IF u % 2 = 0 THEN u \div 2 ELSE -(u \div 2) - 1) % 2 ^ width

BitsNeeded(u) == CHOOSE n \in 0 .. WordBits : u < 2 ^ n /\ (n = 0 \/ u >= 2 ^ (n - 1))

(* A value is written to, or read from, the bytes it overlaps piece by     *)
(* piece: byte, first bit in it, number of bits, and how many were before. *)
Pieces(pos, width) ==
    LET from[done \in 0 .. width] ==
            IF done = width THEN <<>>
            ELSE LET p == pos + done
                     take == Least(ByteBits - (p % ByteBits), width - done)
                 IN  <<[byte |-> p \div ByteBits + 1, bit |-> p % ByteBits,
                        take |-> take, done |-> done]>> \o from[done + take]
    IN  from[0]

WriteBits(buf, pos, width, u) ==
    FoldLeft(LAMBDA b, x : [b EXCEPT ![x.byte] = @ + BitField(u, x.done, x.take) * 2 ^ x.bit],
             buf, Pieces(pos, width))
ReadBits(buf, pos, width) ==
    FoldLeft(LAMBDA u, x : u + BitField(buf[x.byte], x.bit, x.take) * 2 ^ x.done,
             0, Pieces(pos, width))

PackEncode(values, width, signed) ==
    LET words == [i \in DOMAIN values |-> MapToWord(values[i], width, signed)]
        w == FoldLeft(LAMBDA m, u : Greatest(m, BitsNeeded(u)), 0, words)
    IN  [width |-> w,
         bytes |-> FoldLeft(LAMBDA b, i : WriteBits(b, (i - 1) * w, w, words[i]),
                            [i \in 1 .. BytesFor(Len(values) * w) |-> 0],
                            [i \in DOMAIN values |-> i])]

PackDecode(payload, rows, width, signed) ==
    IF payload.width > WordBits \/ Len(payload.bytes) < BytesFor(rows * payload.width) THEN Corrupt
    ELSE [i \in 1 .. rows |->
            MapFromWord(ReadBits(payload.bytes, (i - 1) * payload.width, payload.width), width, signed)]

Encodings == {"plain", "delta", "rle", "bitpack"}
EncodeValues(enc, values, width, signed) ==
    CASE enc = "plain" -> values
      [] enc = "delta" -> DeltaEncode(values, width)
      [] enc = "rle" -> RleEncode(values)
      [] OTHER -> LET p == PackEncode(values, width, signed) IN <<p.width>> \o p.bytes

DecodeValues(enc, payload, rows, width, signed) ==
    CASE enc = "plain" -> IF Len(payload) # rows THEN Corrupt ELSE payload
      [] enc = "delta" -> DeltaDecode(payload, rows, width)
      [] enc = "rle" -> RleDecode(payload, rows)
      [] OTHER -> IF payload = <<>> THEN Corrupt
                  ELSE PackDecode([width |-> payload[1], bytes |-> Tail(payload)], rows, width, signed)

----------------------------------------------------------------------------
(* A chunk: the encoded values and, if there are any, the validity bits    *)
(* behind them, compressed together.  The header has the rows and the      *)
(* length of the values; whether there are bits follows from what is left. *)
(* Compression is undone exactly (an external library).                    *)
EncodeChunk(enc, values, bits, width, signed) ==
    LET encoded == EncodeValues(enc, values, width, signed)
    IN  IF bits # <<>> /\ Len(bits) # BytesFor(Len(values)) THEN Corrupt
        ELSE [rows |-> Len(values), values_len |-> Len(encoded), payload |-> encoded \o bits]

(* <<values, bits>>; no bits: all rows are valid.                          *)
DecodeChunk(enc, chunk, width, signed) ==
    LET values == DecodeValues(enc, SubSeq(chunk.payload, 1, chunk.values_len),
                               chunk.rows, width, signed)
        bits == SubSeq(chunk.payload, chunk.values_len + 1, Len(chunk.payload))
    IN  IF Len(chunk.payload) < chunk.values_len \/ values = Corrupt THEN Corrupt
        ELSE IF Len(bits) \in {0, BytesFor(chunk.rows)} THEN <<values, bits>> ELSE Corrupt

(* stitch_chunk_bits, which CastReader repeats: the bits of chunks, each   *)
(* <<rows, bits>> with its own bytes, as one run of bytes, of which the    *)
(* last is filled up with zeroes.                                          *)
Stitch(chunks) ==
    LET Push(s, bit) ==
            LET acc == s.acc + bit * 2 ^ s.n
            IN  IF s.n + 1 = ByteBits THEN [out |-> Append(s.out, acc), acc |-> 0, n |-> 0]
                ELSE [s EXCEPT !.acc = acc, !.n = @ + 1]
        Chunk(s, c) ==
            FoldLeft(LAMBDA t, i : Push(t, IF c[2] = <<>> THEN 1 ELSE BitAt(c[2], i - 1)),
                     s, [i \in 1 .. c[1] |-> i])
        s == FoldLeft(Chunk, [out |-> <<>>, acc |-> 0, n |-> 0], chunks)
    IN  IF s.n > 0 THEN Append(s.out, s.acc) ELSE s.out

----------------------------------------------------------------------------
(* The rows of each chunk.                                                 *)
Sorted(S) ==
    [i \in 1 .. Cardinality(S) |-> CHOOSE x \in S : Cardinality({y \in S : y < x}) = i - 1]

(* compute_chunk_boundaries, and the same in compress_field_file_encoded:  *)
(* <<from, to>> for each chunk.                                            *)
ChunkBoundaries(rows, offsets) ==
    IF offsets = <<>> \/ offsets[1] # 0 \/ \E i \in DOMAIN offsets : offsets[i] >= rows THEN Corrupt
    ELSE LET list == Sorted({offsets[i] : i \in DOMAIN offsets})
         IN  [i \in DOMAIN list |-> <<list[i], IF i < Len(list) THEN list[i + 1] ELSE rows>>]

UniformBoundaries(rows) ==
    [i \in 1 .. (rows + ChunkRows - 1) \div ChunkRows |->
        <<(i - 1) * ChunkRows, Least(i * ChunkRows, rows)>>]

(* sym_aligned_chunk_offsets over the syms of META, which                  *)
(* sym_chunk_offsets_from_view repeats over the runs of the input: a chunk *)
(* ends before the sym at which it has `target` rows; a sym of more than   *)
(* `cap` rows is cut.                                                      *)
(* Mutant: what is left of a sym that was cut is not counted.              *)
SymOffsetsForgetful(lens, target, cap) ==
    LET Sym(s, len) ==
            LET closes == s.acc >= target
                cuts == IF len > cap THEN {s.at + cap * k : k \in 1 .. (len - 1) \div cap} ELSE {}
            IN  [at |-> s.at + len,
                 out |-> s.out \cup (IF closes THEN {s.at} ELSE {}) \cup cuts,
                 acc |-> IF cuts # {} THEN 0 ELSE (IF closes THEN 0 ELSE s.acc) + len]
    IN  Sorted(FoldLeft(Sym, [at |-> 0, out |-> {0}, acc |-> 0], lens).out)

SymOffsets(lens, target, cap) ==
    LET Sym(s, len) ==
            LET closes == s.acc >= target
                cuts == IF len > cap THEN {s.at + cap * k : k \in 1 .. (len - 1) \div cap} ELSE {}
            IN  [at |-> s.at + len,
                 out |-> s.out \cup (IF closes THEN {s.at} ELSE {}) \cup cuts,
                 acc |-> IF cuts # {} THEN len - cap * ((len - 1) \div cap)
                         ELSE (IF closes THEN 0 ELSE s.acc) + len]
    IN  Sorted(FoldLeft(Sym, [at |-> 0, out |-> {0}, acc |-> 0], lens).out)
=============================================================================
