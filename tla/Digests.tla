------------------------------ MODULE Digests ------------------------------
(***************************************************************************)
(* The digests that authentication, stream initiation and entity           *)
(* capabilities rest on (src/md5.cpp, src/sha.cpp).  An object is fed a    *)
(* message in pieces, asked for its digest and reset.  Of whole blocks it  *)
(* holds their sequence; the digest of a sequence is computed when it is   *)
(* asked for.  A byte is a number, a word of 32 bits the set of its bits.  *)
(* A message may follow others of which only the length matters.           *)
(***************************************************************************)
EXTENDS Naturals, Sequences, SequencesExt

CONSTANTS Messages,  \* sequences of bytes
          PieceLengths, \* the lengths of the pieces they are fed in
          Before,    \* numbers of bytes fed before, in whole blocks
          Late,      \* the digests that are fed after they were asked for
          MaxRounds, \* bound on the messages of one object
          Stated     \* digests the tests of the repository state

VARIABLE digest

digestVars == <<digest>>

-----------------------------------------------------------------------------
(* Words of 32 bits. *)

Bits == 0..31

Word(halves) ==
    {i \in Bits : (halves[2 - (i \div 16)] \div 2^(i % 16)) % 2 = 1}

Xor(x, y) == (x \ y) \cup (y \ x)
Not(x) == Bits \ x
Shift(bits, word) == {(i + bits) % 32 : i \in word}

RECURSIVE Plus(_, _)
Plus(x, y) ==
    IF y = {} THEN x ELSE Plus(Xor(x, y), {i + 1 : i \in (x \cap y) \ {31}})

\* Byte i of a word, the least significant first.
ByteOf(word, i) ==
    LET weight[n \in 0..8] == IF n = 8 THEN 0 ELSE (IF 8 * i + n \in word THEN 1 ELSE 0) + 2 * weight[n + 1]
    IN weight[0]

\* The word of four bytes, the least significant first.
OfBytes(bytes) == {i \in Bits : (bytes[i \div 8 + 1] \div 2^(i % 8)) % 2 = 1}

\* Word k of a block, from 0.
Little(block, k) == OfBytes(SubSeq(block, 4 * k + 1, 4 * k + 4))
Big(block, k) == OfBytes(Reverse(SubSeq(block, 4 * k + 1, 4 * k + 4)))

-----------------------------------------------------------------------------
(* MD5. *)

MD5Start == <<<<\h6745, \h2301>>, <<\hefcd, \hab89>>, <<\h98ba, \hdcfe>>, <<\h1032, \h5476>>>>

MD5Table == <<
    <<\hd76a, \ha478>>, <<\he8c7, \hb756>>, <<\h2420, \h70db>>, <<\hc1bd, \hceee>>,
    <<\hf57c, \h0faf>>, <<\h4787, \hc62a>>, <<\ha830, \h4613>>, <<\hfd46, \h9501>>,
    <<\h6980, \h98d8>>, <<\h8b44, \hf7af>>, <<\hffff, \h5bb1>>, <<\h895c, \hd7be>>,
    <<\h6b90, \h1122>>, <<\hfd98, \h7193>>, <<\ha679, \h438e>>, <<\h49b4, \h0821>>,
    <<\hf61e, \h2562>>, <<\hc040, \hb340>>, <<\h265e, \h5a51>>, <<\he9b6, \hc7aa>>,
    <<\hd62f, \h105d>>, <<\h0244, \h1453>>, <<\hd8a1, \he681>>, <<\he7d3, \hfbc8>>,
    <<\h21e1, \hcde6>>, <<\hc337, \h07d6>>, <<\hf4d5, \h0d87>>, <<\h455a, \h14ed>>,
    <<\ha9e3, \he905>>, <<\hfcef, \ha3f8>>, <<\h676f, \h02d9>>, <<\h8d2a, \h4c8a>>,
    <<\hfffa, \h3942>>, <<\h8771, \hf681>>, <<\h6d9d, \h6122>>, <<\hfde5, \h380c>>,
    <<\ha4be, \hea44>>, <<\h4bde, \hcfa9>>, <<\hf6bb, \h4b60>>, <<\hbebf, \hbc70>>,
    <<\h289b, \h7ec6>>, <<\heaa1, \h27fa>>, <<\hd4ef, \h3085>>, <<\h0488, \h1d05>>,
    <<\hd9d4, \hd039>>, <<\he6db, \h99e5>>, <<\h1fa2, \h7cf8>>, <<\hc4ac, \h5665>>,
    <<\hf429, \h2244>>, <<\h432a, \hff97>>, <<\hab94, \h23a7>>, <<\hfc93, \ha039>>,
    <<\h655b, \h59c3>>, <<\h8f0c, \hcc92>>, <<\hffef, \hf47d>>, <<\h8584, \h5dd1>>,
    <<\h6fa8, \h7e4f>>, <<\hfe2c, \he6e0>>, <<\ha301, \h4314>>, <<\h4e08, \h11a1>>,
    <<\hf753, \h7e82>>, <<\hbd3a, \hf235>>, <<\h2ad7, \hd2bb>>, <<\heb86, \hd391>>>>

Turns == <<<<7, 12, 17, 22>>, <<5, 9, 14, 20>>, <<4, 11, 16, 23>>, <<6, 10, 15, 21>>>>

\* The functions F, G, H and I, by round.
Mixed(round, x, y, z) ==
    CASE round = 0 -> (x \cap y) \cup (Not(x) \cap z)
      [] round = 1 -> (x \cap z) \cup (y \cap Not(z))
      [] round = 2 -> Xor(x, Xor(y, z))
      [] OTHER -> Xor(y, x \cup Not(z))

\* The word of the block that operation i takes.
Taken(round, i) ==
    (CASE round = 0 -> i [] round = 1 -> 5 * i + 1 [] round = 2 -> 3 * i + 5 [] OTHER -> 7 * i) % 16

RECURSIVE MD5Rounds(_, _, _), MD5Blocks(_, _), ShaRounds(_, _, _), ShaWords(_), ShaBlocks(_, _)

\* SET, 64 times, the registers changing places.  (There are always 4; asking makes
\* TLC evaluate one round before the next.)
MD5Rounds(abcd, block, i) ==
    LET round == i \div 16
        mixed == Mixed(round, abcd[2], abcd[3], abcd[4])
        t == Plus(Plus(abcd[1], mixed), Plus(Little(block, Taken(round, i)), Word(MD5Table[i + 1])))
        turned == Plus(Shift(Turns[round + 1][(i % 4) + 1], t), abcd[2])
    IN IF i = 64 \/ Len(abcd) # 4 THEN abcd
       ELSE MD5Rounds(<<abcd[4], turned, abcd[2], abcd[3]>>, block, i + 1)

Added(x, y) == [i \in DOMAIN x |-> Plus(x[i], y[i])]

MD5Process(abcd, block) == Added(abcd, MD5Rounds(abcd, block, 0))

MD5Blocks(abcd, blocks) ==
    IF blocks = <<>> THEN abcd ELSE MD5Blocks(MD5Process(abcd, Head(blocks)), Tail(blocks))

-----------------------------------------------------------------------------
(* SHA. *)

ShaStart == MD5Start \o <<<<\hc3d2, \he1f0>>>>

ShaTable == <<<<\h5a82, \h7999>>, <<\h6ed9, \heba1>>, <<\h8f1b, \hbcdc>>, <<\hca62, \hc1d6>>>>

ShaWords(w) ==
    LET t == Len(w) + 1
    IN IF t > 80 THEN w
       ELSE ShaWords(Append(w, Shift(1, Xor(Xor(w[t - 3], w[t - 8]), Xor(w[t - 14], w[t - 16])))))

Chosen(round, b, c, d) ==
    CASE round = 0 -> (b \cap c) \cup (Not(b) \cap d)
      [] round = 2 -> (b \cap c) \cup (b \cap d) \cup (c \cap d)
      [] OTHER -> Xor(b, Xor(c, d))

ShaRounds(h, w, t) ==
    LET round == t \div 20
        chosen == Chosen(round, h[2], h[3], h[4])
        temp == Plus(Plus(Shift(5, h[1]), chosen), Plus(h[5], Plus(w[t + 1], Word(ShaTable[round + 1]))))
    IN IF t = 80 \/ Len(h) # 5 THEN h
       ELSE ShaRounds(<<temp, h[1], Shift(30, h[2]), h[3], h[4]>>, w, t + 1)

ShaProcess(h, block) == Added(h, ShaRounds(h, ShaWords([k \in 1..16 |-> Big(block, k - 1)]), 0))

ShaBlocks(h, blocks) ==
    IF blocks = <<>> THEN h ELSE ShaBlocks(ShaProcess(h, Head(blocks)), Tail(blocks))

-----------------------------------------------------------------------------
(* The message in blocks of 64 bytes.  A length in bits is kept as two words *)
(* of 32; the lower one is a multiple of 8, kept as the number of bytes.     *)

Lowest == 2^29

\* The lower word of the length, byte by byte, the least significant first.
LowBytes(low) == <<(low % 32) * 8, (low \div 2^5) % 256, (low \div 2^13) % 256, low \div 2^21>>
HighBytes(high) == <<high % 256, (high \div 2^8) % 256, (high \div 2^16) % 256, (high \div 2^24) % 256>>

\* A buffer of 64 bytes with data written at an offset.
Put(buf, offset, data) ==
    [i \in 1..64 |-> IF i \in (offset + 1)..(offset + Len(data)) THEN data[i - offset] ELSE buf[i]]

Full(data) == [k \in 1..(Len(data) \div 64) |-> SubSeq(data, 64 * k - 63, 64 * k)]
Tailed(data) == SubSeq(data, Len(data) - (Len(data) % 64) + 1, Len(data))

MD5Feed(d, data) ==
    LET n == Len(data)
        low == (d.low + n) % Lowest
        offset == d.low % 64
        copy == IF offset = 0 THEN 0 ELSE IF offset + n > 64 THEN 64 - offset ELSE n
        buf == Put(d.buf, offset, SubSeq(data, 1, copy))
        rest == SubSeq(data, copy + 1, n)
        counted == [d EXCEPT !.low = low, !.high = @ + n \div Lowest + (IF low < n THEN 1 ELSE 0)]
    IN IF n = 0 THEN d
       ELSE IF offset > 0 /\ offset + copy < 64 THEN [counted EXCEPT !.buf = buf]
       ELSE [counted EXCEPT !.blocks = @ \o (IF offset > 0 THEN <<buf>> ELSE <<>>) \o Full(rest),
                            !.buf = Put(buf, 0, Tailed(rest))]

Zeros(n) == [i \in 1..n |-> 0]

MD5Finalize(d) ==
    LET padded == MD5Feed(d, <<128>> \o Zeros((119 - (d.low % 64)) % 64))
    IN IF d.finished THEN d
       ELSE [MD5Feed(padded, LowBytes(d.low) \o HighBytes(d.high)) EXCEPT !.finished = TRUE]

(* SHA takes a byte at a time; Message_Block_Index is d.index.               *)
ShaProcessed(d) == [d EXCEPT !.blocks = Append(@, d.buf), !.index = 0]

RECURSIVE ShaBytes(_, _)
ShaBytes(d, data) ==
    LET low == (d.low + 1) % Lowest
        put == [d EXCEPT !.buf[d.index + 1] = Head(data), !.index = @ + 1, !.low = low,
                         !.high = IF low = 0 THEN @ + 1 ELSE @]
    IN IF data = <<>> \/ d.corrupted THEN d
       ELSE ShaBytes(IF put.index = 64 THEN ShaProcessed(put) ELSE put, Tail(data))

ShaFeed(d, data) ==
    IF data = <<>> THEN d
    ELSE IF d.finished \/ d.corrupted THEN [d EXCEPT !.corrupted = TRUE]
    ELSE ShaBytes(d, data)

\* Zeros up to an index.
Filled(d, index) == [d EXCEPT !.buf = Put(@, d.index, Zeros(index - d.index)), !.index = index]

Pad(d) ==
    LET begun == [d EXCEPT !.buf[d.index + 1] = 128, !.index = @ + 1]
        roomy == IF begun.index > 56 THEN ShaProcessed(Filled(begun, 64)) ELSE begun
        length == Reverse(HighBytes(d.high)) \o Reverse(LowBytes(d.low))
    IN ShaProcessed([Filled(roomy, 56) EXCEPT !.buf = Put(@, 56, length)])

ShaFinalize(d) == IF d.finished THEN d ELSE [Pad(d) EXCEPT !.finished = TRUE]

-----------------------------------------------------------------------------
(* An object and its user. *)

FeedOf(d, data) == IF d.kind = "md5" THEN MD5Feed(d, data) ELSE ShaFeed(d, data)
FinalizeOf(d) == IF d.kind = "md5" THEN MD5Finalize(d) ELSE ShaFinalize(d)

\* init() leaves the buffer as it is.
Reset(d) == [d EXCEPT !.blocks = <<>>, !.low = 0, !.high = 0, !.index = 0, !.finished = FALSE, !.corrupted = FALSE]

DigestsInit ==
    digest \in {[kind |-> k, message |-> m, before |-> n, fed |-> 0, late |-> FALSE, round |-> 1,
                 buf |-> Zeros(64), blocks |-> <<>>, index |-> 0, low |-> n % Lowest, high |-> n \div Lowest,
                 finished |-> FALSE, corrupted |-> FALSE] :
                   k \in {"md5", "sha"}, m \in Messages, n \in Before}

Feeds(n) ==
    /\ ~digest.finished /\ digest.fed < Len(digest.message)
    /\ LET end == IF digest.fed + n > Len(digest.message) THEN Len(digest.message) ELSE digest.fed + n
       IN digest' = [FeedOf(digest, SubSeq(digest.message, digest.fed + 1, end)) EXCEPT !.fed = end]

(* finalize(), or hex() and binary(), which finalize what was not.           *)
Asks ==
    /\ ~digest.finished /\ digest.fed = Len(digest.message)
    /\ digest' = FinalizeOf(digest)

FeedsLate ==
    /\ digest.finished /\ ~digest.late /\ digest.kind \in Late
    /\ digest' = [FeedOf(digest, <<1>>) EXCEPT !.late = TRUE]

Resets(message) ==
    /\ digest.finished /\ digest.round < MaxRounds
    /\ digest' = [Reset(digest) EXCEPT !.message = message, !.before = 0, !.fed = 0,
                                       !.late = FALSE, !.round = @ + 1]

DigestsNext ==
    \/ \E n \in PieceLengths : Feeds(n)
    \/ Asks \/ FeedsLate
    \/ \E m \in Messages : Resets(m)

DigestsSpec == DigestsInit /\ [][DigestsNext]_digestVars

-----------------------------------------------------------------------------
(* What the objects promise. *)

Words(halves) == [i \in DOMAIN halves |-> Word(halves[i])]

(* binary(): the bytes of the registers.                                     *)
Binary(d) ==
    IF d.kind = "md5"
      THEN LET abcd == MD5Blocks(Words(MD5Start), d.blocks)
           IN [i \in 1..16 |-> ByteOf(abcd[(i - 1) \div 4 + 1], (i - 1) % 4)]
      ELSE LET h == ShaBlocks(Words(ShaStart), d.blocks)
           IN [i \in 1..20 |-> ByteOf(h[(i - 1) \div 4 + 1], 3 - ((i - 1) % 4))]

(* hex(): nothing of an object that was fed too late.                        *)
Answers(d) == ~d.corrupted

\* The message with its padding: a bit, zeros, the length in bits as 64 bits.
Padded(d) ==
    LET total == d.before + Len(d.message)
        length == LowBytes(total % Lowest) \o HighBytes(total \div Lowest)
    IN d.message \o <<128>> \o Zeros((119 - (total % 64)) % 64)
         \o (IF d.kind = "md5" THEN length
             ELSE Reverse(HighBytes(total \div Lowest)) \o Reverse(LowBytes(total % Lowest)))

\* In whatever pieces a message came, after whatever the object did before, its
\* digest is of the message and its padding, and the one the tests state
\* (md5.cpp:373-459, sha.cpp:89-247).
DigestsFollow ==
    digest.finished /\ Answers(digest) =>
      /\ ~digest.late
      /\ digest.blocks = Full(Padded(digest))
      /\ digest.before = 0 =>
           \A k \in Stated : k.kind = digest.kind /\ k.message = digest.message =>
             \A i \in DOMAIN k.digest : k.digest[i] = Binary(digest)[2 * i - 1] * 256 + Binary(digest)[2 * i]

-----------------------------------------------------------------------------
(* Base64 (src/base64.cpp), in which digests travel.  A byte is a number, a    *)
(* letter its code.                                                            *)

Letter(value) ==
    CASE value < 26 -> value + 65
      [] value \in 26..51 -> value + 71
      [] value \in 52..61 -> value - 4
      [] value = 62 -> 43
      [] OTHER -> 47

PadLetter == 61

(* No letter: np, -1 as a char, all ones.                                    *)
Np == 255

Table64Vals ==
    <<62, Np, Np, Np, 63, 52, 53, 54, 55, 56, 57, 58, 59, 60, 61, Np, Np, Np, Np, Np,
      Np, Np, 0, 1, 2, 3, 4, 5, 6, 7, 8, 9, 10, 11, 12, 13, 14, 15, 16, 17,
      18, 19, 20, 21, 22, 23, 24, 25, Np, Np, Np, Np, Np, Np, 26, 27, 28, 29, 30, 31,
      32, 33, 34, 35, 36, 37, 38, 39, 40, 41, 42, 43, 44, 45, 46, 47, 48, 49, 50, 51>>

Table64(c) == IF c < 43 \/ c > 122 THEN Np ELSE Table64Vals[c - 42]

\* What lies behind the end of a string is its closing zero.
At(s, i) == IF i <= Len(s) THEN s[i] ELSE 0

RECURSIVE Encode64(_), Decode64(_)

\* Four letters for up to three bytes.
Encode64(input) ==
    LET a == At(input, 1)  b == At(input, 2)  c == At(input, 3)
    IN IF input = <<>> THEN <<>>
       ELSE <<Letter(a \div 4), Letter((a % 4) * 16 + b \div 16),
              IF Len(input) > 1 THEN Letter((b % 16) * 4 + c \div 64) ELSE PadLetter,
              IF Len(input) > 2 THEN Letter(c % 64) ELSE PadLetter>>
            \o Encode64(SubSeq(input, 4, Len(input)))

\* Up to three bytes of four letters; the first pad ends it.
Decode64(input) ==
    LET a == Table64(At(input, 1))  b == Table64(At(input, 2))
        c == Table64(At(input, 3))  d == Table64(At(input, 4))
        first == ((a * 4) % 256) + ((b \div 16) % 4)
        second == ((b * 16) % 256) + ((c \div 4) % 16)
        third == IF d = Np THEN Np ELSE ((c * 64) % 256) + d
    IN IF input = <<>> THEN <<>>
       ELSE IF Len(input) > 2 /\ input[3] = PadLetter THEN <<first>>
       ELSE IF Len(input) = 2 THEN <<first>>
       ELSE IF Len(input) = 3 \/ input[4] = PadLetter THEN <<first, second>>
       ELSE <<first, second, third>> \o Decode64(SubSeq(input, 5, Len(input)))

SampleBytes == {0, 1, 62, 127, 128, 191, 251, 255}
ShortMessages == UNION {[1..n -> SampleBytes] : n \in 0..3} \cup {<<n>> : n \in 0..255}

\* What was encoded is decoded to what it was (base64.cpp:37-123).
Base64Keeps == \A m \in ShortMessages : Decode64(Encode64(m)) = m
=============================================================================
