---------------------------- MODULE ErasureCoder ----------------------------
(***************************************************************************)
(* The Reed-Solomon coder of striped files.  A byte is an element of the   *)
(* field GF(2^8) and the coder multiplies by logarithm tables (GF256).     *)
(* The encoder multiplies the data units by the lower rows of a Cauchy     *)
(* matrix (RSUtil, RawErasureEncoder).  The decoder takes the first        *)
(* NumData units it was given, inverts their rows of that matrix, and      *)
(* keeps the coding tables it derived for the next stripe with the same    *)
(* erasures (RawErasureDecoder::prepareDecoding, erasure_coder.cpp         *)
(* processErasures in a build with the ISA-L library).                     *)
(*                                                                         *)
(* One encoder and one decoder of a policy are created, a stripe is        *)
(* encoded, and stripes with varying erasures are decoded one after the    *)
(* other with the same decoder until it is released.                       *)
(***************************************************************************)
EXTENDS Bytes, Sequences, FiniteSets, FiniteSetsExt, SequencesExt

CONSTANTS
    Policies,    \* the ids of the policies explored
    Reused,      \* those whose decoder serves several stripes and is released;
                 \* a decoder of the others serves one stripe of the other build
    UnitLength   \* bytes of each unit of the stripe

VARIABLES
    coder,       \* the policy, which build wrote the file, which one reads it
    units,       \* the units of the stripe as they were encoded
    decoder,     \* what the decoder keeps between two calls
    last         \* how the last decode ended

vars == <<coder, units, decoder, last>>

XorSum(f, n) ==
    LET sum[j \in 0 .. n] == IF j = 0 THEN 0 ELSE Xor(sum[j - 1], f[j - 1])
    IN  sum[n]

-----------------------------------------------------------------------------
(* GF256: the field by tables of powers and logarithms of the generator 2. *)

GF_BASE ==
 <<
    1, 2, 4, 8, 16, 32, 64, 128, 29, 58, 116, 232, 205, 135, 19, 38,
    76, 152, 45, 90, 180, 117, 234, 201, 143, 3, 6, 12, 24, 48, 96, 192,
    157, 39, 78, 156, 37, 74, 148, 53, 106, 212, 181, 119, 238, 193, 159, 35,
    70, 140, 5, 10, 20, 40, 80, 160, 93, 186, 105, 210, 185, 111, 222, 161,
    95, 190, 97, 194, 153, 47, 94, 188, 101, 202, 137, 15, 30, 60, 120, 240,
    253, 231, 211, 187, 107, 214, 177, 127, 254, 225, 223, 163, 91, 182, 113, 226,
    217, 175, 67, 134, 17, 34, 68, 136, 13, 26, 52, 104, 208, 189, 103, 206,
    129, 31, 62, 124, 248, 237, 199, 147, 59, 118, 236, 197, 151, 51, 102, 204,
    133, 23, 46, 92, 184, 109, 218, 169, 79, 158, 33, 66, 132, 21, 42, 84,
    168, 77, 154, 41, 82, 164, 85, 170, 73, 146, 57, 114, 228, 213, 183, 115,
    230, 209, 191, 99, 198, 145, 63, 126, 252, 229, 215, 179, 123, 246, 241, 255,
    227, 219, 171, 75, 150, 49, 98, 196, 149, 55, 110, 220, 165, 87, 174, 65,
    130, 25, 50, 100, 200, 141, 7, 14, 28, 56, 112, 224, 221, 167, 83, 166,
    81, 162, 89, 178, 121, 242, 249, 239, 195, 155, 43, 86, 172, 69, 138, 9,
    18, 36, 72, 144, 61, 122, 244, 245, 247, 243, 251, 235, 203, 139, 11, 22,
    44, 88, 176, 125, 250, 233, 207, 131, 27, 54, 108, 216, 173, 71, 142, 1 >>

GF_LOG_BASE ==
 <<
    0, 255, 1, 25, 2, 50, 26, 198, 3, 223, 51, 238, 27, 104, 199, 75,
    4, 100, 224, 14, 52, 141, 239, 129, 28, 193, 105, 248, 200, 8, 76, 113,
    5, 138, 101, 47, 225, 36, 15, 33, 53, 147, 142, 218, 240, 18, 130, 69,
    29, 181, 194, 125, 106, 39, 249, 185, 201, 154, 9, 120, 77, 228, 114, 166,
    6, 191, 139, 98, 102, 221, 48, 253, 226, 152, 37, 179, 16, 145, 34, 136,
    54, 208, 148, 206, 143, 150, 219, 189, 241, 210, 19, 92, 131, 56, 70, 64,
    30, 66, 182, 163, 195, 72, 126, 110, 107, 58, 40, 84, 250, 133, 186, 61,
    202, 94, 155, 159, 10, 21, 121, 43, 78, 212, 229, 172, 115, 243, 167, 87,
    7, 112, 192, 247, 140, 128, 99, 13, 103, 74, 222, 237, 49, 197, 254, 24,
    227, 165, 153, 119, 38, 184, 180, 124, 17, 68, 146, 217, 35, 32, 137, 46,
    55, 63, 209, 91, 149, 188, 207, 205, 144, 135, 151, 178, 220, 252, 190, 97,
    242, 86, 211, 171, 20, 42, 93, 158, 132, 60, 57, 83, 71, 109, 65, 162,
    31, 45, 67, 216, 183, 123, 164, 118, 196, 23, 73, 236, 127, 12, 111, 246,
    108, 161, 59, 82, 41, 157, 85, 170, 251, 96, 134, 177, 187, 204, 62, 90,
    203, 89, 95, 176, 156, 169, 160, 81, 11, 245, 22, 235, 122, 117, 44, 215,
    79, 174, 213, 233, 230, 231, 173, 232, 116, 214, 244, 234, 168, 80, 88, 175 >>

gfMul(a, b) ==
    IF a = 0 \/ b = 0 THEN 0
    ELSE LET tmp == GF_LOG_BASE[a + 1] + GF_LOG_BASE[b + 1]
         IN  GF_BASE[(IF tmp > 254 THEN tmp - 255 ELSE tmp) + 1]

gfInv(a) == IF a = 0 THEN 0 ELSE GF_BASE[((255 - GF_LOG_BASE[a + 1]) % 256) + 1]

\* GF256::GfMulTab, built once by getInstance().
GfMulTab == SubSeq([n \in 1 .. 65536 |-> gfMul((n - 1) \div 256, (n - 1) % 256)], 1, 65536)

\* The products of c with every low nibble and every high nibble.
gfVectMulInit(c) ==
    LET twice == [x \in Byte |-> Xor((2 * x) % 256, IF x >= 128 THEN 29 ELSE 0)]
        c2 == twice[c]    c4 == twice[c2]    c8 == twice[c4]
        c17 == twice[c8]  c18 == twice[c17]  c20 == twice[c18]  c24 == twice[c20]
        pick(b, x) == IF b % 2 = 1 THEN x ELSE 0
        mix(i, x1, x2, x4, x8) ==
            Xor(Xor(pick(i, x1), pick(i \div 2, x2)), Xor(pick(i \div 4, x4), pick(i \div 8, x8)))
    IN  [i \in 0 .. 31 |-> IF i < 16 THEN mix(i, c, c2, c4, c8)
                           ELSE mix(i - 16, c17, c18, c20, c24)]

VectMulTables == Tabulate([c \in Byte |-> Tabulate(gfVectMulInit(c))])

Mul(a, b) == GfMulTab[256 * a + b + 1]

\* Gauss-Jordan elimination of an n by n matrix; <<>> is the exception "Not
\* invertible".  The pair of matrices is one n by 2n matrix here.
gfInvertMatrix(matrix, n) ==
    LET both == [i \in 0 .. n - 1 |-> [j \in 0 .. 2 * n - 1 |->
                    IF j < n THEN matrix[i][j] ELSE IF j = n + i THEN 1 ELSE 0]]
        swap(m, i, j) == [m EXCEPT ![i] = m[j], ![j] = m[i]]
        eliminate(m, i) ==
            LET inv == gfInv(m[i][i])
                row == Tabulate([k \in 0 .. 2 * n - 1 |-> Mul(m[i][k], inv)])
            IN  Tabulate([j \in 0 .. n - 1 |->
                    IF j = i THEN row
                    ELSE Tabulate([k \in 0 .. 2 * n - 1 |-> Xor(m[j][k], Mul(m[j][i], row[k]))])])
        pivots(m, i) == {j \in i .. n - 1 : m[j][i] # 0}
        step[i \in 0 .. n] ==
            IF i = 0 THEN both
            ELSE LET m == step[i - 1]
                 IN  IF m = <<>> \/ pivots(m, i - 1) = {} THEN <<>>
                     ELSE eliminate(swap(m, i - 1, Min(pivots(m, i - 1))), i - 1)
        done == step[n]
    IN  IF done = <<>> THEN <<>>
        ELSE [i \in 0 .. n - 1 |-> [j \in 0 .. n - 1 |-> done[i][n + j]]]

-----------------------------------------------------------------------------
(* RSUtil. *)

\* SystemECPolicies: the units of each policy.  Every codec name gets the same
\* Reed-Solomon coder (RawErasureCoderFactory).
SystemECPolicies ==
    1 :> [data |-> 6, parity |-> 3] @@ 2 :> [data |-> 3, parity |-> 2] @@
    3 :> [data |-> 6, parity |-> 3] @@ 4 :> [data |-> 2, parity |-> 1] @@
    5 :> [data |-> 10, parity |-> 4]

\* The identity above 1/(i + j).
genCauchyMatrix(m, k) ==
    [i \in 0 .. m - 1 |-> [j \in 0 .. k - 1 |->
        IF i < k THEN IF i = j THEN 1 ELSE 0 ELSE gfInv(Xor(i, j))]]

encodeMatrix == [id \in Policies |->
    genCauchyMatrix(SystemECPolicies[id].data + SystemECPolicies[id].parity,
                    SystemECPolicies[id].data)]

\* RSUtil::initTables builds the table of each coefficient of the matrix;
\* encodeData finds the coefficient in entry 1 of its table and multiplies by
\* the table of the whole field, byte by byte: its loop over words of eight bytes
\* does to each byte what the loop over the rest does.
TableProduct(c, x) == Mul(VectMulTables[c][1], x)

encodeData(matrix, rows, ins, k) ==
    [l \in 1 .. rows |-> [b \in 1 .. UnitLength |->
        XorSum([j \in 0 .. k - 1 |-> TableProduct(matrix[l - 1][j], ins[j + 1][b])], k)]]

\* The product of c and x from the two halves of the table of c.
NibbleProduct(c, x) == Xor(VectMulTables[c][x % 16], VectMulTables[c][16 + (x \div 16)])

\* ISA-L's ec_encode_data looks up the two nibbles of the byte.
ec_encode_data(matrix, rows, ins, k) ==
    [l \in 1 .. rows |-> [b \in 1 .. UnitLength |->
        XorSum([j \in 0 .. k - 1 |-> NibbleProduct(matrix[l - 1][j], ins[j + 1][b])], k)]]

-----------------------------------------------------------------------------
(* The encoders and the decoders. *)

NumData == SystemECPolicies[coder.policy].data
NumAll  == NumData + SystemECPolicies[coder.policy].parity

Ascending(S) ==
    [i \in 1 .. Cardinality(S) |-> CHOOSE x \in S : Cardinality({y \in S : y < x}) = i - 1]

\* RawErasureCoderFactory: which coders a build creates.
Builds == {"plain", "isal"}

\* RawErasureEncoder::doEncode, and NativeRSRawEncoder::encodeImpl with ISA-L:
\* both take their coefficients from the rows below the identity.
CodingRows(policy) ==
    [l \in 0 .. SystemECPolicies[policy].parity - 1 |->
        encodeMatrix[policy][SystemECPolicies[policy].data + l]]
doEncode(policy, data) ==
    encodeData(CodingRows(policy), SystemECPolicies[policy].parity, data, Len(data))
encodeImpl(policy, data) ==
    ec_encode_data(CodingRows(policy), SystemECPolicies[policy].parity, data, Len(data))

encode(c, data) ==
    data \o IF c.writer = "isal" THEN encodeImpl(c.policy, data) ELSE doEncode(c.policy, data)

\* generateDecodeMatrix, the same in both builds: a row of coefficients over the
\* units it reads for each erased unit.  The erased data units must come first.
generateDecodeMatrix(valid, erased) ==
    LET matrix  == encodeMatrix[coder.policy]
        inverse == gfInvertMatrix([i \in 0 .. NumData - 1 |-> matrix[valid[i + 1]]], NumData)
        numErasedDataUnits == Cardinality({i \in DOMAIN erased : erased[i] < NumData})
    IN  IF inverse = <<>> THEN <<>>
        ELSE [p \in 0 .. Len(erased) - 1 |->
                 IF p < numErasedDataUnits THEN inverse[erased[p + 1]]
                 ELSE [i \in 0 .. NumData - 1 |->
                         XorSum([j \in 0 .. NumData - 1 |->
                                    Mul(inverse[j][i], matrix[erased[p + 1]][j])], NumData)]]

\* The decoder keeps the units it last used and those it last recovered, and
\* the coding tables: here the pair they were generated for.
NewDecoder == [released |-> FALSE, valid |-> <<>>, erased |-> <<>>, tables |-> <<>>]

\* RawErasureDecoder::processErasures: the tables are made anew.
processErasures(d, valid, erased) ==
    [d EXCEPT !.erased = erased, !.valid = valid, !.tables = <<valid, erased>>]

\* RawErasureDecoder::prepareDecoding: the tables are kept when the erased and
\* the valid units are those of the last call.
prepareDecodingByCount(d, valid, erased) ==
    IF Len(d.erased) = Len(erased) THEN [d EXCEPT !.valid = valid, !.erased = erased]
    ELSE processErasures(d, valid, erased)
prepareDecoding(d, valid, erased) ==
    IF d.erased = erased /\ d.valid = valid THEN d ELSE processErasures(d, valid, erased)

\* processErasures of erasure_coder.cpp: only the units it will use are compared.
isalProcessErasures(d, valid, erased) ==
    LET decodeIndex == SubSeq(valid, 1, NumData)
    IN  IF d.erased = erased /\ d.valid = decodeIndex THEN d
        ELSE [d EXCEPT !.erased = erased, !.valid = decodeIndex, !.tables = <<decodeIndex, erased>>]

\* CoderUtil::getValidIndexes of a stripe whose last `unread` remaining units
\* were not fetched.
getValidIndexes(erased, unread) ==
    LET present == Ascending((0 .. NumAll - 1) \ erased)
    IN  SubSeq(present, 1, Len(present) - unread)

\* CoderUtil::toBuffers: the buffer of a chunk flagged all-zero is cleared.
toBuffers(chunk) == IF chunk.allZero THEN [b \in 1 .. UnitLength |-> 0] ELSE chunk.bytes

\* StripeReader::finalizeDecodeInputs: what the decoder is given for a unit; a
\* unit past the end of the file was not read and its buffer holds anything.
Chunk(i) == [allZero |-> i >= NumData - coder.short /\ i < NumData,
             bytes   |-> IF i >= NumData - coder.short /\ i < NumData
                         THEN [b \in 1 .. UnitLength |-> 255] ELSE units[i + 1]]

\* RawErasureDecoder::doDecode and NativeRSRawDecoder::decodeImpl: the units that
\* come out of the tables; none when there is no inverse.
RealInputs(d) == [i \in 1 .. NumData |-> toBuffers(Chunk(d.valid[i]))]
doDecode(d, matrix) == encodeData(matrix, Len(d.erased), RealInputs(d), NumData)
decodeImpl(d, matrix) == ec_encode_data(matrix, Len(d.erased), RealInputs(d), NumData)
Decoded(d) ==
    LET matrix == generateDecodeMatrix(d.tables[1], d.tables[2])
    IN  CASE matrix = <<>> -> <<>>
          [] matrix # <<>> /\ coder.reader = "isal" -> decodeImpl(d, matrix)
          [] OTHER -> doDecode(d, matrix)

\* RawErasureDecoder::decode; AbstractNativeRawDecoder::doDecode refuses once the
\* native decoder is released.
decode(valid, erased) ==
    /\ coder.reader = "plain"
    /\ last' = "decoded"
    /\ decoder' = prepareDecoding(decoder, valid, erased)
nativeDecode(valid, erased) ==
    /\ coder.reader = "isal"
    /\ last' = IF decoder.released THEN "closed" ELSE "decoded"
    /\ decoder' = IF decoder.released THEN decoder ELSE isalProcessErasures(decoder, valid, erased)

\* StripedInputStreamImpl::close releases the decoder; only the native one has
\* something to free.
release ==
    /\ coder.policy \in Reused
    /\ ~decoder.released
    /\ decoder' = [decoder EXCEPT !.released = TRUE]
    /\ UNCHANGED <<coder, units, last>>

decodeStripe ==
    /\ coder.policy \in Reused \/ last = "none"
    /\ \E erased \in UNION {kSubset(n, 0 .. NumAll - 1) : n \in 1 .. NumAll - NumData} :
        \E unread \in 0 .. NumAll - NumData - Cardinality(erased) :
            LET valid == getValidIndexes(erased, unread)
            IN  decode(valid, Ascending(erased)) \/ nativeDecode(valid, Ascending(erased))
    /\ UNCHANGED <<coder, units>>

Init ==
    /\ coder \in [policy : Policies, writer : Builds, reader : Builds, short : 0 .. 1]
    /\ coder.policy \notin Reused => coder.writer # coder.reader /\ coder.short = 0
    /\ units = LET k == SystemECPolicies[coder.policy].data
               IN  encode(coder, [i \in 1 .. k |-> [b \in 1 .. UnitLength |->
                       IF i > k - coder.short THEN 0 ELSE (61 * i + 83 * b + 7) % 256]])
    /\ decoder = NewDecoder
    /\ last = "none"

Next == decodeStripe \/ release

Spec == Init /\ [][Next]_vars

-----------------------------------------------------------------------------

\* The product of two polynomials over GF(2) modulo x^8 + x^4 + x^3 + x^2 + 1.
Times2(x) == IF x < 128 THEN 2 * x ELSE Xor(2 * x - 256, 29)
Product(a, b) ==
    LET sum[i \in 0 .. 8] ==   \* of the i high bits of b
            IF i = 0 THEN 0
            ELSE LET twice == Times2(sum[i - 1])
                 IN  IF (b \div 2 ^ (8 - i)) % 2 = 1 THEN Xor(twice, a) ELSE twice
    IN  sum[8]

\* Multiplying by a coefficient, by the table of the field or by the two nibble
\* tables of GF256::gfVectMulInit, is the multiplication of the field, for every
\* byte (RSUtil::encodeData).
ProductIsExact(c) ==
    \A x \in Byte : LET product == Product(c, x)
                    IN  TableProduct(c, x) = product /\ NibbleProduct(c, x) = product

\* Whatever units are lost, up to the parity of the policy, and whatever was
\* decoded before with the same decoder, RawErasureDecoder::decode returns the
\* units that were lost, also when the file was written by the other build.
DecodedIsOriginal ==
    last = "decoded" =>
        Decoded(decoder) = [i \in DOMAIN decoder.erased |-> units[decoder.erased[i] + 1]]

=============================================================================
