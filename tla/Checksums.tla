----------------------------- MODULE Checksums -----------------------------
(***************************************************************************)
(* CRC-32C as the client computes it for every chunk: with a table         *)
(* (SWCrc32c) or with the processor's instruction, which takes 1, 2, 4 or  *)
(* 8 bytes at an aligned address (HWCrc32c).                               *)
(*                                                                         *)
(* A 32 bit value is a pair of halves, <<high, low>>.                      *)
(***************************************************************************)
EXTENDS Bytes, Sequences, SequencesExt

Xor16(a, b) == 256 * Xor(a \div 256, b \div 256) + Xor(a % 256, b % 256)
Xor32(a, b) == <<Xor16(a[1], b[1]), Xor16(a[2], b[2])>>

Ones == <<65535, 65535>>

-----------------------------------------------------------------------------
(* SWCrc32c *)

\* crc_tableil8_o32, the high halves and the low halves of its entries.
TableHigh == <<
    0, 62059, 57659, 4944, 51098, 13809, 9889, 54474, 35545, 30898, 27618, 39305, 19779, 48936, 44152, 24083,
    4190, 57909, 61797, 782, 55236, 9647, 14079, 50324, 39559, 26860, 31676, 35287, 23837, 44918, 48166, 20045,
    8381, 53974, 49542, 13293, 59175, 5452, 1564, 62583, 43620, 22543, 19295, 47412, 28158, 40853, 36037, 32430,
    12515, 49800, 53720, 9139, 63353, 1298, 5698, 58409, 47674, 18513, 23297, 43370, 32160, 36811, 40091, 28400,
    16763, 45840, 41024, 21035, 34529, 29834, 26586, 38321, 52130, 14793, 10905, 55538, 3128, 65107, 60675, 8040,
    20773, 41806, 45086, 17013, 38591, 25812, 30596, 34287, 56316, 10647, 15047, 51372, 7270, 60941, 64861, 3894,
    25030, 37805, 33021, 29334, 42588, 21559, 18279, 46348, 60191, 6516, 2596, 63567, 11397, 57070, 52670, 16341,
    29080, 33779, 37027, 25288, 46594, 17513, 22329, 42322, 64321, 2346, 6778, 59409, 15579, 52912, 56800, 12171,
    33526, 28829, 25549, 37286, 17772, 46855, 42071, 22076, 2095, 64068, 59668, 7039, 53173, 15838, 11918, 56549,
    37544, 24771, 29587, 33272, 21810, 42841, 46089, 18018, 6257, 59930, 63818, 2849, 57323, 11648, 16080, 52411,
    41547, 20512, 17264, 45339, 26065, 38842, 34026, 30337, 10386, 56057, 51625, 15298, 61192, 7523, 3635, 64600,
    45589, 16510, 21294, 41285, 30095, 34788, 38068, 26335, 14540, 51879, 55799, 11164, 65366, 3389, 7789, 60422,
    50061, 12774, 8886, 53469, 1047, 63100, 58668, 5959, 18772, 47935, 43119, 23044, 36558, 31909, 28661, 40350,
    54227, 8632, 13032, 49283, 5193, 58914, 62834, 1817, 22794, 43873, 47153, 19034, 40592, 27899, 32683, 36288,
    58160, 4443, 523, 61536, 9386, 54977, 50577, 14330, 27113, 39810, 35026, 31417, 44659, 23576, 20296, 48419,
    62318, 261, 4693, 57406, 13556, 50847, 54735, 10148, 31159, 35804, 39052, 27367, 48685, 19526, 24342, 44413 >>

TableLow == <<
    0, 33539, 28919, 62452, 38687, 5148, 59368, 25835, 22735, 56268, 10296, 43835, 53200, 19667, 48935, 15396,
    51055, 17516, 47000, 13467, 20592, 54131, 8327, 41860, 40864, 7331, 61271, 27732, 2239, 35772, 30792, 64331,
    36574, 3549, 65065, 32042, 6593, 39618, 26934, 59957, 54801, 21778, 42726, 9701, 16654, 49677, 12793, 45818,
    18865, 51890, 14662, 47685, 57006, 23981, 44633, 11610, 4478, 37501, 24969, 57994, 34401, 1378, 63126, 30101,
    7612, 40639, 27979, 61000, 35491, 2464, 64084, 31063, 17779, 50800, 13700, 46727, 53868, 20847, 41627, 8600,
    56019, 22992, 43556, 10535, 19916, 52943, 15675, 48696, 33308, 287, 62187, 29160, 5379, 38400, 26100, 59127,
    37730, 4193, 58261, 24726, 1149, 34686, 29834, 63369, 52141, 18606, 47962, 14425, 23730, 57265, 11333, 44870,
    21517, 55054, 9466, 43001, 49938, 16401, 46053, 12518, 3266, 36801, 31797, 65334, 39901, 6366, 60202, 26665,
    15224, 47227, 19343, 51340, 44135, 12132, 56464, 24467, 25527, 57524, 4928, 36931, 62632, 30635, 33887, 1884,
    64535, 32532, 36064, 4067, 27400, 59403, 7167, 39164, 42200, 10203, 54319, 22316, 13255, 45252, 17200, 49203,
    46502, 13989, 50513, 18002, 8889, 41402, 21070, 53581, 60777, 28266, 40350, 7837, 31350, 63861, 2689, 35202,
    29385, 61898, 574, 33085, 58838, 26325, 38177, 5666, 10758, 43269, 23281, 55794, 48409, 15898, 52718, 20205,
    9924, 42439, 22067, 54576, 45531, 13016, 49452, 16943, 32267, 64776, 3836, 36351, 59668, 27159, 39395, 6880,
    57771, 25256, 37212, 4703, 30388, 62903, 1603, 34112, 47460, 14951, 51603, 19088, 11899, 44408, 24204, 56719,
    43034, 11033, 55533, 23534, 16133, 48134, 20466, 52465, 61653, 29654, 32802, 801, 26570, 58569, 5949, 37950,
    28533, 60534, 8066, 40065, 63594, 31593, 34973, 2974, 14266, 46265, 18253, 50254, 41125, 9126, 53330, 21329 >>

\* One byte of SWCrc32c::update; crc >> 8 moves the halves.
updateByte(crc, byte) ==
    LET i == Xor(crc[2] % 256, byte) + 1
    IN  Xor32(<<TableHigh[i], TableLow[i]>>,
              <<crc[1] \div 256, 256 * (crc[1] % 256) + (crc[2] \div 256)>>)

update(crc, bytes) ==
    LET after[i \in 0 .. Len(bytes)] ==
            IF i = 0 THEN crc ELSE updateByte(after[i - 1], bytes[i])
    IN  after[Len(bytes)]

\* SWCrc32c::reset, update and getValue of one chunk given in pieces.
crc32c(first, rest) == Xor32(update(update(Ones, first), rest), Ones)

-----------------------------------------------------------------------------
(* HWCrc32c: the sizes of the pieces an instruction takes, in order. *)

\* HWCrc32c::updateInt64: the cases fall through, 7 = 1 + 2 + 4 and 5 = 4 + 1.
updateInt64(n) ==
    CASE n = 7 -> <<1, 2, 4>>
      [] n = 6 -> <<2, 4>>
      [] n = 5 -> <<4, 1>>
      [] n = 3 -> <<1, 2>>
      [] n \in {1, 2, 4} -> <<n>>
      [] n = 0 -> <<>>

\* HWCrc32c::update of len bytes at an address: up to the next aligned word,
\* whole words, and the rest.
hardwarePieces(address, len) ==
    LET toWord == (8 - (address % 8)) % 8
        align  == IF len < toWord THEN len ELSE toWord
        left   == len - align
    IN  updateInt64(align) \o [i \in 1 .. left \div 8 |-> 8] \o updateInt64(left % 8)

-----------------------------------------------------------------------------
(* The definition of CRC-32C: division by its polynomial, bit by bit. *)

Polynomial == <<33526, 15224>>  \* 0x82F63B78

BitStep(crc) ==
    LET shifted == <<crc[1] \div 2, 32768 * (crc[1] % 2) + (crc[2] \div 2)>>
    IN  IF crc[2] % 2 = 1 THEN Xor32(shifted, Polynomial) ELSE shifted

BitwiseByte(crc, byte) ==
    LET bits[i \in 0 .. 8] ==
            IF i = 0 THEN <<crc[1], Xor16(crc[2], byte)>> ELSE BitStep(bits[i - 1])
    IN  bits[8]

Bitwise32c(bytes) ==
    LET after[i \in 0 .. Len(bytes)] ==
            IF i = 0 THEN Ones ELSE BitwiseByte(after[i - 1], bytes[i])
    IN  Xor32(after[Len(bytes)], Ones)

-----------------------------------------------------------------------------

\* The table gives the checksum of the bytes, also when they come in two updates
\* (the chunk of a packet that is filled by several writes).
TableIsCrc32c(first, rest) == crc32c(first, rest) = Bitwise32c(first \o rest)

\* The instruction takes every byte once, whatever address the chunk starts at and
\* whatever its length.
PiecesCover(address, len) == FoldSeq(LAMBDA x, y : x + y, 0, hardwarePieces(address, len)) = len

=============================================================================
