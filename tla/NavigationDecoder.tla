-------------------------- MODULE NavigationDecoder --------------------------
(***************************************************************************)
(* NavDecode/GPSOpenClNavigationDecoder: bit synchronisation and parity,   *)
(* NavigationDecoder::tryDecodeAtBitPosition on the prompt values.  Module *)
(* Channel leaves open which starts decode and which edge is found; here   *)
(* both follow from the signal.                                            *)
(*                                                                         *)
(* A subframe is cut down to its first word, with the two bits before it   *)
(* and other bits around them.  Block j is a prompt value, counted from    *)
(* the leading edge of the word.  The bit edge lies within a block: the    *)
(* part fraction / Fraction of it still belongs to the bit before.  The    *)
(* Costas loop locks with either sign, so all bits may be inverted, and    *)
(* some arrive flipped.                                                    *)
(***************************************************************************)
EXTENDS Integers, Sequences, FiniteSets

CONSTANTS Period,      \* code periods per bit (20)
          EdgeSearch,  \* candidate edges on each side of the start (2)
          Fraction,    \* resolution of the edge within a block
          Noise,       \* what can turn the sum of a bit, in the same unit
          Payloads,    \* data bits after the preamble that are 1
          MaxFlips     \* bound: bits corrupted on the way

ASSUME DecoderAssumption ==
    /\ Period \in Nat /\ Period % 2 = 0
    /\ EdgeSearch \in Nat /\ 2 * EdgeSearch < Period
    /\ Fraction \in Nat \ {0}
    /\ Noise \in Nat
    /\ Payloads \subseteq SUBSET (9 .. 24) /\ MaxFlips \in Nat

VARIABLES payload, before,    \* the bits that are 1; the bits D29*, D30*
          inverted, fraction,
          stream,             \* the bits as they arrive
          flips,              \* those that are corrupted; -1 and 0: D29*, D30*
          size,               \* blocks received, from the edge of the word
          anchor, word        \* subframeStartSample and dataWord, once decoded

signal == <<payload, before, inverted, fraction>>
decoderVars == <<signal, stream, flips, size, anchor, word>>

WordBits == 30
NoAnchor == -Period
Parity(bits) == Cardinality({i \in DOMAIN bits : bits[i] = 1}) % 2
Flip(bit) == 1 - bit

-----------------------------------------------------------------------------
(* The satellite: the parity of IS-GPS-200.  Four rows of its matrix are    *)
(* rotations of the first.                                                  *)

FirstRow == {1, 2, 3, 5, 6, 10, 11, 12, 13, 14, 17, 18, 20, 23}
Rotated(n) == {((i + n - 1) % 24) + 1 : i \in FirstRow}
ReferenceRow(i) ==
    CASE i \in 25 .. 28 -> Rotated(i - 25)
      [] i = 29 -> Rotated(4) \cup {1}
      [] i = 30 -> {3, 5, 6, 8, 9, 10, 11, 13, 15, 19, 22, 23, 24}
ReferenceStar(i) == IF i \in {25, 27, 30} THEN 1 ELSE 2

Preamble == {1, 5, 7, 8}
Data(i) == IF i \in Preamble \cup payload THEN 1 ELSE 0

\* Bits 1 to 24 are complemented by D30*.
Sent(i) ==
    IF i \in 1 .. 24 THEN (Data(i) + before[2]) % 2
    ELSE IF i \in 25 .. WordBits
    THEN (Parity([j \in ReferenceRow(i) |-> Data(j)]) + before[ReferenceStar(i)]) % 2
    ELSE IF i \in {-1, 0} THEN before[i + 2]
    ELSE i % 2

Transmitted ==
    [i \in -4 .. WordBits + 3 |-> IF inverted THEN Flip(Sent(i)) ELSE Sent(i)]

\* The real part of the prompt value of block j
Prompt(j) ==
    LET Sign(i) == 2 * stream[i] - 1
        i == (j \div Period) + 1
    IN  IF j % Period = 0
        THEN fraction * Sign(i - 1) + (Fraction - fraction) * Sign(i)
        ELSE Fraction * Sign(i)

-----------------------------------------------------------------------------
(* The decoder *)

\* A loop that adds up term[1] to term[n]
SumOver(term, n) ==
    LET sum[i \in 0 .. n] == IF i = 0 THEN 0 ELSE sum[i - 1] + term[i]
    IN  sum[n]

\* The sum of the blocks of bit i of a word taken to start at block s
BitSum(s, i) ==
    SumOver([k \in 1 .. Period |-> Prompt(s + (i - 1) * Period + k - 1)], Period)

\* demodulateBit for the two bits before the word and its thirty
Demodulated(s) ==
    [i \in -1 .. WordBits |-> IF BitSum(s, i) > 0 THEN 1 ELSE 0]

\* Noise can turn one of the bits.  No other limit is set to it: the code takes
\* the sign of any sum.
Marginal(s) ==
    \E i \in -1 .. WordBits : BitSum(s, i) \in -Noise .. Noise

Taps == <<
    {1, 2, 3, 5, 6, 10, 11, 12, 13, 14, 17, 18, 20, 23},
    {2, 3, 4, 6, 7, 11, 12, 13, 14, 15, 18, 19, 21, 24},
    {1, 3, 4, 5, 7, 8, 12, 13, 14, 15, 16, 19, 20, 22},
    {2, 4, 5, 6, 8, 9, 13, 14, 15, 16, 17, 20, 21, 23},
    {1, 3, 5, 6, 7, 9, 10, 14, 15, 16, 17, 18, 21, 22, 24},
    {3, 5, 6, 8, 9, 10, 11, 13, 15, 19, 22, 23, 24} >>

\* Mutant: D30 is computed with the wrong bit of the word before
MutCheckParity(d, prevD29, prevD30) ==
    \A r \in 1 .. 6 :
        d[24 + r] = (Parity([i \in Taps[r] |-> d[i]])
                       + (IF r \in {1, 3} THEN prevD29 ELSE prevD30)) % 2

CheckParity(d, prevD29, prevD30) ==
    \A r \in 1 .. 6 :
        d[24 + r] = (Parity([i \in Taps[r] |-> d[i]])
                       + (IF r \in {1, 3, 6} THEN prevD29 ELSE prevD30)) % 2

\* The polarity shows in the preamble, 0x8B or 0x74.
IsNormal(bits) == \A i \in 1 .. 8 : bits[i] = IF i \in Preamble THEN 1 ELSE 0
IsInverted(bits) == \A i \in 1 .. 8 : bits[i] = IF i \in Preamble THEN 0 ELSE 1

BitAt(bits) ==
    IF IsInverted(bits) THEN [i \in DOMAIN bits |-> Flip(bits[i])] ELSE bits

\* D30 of the word before complements the data bits.
DataWord(raw) ==
    [i \in 1 .. WordBits |->
        IF raw[0] = 1 /\ i <= 24 THEN Flip(raw[i]) ELSE raw[i]]

Decodes(bits) ==
    /\ IsNormal(bits) \/ IsInverted(bits)
    /\ LET raw == BitAt(bits) IN CheckParity(DataWord(raw), raw[-1], raw[0])

\* How well the blocks at a candidate start match the bits: the first block of
\* a bit is shared with the bit before, in the proportion the code phase gives.
EdgeMetric(bits, s) ==
    LET Sign(i) == 2 * bits[i] - 1
        Edge(i) == Prompt(s + (i - 1) * Period)
        Weight(i) == fraction * Sign(i - 1) + (Fraction - fraction) * Sign(i)
        Term(i) == Fraction * Sign(i) * (BitSum(s, i) - Edge(i))
                     + (IF i > 1 THEN Weight(i) * Edge(i) ELSE 0)
        metric == SumOver([i \in 1 .. WordBits |-> Term(i)], WordBits)
    IN  IF metric < 0 THEN -metric ELSE metric

\* The first of the candidates with the largest metric
Best(bits, s, candidates) ==
    LET metric == [c \in candidates |-> EdgeMetric(bits, s + c)]
    IN  CHOOSE c \in candidates :
            \A d \in candidates \ {c} :
                metric[d] < metric[c] \/ (metric[d] = metric[c] /\ c < d)

\* Mutant: blocks that have not been received yet are used
MutBestOffset(bits, s, n) == Best(bits, s, -EdgeSearch .. EdgeSearch)

\* A candidate whose word is not complete yet is skipped.
BestOffset(bits, s, n) ==
    Best(bits, s,
         {c \in -EdgeSearch .. EdgeSearch : s + c + WordBits * Period <= n})

-----------------------------------------------------------------------------
FirstSize == WordBits * Period - Period \div 2 - 1
LastSize == WordBits * Period + Period \div 2

DecoderInit ==
    /\ payload \in Payloads /\ before \in [1 .. 2 -> {0, 1}]
    /\ inverted \in BOOLEAN /\ fraction \in 0 .. Fraction - 1
    /\ stream = Transmitted
    /\ flips = {}
    /\ size = FirstSize
    /\ anchor = NoAnchor /\ word = <<>>

\* Every set of flips is built in one order.
Corrupt(i) ==
    /\ size = FirstSize /\ Cardinality(flips) < MaxFlips
    /\ \A j \in flips : j < i
    /\ flips' = flips \cup {i}
    /\ stream' = [stream EXCEPT ![i] = Flip(@)]
    /\ UNCHANGED <<signal, size, anchor, word>>

\* One more block.  All phases are tried as soon as their subframe is complete,
\* so what is tried is the start that has just become complete.  A wrong preamble
\* or parity ends the attempt, and noise can make them wrong; it is never taken
\* to repair a start whose bits are those of another.
TryDecode ==
    LET n == size + 1
        s == n - WordBits * Period
        bits == Demodulated(s)
        decodes == Decodes(bits)
    IN  /\ anchor = NoAnchor /\ size < LastSize
        /\ size' = n
        /\ \/ /\ decodes
              /\ anchor' = s + BestOffset(bits, s, n)
              /\ word' = DataWord(BitAt(bits))
           \/ /\ decodes => Marginal(s)
              /\ UNCHANGED <<anchor, word>>
        /\ UNCHANGED <<signal, stream, flips>>

\* The receiver goes on; the exploration ends with this word.
Done ==
    /\ anchor # NoAnchor \/ size = LastSize
    /\ UNCHANGED decoderVars

DecoderNext == (\E i \in -1 .. WordBits : Corrupt(i)) \/ TryDecode \/ Done

DecoderSpec == DecoderInit /\ [][DecoderNext]_decoderVars

-----------------------------------------------------------------------------
\* The parity check over the word, the two bits before it and both polarities:
\* up to three corrupted bits are always noticed, and a word without errors is
\* decoded to what was sent, with the right sign, unless noise can turn a bit at
\* every start within half a bit of the edge.
OnlyTrueWords ==
    /\ anchor # NoAnchor =>
          flips = {} /\ \A i \in 1 .. 24 : word[i] = Data(i)
    /\ size = LastSize /\ anchor = NoAnchor /\ flips = {} =>
          \A s \in 1 - Period \div 2 .. Period \div 2 - 1 : Marginal(s)

\* Whatever the data, the polarity and the place of the edge within its block,
\* a channel anchors the subframe on the blocks that follow half a bit before
\* its edge, and noise alone decides on which: an anchor lies beyond block k of
\* them only if noise can turn the 2 * k blocks by which a bit outweighs the one
\* before, less the share of the edge block.  So channels share the error of half
\* a bit, a clock bias; they are within one code period of each other, which is
\* what snapTransmitTimesToMedianArrival can repair, while noise stays below the
\* four blocks of k = 2, and not beyond.
AnchorsFollowNoise ==
    anchor # NoAnchor =>
        /\ anchor > -(Period \div 2)
        /\ \A k \in 1 .. Period \div 2 :
              anchor > k - Period \div 2 => 2 * (k * Fraction - fraction) <= Noise
=============================================================================
