--------------------------- MODULE CaCodeGenerator ---------------------------
(***************************************************************************)
(* CaCodeGenerator::rawCaCodes: the two shift registers and the delays     *)
(* that make the 32 C/A codes.  The table is a function-local static, so   *)
(* it is built once, by the first caller.  The source restarts the         *)
(* registers for every satellite and so runs the same 1023 shifts 32       *)
(* times; here they run once and serve all satellites.                     *)
(*                                                                         *)
(* Sequences are indexed from 1, the source's arrays from 0.               *)
(***************************************************************************)
EXTENDS Integers, Sequences

VARIABLES R1, R2,   \* the registers, stage 10 last
          g1, g2,   \* their outputs so far
          built     \* the static is initialised

codeVars == <<R1, R2, g1, g2, built>>

GPS_CA_CODE_LENGTH == 1023
GPS_CA_SV_COUNT == 32

DELAY_CHIPS ==
    <<  5,   6,   7,   8,  17,  18, 139, 140, 141, 251, 252, 254, 255, 256,
      257, 258, 469, 470, 471, 472, 473, 474, 509, 512, 513, 514, 515, 516,
      859, 860, 861, 862>>

Ones == [j \in 1 .. 10 |-> -1]  \* -1 stands for a logical 1

CodeInit == R1 = Ones /\ R2 = Ones /\ g1 = <<>> /\ g2 = <<>> /\ built = FALSE

\* The feedback enters at stage 1, every other stage takes its predecessor.
Shifted(R, c) == <<c>> \o SubSeq(R, 1, 9)

\* Mutant: one tap is forgotten
MutR2Feedback(R) == R[2] * R[3] * R[6] * R[8] * R[10]

R1Feedback(R) == R[3] * R[10]
R2Feedback(R) == R[2] * R[3] * R[6] * R[8] * R[9] * R[10]

\* One turn of the loop over i.
ShiftRegisters ==
    /\ ~built /\ Len(g1) < GPS_CA_CODE_LENGTH
    /\ g1' = Append(g1, R1[10]) /\ g2' = Append(g2, R2[10])
    /\ R1' = Shifted(R1, R1Feedback(R1))
    /\ R2' = Shifted(R2, R2Feedback(R2))
    /\ UNCHANGED built

\* codes[prn - 1][i] of the source.
Code(prn, i) ==
    -g1[i + 1] * g2[((i + GPS_CA_CODE_LENGTH - DELAY_CHIPS[prn])
                        % GPS_CA_CODE_LENGTH) + 1]

\* The table is complete.  What tracking does with a chip depends on its index
\* alone, so the outputs are dropped with the loop's other locals.
TableBuilt ==
    /\ ~built /\ Len(g1) = GPS_CA_CODE_LENGTH
    /\ built' = TRUE
    /\ g1' = <<>> /\ g2' = <<>>
    /\ UNCHANGED <<R1, R2>>

-----------------------------------------------------------------------------
\* The signal specification (IS-GPS-200, code phase assignments) selects a code
\* by two stages of the second register, not by a delay.
TapPairs ==
    << <<2, 6>>, <<3, 7>>, <<4, 8>>, <<5, 9>>, <<1, 9>>, <<2, 10>>, <<1, 8>>,
       <<2, 9>>, <<3, 10>>, <<2, 3>>, <<3, 4>>, <<5, 6>>, <<6, 7>>, <<7, 8>>,
       <<8, 9>>, <<9, 10>>, <<1, 4>>, <<2, 5>>, <<3, 6>>, <<4, 7>>, <<5, 8>>,
       <<6, 9>>, <<1, 3>>, <<4, 6>>, <<5, 7>>, <<6, 8>>, <<7, 9>>, <<8, 10>>,
       <<1, 6>>, <<2, 7>>, <<3, 8>>, <<4, 9>> >>

\* What stage s holds at chip i: it reaches stage 10 after 10 - s shifts.
StageAt(s, i) == g2[((i + 10 - s) % GPS_CA_CODE_LENGTH) + 1]

\* Every delayed code of the table is, chip by chip, the code the signal
\* specification defines by its pair of taps (a logical 1 is the chip +1), and
\* both registers are back in their initial state after one period, so that the
\* code repeats without a seam when the correlator wraps its index.
CodesAreGold ==
    Len(g1) = GPS_CA_CODE_LENGTH =>
        /\ R1 = Ones /\ R2 = Ones
        /\ \A prn \in 1 .. GPS_CA_SV_COUNT, i \in 0 .. GPS_CA_CODE_LENGTH - 1 :
              Code(prn, i) = -g1[i + 1] * StageAt(TapPairs[prn][1], i)
                                        * StageAt(TapPairs[prn][2], i)
=============================================================================
