------------------------------ MODULE Ephemeris ------------------------------
(***************************************************************************)
(* Channel::mergeSubframe and hasCompleteEphemeris: the ephemeris that a   *)
(* channel puts together from subframes 1, 2 and 3 as they are decoded, in *)
(* whatever order and across changes of the broadcast data set.            *)
(*                                                                         *)
(* An accumulated ephemeris is the set of subframes that count as seen     *)
(* (m_seenSubframeMask) and the issue of data stored for each: the 10-bit  *)
(* IODC for subframe 1, the 8-bit IODE for 2 and 3.  The orbit and clock   *)
(* terms travel with their subframe and are left out.                      *)
(***************************************************************************)
EXTENDS Naturals

CONSTANT Iodcs   \* issues of data (IODC) the satellites broadcast

ASSUME IodcAssumption == Iodcs \subseteq 0 .. 1023

Accumulated == 1 .. 3

\* A fresh GpsEphemeris and an empty mask
NoEphemeris == [seen |-> {}, iod |-> [s \in Accumulated |-> 0]]

\* decodeSubframe: what subframe id of the data set with this IODC carries
Subframe(id, iodc) == [id |-> id, iod |-> IF id = 1 THEN iodc ELSE iodc % 256]

Subframes == {Subframe(id, iodc) : id \in 1 .. 5, iodc \in Iodcs}

\* iodcLow8 for subframe 1, the IODE itself for the others
IssueOfData(e, s) == e.iod[s] % 256

\* Mutant: a mismatch drops nothing
MutMergeBlindly(d, e) ==
    IF d.id \notin Accumulated THEN e
    ELSE [seen |-> e.seen \cup {d.id}, iod |-> [e.iod EXCEPT ![d.id] = d.iod]]

\* mergeSubframe: subframes 4 and 5 change nothing here; the others replace
\* what was stored and unmark every subframe of a different data set.
MergeSubframe(d, e) ==
    IF d.id \notin Accumulated THEN e
    ELSE LET stored == [e EXCEPT !.seen = @ \cup {d.id}, !.iod[d.id] = d.iod]
         IN  [stored EXCEPT !.seen =
                 {s \in @ : IssueOfData(stored, s) = IssueOfData(stored, d.id)}]

HasCompleteEphemeris(e) == e.seen = Accumulated
=============================================================================
