------------------------------ MODULE Challenge ------------------------------
(***************************************************************************)
(* The storage challenge: a pseudo-random walk over the committed bytes of *)
(* the data files, whose hash is part of the application hash.  Whatever   *)
(* the walk draws, its hash depends only on the parts that it reads.       *)
(***************************************************************************)
EXTENDS Naturals, Sequences

CONSTANT PartSize    \* CHALLENGE_BYTES_PER_PART

ASSUME ChallengeAssumption == PartSize \in Nat \ {0}

\* open(), which has a PANIC if the file is too small.
Opens(bytes, committedSize) == Len(bytes) >= committedSize

\* What a draw may give: a number modulo the committed size, which is NaN if that is 0.
Offsets(committedSize) == 0..committedSize - 1

\* readOrFail(): after the last committed byte it goes on with the first one.
ReadPart(bytes, committedSize, offset) ==
  [i \in 1..PartSize |-> bytes[((offset + i - 1) % committedSize) + 1]]

\* Every part that may be drawn can be read, and is the one that a node with these bytes,
\* all of them committed, reads after the same draw.
ReadsLike(bytes, committedSize, reference) ==
  /\ Opens(bytes, committedSize)
  /\ committedSize = Len(reference) /\ committedSize > 0
  /\ \A offset \in Offsets(committedSize) :
       ReadPart(bytes, committedSize, offset) = ReadPart(reference, committedSize, offset)
==============================================================================
