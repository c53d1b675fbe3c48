----------------------------- MODULE JournalChain -----------------------------
(***************************************************************************)
(* A run journal as its bytes: segments chained by hash, read and judged   *)
(* as a whole.                                                             *)
(*                                                                         *)
(* A segment is its lines and whether the last line ends in a newline.     *)
(* The first line of a segment is its header.  SHA-256 over the segment's  *)
(* bytes is taken to be collision free, so that a digest is a tagged copy  *)
(* of what was hashed.                                                     *)
(***************************************************************************)
EXTENDS Integers, Sequences, SequencesExt

CONSTANT None   \* JSON null

\* The bytes of a segment depend on its lines and its final newline only.
SegmentBytes(segment) == [lines |-> segment.lines, final_newline |-> segment.final_newline]

Digest(segment) == <<"sha256", SegmentBytes(segment)>>

Header(segment) == segment.lines[1]

\* Slip: the digest in the header is not recomputed.
ChainByIndex(segments) ==
    \A i \in DOMAIN segments : Header(segments[i]).segment_index = i - 1

\* Each header names its own index and the digest of the segment before it.
ChainOk(segments) ==
    \A i \in DOMAIN segments :
        /\ Header(segments[i]).segment_index = i - 1
        /\ Header(segments[i]).previous_segment_sha256 =
               IF i = 1 THEN None ELSE Digest(segments[i - 1])

LastLine(segment) == segment.lines[Len(segment.lines)]
LastSeq(segments) == LastLine(segments[Len(segments)]).seq

\* seq counts from 0 without a gap across the segments of the attempt, and each
\* header names the last seq of the segment before it.
SeqOk(segments) ==
    \A i \in DOMAIN segments :
        /\ Header(segments[i]).previous_last_seq =
               IF i = 1 THEN None ELSE LastLine(segments[i - 1]).seq
        /\ \A k \in DOMAIN segments[i].lines :
               segments[i].lines[k].seq =
                   IF k > 1 THEN segments[i].lines[k - 1].seq + 1
                   ELSE IF i = 1 THEN 0
                   ELSE LastLine(segments[i - 1]).seq + 1

\* A line that does not parse.
Raw == [line_kind |-> "raw"]

\* Slip: a segment just rolled to, with its header only, counts as torn.
TornOrBare(segments) ==
    \E i \in DOMAIN segments :
        ~segments[i].final_newline \/ LastLine(segments[i]) = Raw \/ Len(segments[i].lines) = 1

\* Slip: a last line that parses will do.
Unparsed(segments) == \E i \in DOMAIN segments : LastLine(segments[i]) = Raw

\* The last line has no newline after it or does not parse.
Torn(segments) ==
    \E i \in DOMAIN segments :
        ~segments[i].final_newline \/ LastLine(segments[i]) = Raw

\* The conditions on which a reader shows the attempt unknown.
FailsClosed(segments) == Torn(segments) \/ ~ChainOk(segments) \/ ~SeqOk(segments)

AllLines(segments) == FlattenSeq([i \in DOMAIN segments |-> segments[i].lines])

\* The attempt's state: the last state or terminal line, if there is one.
StateOf(segments) ==
    LET told == SelectSeq(AllLines(segments),
                          LAMBDA l : l.line_kind \in {"state", "terminal"})
    IN  IF told = <<>> THEN None ELSE Last(told).state
==============================================================================
