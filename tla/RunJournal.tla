------------------------------ MODULE RunJournal ------------------------------
(***************************************************************************)
(* The journal of one supervised-run attempt and its single writer.  The   *)
(* writer appends line by line and rolls to new segments; it may crash at  *)
(* any moment, in the middle of a line too, and its pid may be reused by   *)
(* another process.  A segment file may be overwritten in place.           *)
(***************************************************************************)
EXTENDS JournalChain

CONSTANTS
    MaxLines,       \* bound: lines per segment, header included
    MaxSegments,    \* bound: segments per journal
    MaxEvents,      \* bound: event lines per journal
    MaxOverwrites   \* bound: in-place overwrites

ASSUME BoundsAreNat == {MaxLines, MaxSegments, MaxEvents, MaxOverwrites} \subseteq Nat

\* Slip: a finished attempt may run again in the same journal.
LifecycleWithRetry == [queued     |-> {"running", "refused"},
                       running    |-> {"cancelling", "finished"},
                       cancelling |-> {"finished"},
                       finished   |-> {"running"},
                       refused    |-> {}]

\* x-journal-rules.lifecycle: which states may follow which.
Lifecycle == [queued     |-> {"running", "refused"},
              running    |-> {"cancelling", "finished"},
              cancelling |-> {"finished"},
              finished   |-> {},
              refused    |-> {}]
NonTerminal == {"queued", "running", "cancelling"}

ASSUME NoneIsNoState == None \notin DOMAIN Lifecycle

VARIABLES
    journal,     \* the segment files on disk
    process,     \* who runs under the recorded pid: the owner, another, nobody
    overwrites,  \* history: in-place overwrites so far
    tailHit,     \* history: an overwrite hit the open segment
    written      \* history: the journal as the writer wrote it

faults == <<overwrites, tailHit>>
disk   == <<journal, process, overwrites, tailHit, written>>

Open == Len(journal)   \* the segment the writer appends to

HeaderLine(index, previousDigest, previousSeq, seq) ==
    [line_kind |-> "header", seq |-> seq, segment_index |-> index,
     previous_segment_sha256 |-> previousDigest, previous_last_seq |-> previousSeq]

\* The journal with one more line at its end.
AddLine(segments, line) ==
    [segments EXCEPT ![Len(segments)].lines = Append(@, line)]

\* The journal with a new segment whose header links to the last one.
AddSegment(segments) ==
    LET seq == LastSeq(segments)
    IN  Append(segments,
               [lines |-> <<HeaderLine(Len(segments), Digest(segments[Len(segments)]), seq, seq + 1)>>,
                final_newline |-> TRUE])

FirstSegment == [lines |-> <<HeaderLine(0, None, None, 0)>>, final_newline |-> TRUE]

\* The lines the lifecycle lets the writer put down next.
Line(kind, state) == [line_kind |-> kind, seq |-> LastSeq(journal) + 1, state |-> state]
StateLine(s) == Line(IF s \in NonTerminal THEN "state" ELSE "terminal", s)
EventLine == [line_kind |-> "event", seq |-> LastSeq(journal) + 1]

NextStates ==
    IF StateOf(written) = None THEN {"queued"} ELSE Lifecycle[StateOf(written)]

Events(segments) == Len(SelectSeq(AllLines(segments), LAMBDA l : l.line_kind = "event"))

NextLines ==
    {StateLine(s) : s \in NextStates}
        \cup (IF StateOf(written) \in NonTerminal /\ Events(written) < MaxEvents
              THEN {EventLine} ELSE {})

DiskInit ==
    /\ journal = <<FirstSegment>>
    /\ written = journal
    /\ process = "owner"
    /\ overwrites = 0
    /\ tailHit = FALSE

------------------------------------------------------------------------------
(* The writer: one per attempt file, under a lock, atomic line appends. *)

Writing == process = "owner"

AppendLine(line) ==
    /\ Len(journal[Open].lines) < MaxLines
    /\ journal' = AddLine(journal, line)
    /\ written' = AddLine(written, line)
    /\ UNCHANGED <<process, faults>>

Roll ==
    /\ Writing
    /\ Open < MaxSegments
    /\ StateOf(written) \in NonTerminal
    /\ journal' = AddSegment(journal)
    /\ written' = AddSegment(written)
    /\ UNCHANGED <<process, faults>>

\* The owner exits: after its terminal line or, crashing, at any time.
Exit ==
    /\ Writing
    /\ process' = "nobody"
    /\ UNCHANGED <<journal, faults, written>>

\* It crashes inside an append: part of the line is on disk, or all of it
\* but the newline; or it crashes inside the header of a new segment.
TornLine(segments, line) ==
    [AddLine(segments, line) EXCEPT ![Len(segments)].final_newline = FALSE]
TornSegment(segments) ==
    Append(segments, [lines |-> <<Raw>>, final_newline |-> FALSE])

CrashInAppend ==
    /\ Writing
    /\ NextLines # {}
    /\ process' = "nobody"
    /\ \/ \E line \in NextLines \cup {Raw} :
              /\ Len(journal[Open].lines) < MaxLines
              /\ journal' = TornLine(journal, line)
              /\ written' = TornLine(written, line)
       \/ /\ Open < MaxSegments
          /\ journal' = TornSegment(journal)
          /\ written' = TornSegment(written)
    /\ UNCHANGED faults

ReusePid ==
    /\ process = "nobody"
    /\ process' = "other"
    /\ UNCHANGED <<journal, faults, written>>

------------------------------------------------------------------------------
(* A segment file changes in place: a body line says something else. *)
Overwrite(i, k) ==
    /\ overwrites < MaxOverwrites
    /\ journal[i].lines[k].line_kind \notin {"header", "raw"}
    /\ \E s \in DOMAIN Lifecycle :
           journal' = [journal EXCEPT ![i].lines[k] =
                           [line_kind |-> "state", seq |-> @.seq, state |-> s]]
    /\ journal' # journal
    /\ overwrites' = overwrites + 1
    /\ tailHit' = (tailHit \/ i = Open)
    /\ UNCHANGED <<process, written>>

------------------------------------------------------------------------------
DiskStep ==
    \/ Writing /\ \E line \in NextLines : AppendLine(line)
    \/ Roll \/ Exit \/ CrashInAppend \/ ReusePid
    \/ \E i \in DOMAIN journal : \E k \in DOMAIN journal[i].lines : Overwrite(i, k)
==============================================================================
