---------------------------- MODULE JournalReader ----------------------------
(***************************************************************************)
(* A reader of a run journal.  It takes no lock: it opens the segment      *)
(* files in index order while the writer goes on, judges what it read,     *)
(* looks at the recorded owner, and shows the attempt's state.             *)
(***************************************************************************)
EXTENDS RunJournal

VARIABLES
    read,    \* the segments the reader has opened, None when it is not reading
    atEnd,   \* the reader found no further segment
    shown,   \* what it last displayed
    began    \* history: `written' when the current read began

vars == <<disk, read, atEnd, shown, began>>

Init ==
    /\ DiskInit
    /\ read = None
    /\ atEnd = FALSE
    /\ shown = None
    /\ began = None

\* Slip: a reader that found the journal unknown does not look again.
BeginReadUnlessUnknown ==
    /\ read = None /\ shown # "unknown"
    /\ read' = <<>>
    /\ atEnd' = FALSE
    /\ began' = written
    /\ UNCHANGED <<disk, shown>>

BeginRead ==
    /\ read = None
    /\ read' = <<>>
    /\ atEnd' = FALSE
    /\ began' = written
    /\ UNCHANGED <<disk, shown>>

OpenSegment ==
    /\ read # None /\ ~atEnd
    /\ Len(read) < Len(journal)
    /\ read' = Append(read, journal[Len(read) + 1])
    /\ UNCHANGED <<disk, atEnd, shown, began>>

NoMoreSegments ==
    /\ read # None /\ ~atEnd
    /\ Len(read) = Len(journal)
    /\ atEnd' = TRUE
    /\ UNCHANGED <<disk, read, shown, began>>

\* Slip: the pid runs.
PidRuns == process # "nobody"

\* The recorded owner is live when its pid runs and started when the journal says.
OwnerLive == process = "owner"

Display(segments, live) ==
    IF FailsClosed(segments) THEN "unknown"
    ELSE IF StateOf(segments) \in NonTerminal /\ ~live THEN "stale_unknown"
    ELSE StateOf(segments)

Show ==
    /\ atEnd
    /\ shown' = Display(read, OwnerLive)
    /\ read' = None /\ atEnd' = FALSE
    /\ began' = None
    /\ UNCHANGED disk

------------------------------------------------------------------------------
ReaderStep == BeginRead \/ OpenSegment \/ NoMoreSegments \/ Show

Next ==
    \/ DiskStep /\ UNCHANGED <<read, atEnd, shown, began>>
    \/ ReaderStep

Spec == Init /\ [][Next]_vars

\* A reader that has begun goes on, and somebody looks again.
FairSpec == Spec /\ WF_vars(ReaderStep)

------------------------------------------------------------------------------
\* `later' is the journal `earlier' with lines and segments added at its end.
Extends(later, earlier) ==
    /\ Len(earlier) <= Len(later)
    /\ \A i \in DOMAIN earlier :
           IF i = Len(earlier) THEN IsPrefix(earlier[i].lines, later[i].lines)
           ELSE later[i] = earlier[i]

\* A read the reader accepts is the journal exactly as it stood at one moment of
\* the read, between its beginning and now, and no line in it is one the writer died
\* in.  Appends and rolls during the read, torn lines and overwrites of sealed
\* segments either leave no trace in it or make it fail closed.
AcceptedReadIsSnapshot ==
    (atEnd /\ ~FailsClosed(read) /\ ~tailHit)
    => /\ Extends(written, read) /\ Extends(read, began)
       /\ \A i \in DOMAIN read : read[i].final_newline

\* A journal that is whole is shown unknown only to a reader the writer overtook:
\* it rolled to a new segment after that read began.  (A segment overwritten and,
\* after it was read, overwritten back is the other way to a false alarm.)
AlarmHasCause ==
    (atEnd /\ FailsClosed(read) /\ overwrites < 2)
    => FailsClosed(journal) \/ Len(written) > Len(began)

\* While files are not overwritten, an attempt once shown finished or refused is
\* never shown as anything else.
TerminalShownIsFinal ==
    [][(overwrites = 0 /\ shown \in {"finished", "refused"}) => shown' = shown]_vars

\* Once the writer and its process are quiet the display settles on what the
\* journal says: false alarms pass, an attempt whose owner died does not go on
\* being shown running, though another process has its pid, and one that finished is
\* shown finished.
DisplaySettles == <>[](shown = Display(journal, process = "owner"))
==============================================================================
