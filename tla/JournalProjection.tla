-------------------------- MODULE JournalProjection --------------------------
(***************************************************************************)
(* The projection of an attempt: an index entry derived from the journal,  *)
(* and how a reader tells whether it still speaks for the journal.         *)
(***************************************************************************)
EXTENDS RunJournal

VARIABLES
    projection,  \* the projection of the attempt, None before the first
    source       \* history: the journal it was derived from

projectionVars == <<disk, projection, source>>

ProjectionInit == DiskInit /\ projection = None /\ source = None

\* Rebuilt from the journal, never from anything else; a journal that fails
\* closed yields none.
Derive ==
    /\ ~FailsClosed(journal) /\ StateOf(journal) # None
    /\ projection' = [state          |-> StateOf(journal),
                      journal_seq    |-> LastSeq(journal),
                      segment_index  |-> Open - 1,
                      segment_sha256 |-> Digest(journal[Open])]
    /\ source' = journal
    /\ UNCHANGED disk

\* Slip: only the sequence numbers are compared.
NotFromJournalBySeq == projection.journal_seq > LastSeq(journal)

NotFromJournal ==
    \/ projection.journal_seq > LastSeq(journal)
    \/ \A i \in DOMAIN journal : Digest(journal[i]) # projection.segment_sha256

ProjectionShown ==
    IF projection.journal_seq < LastSeq(journal) \/ NotFromJournal
    THEN "stale" ELSE "current"

------------------------------------------------------------------------------
ProjectionNext ==
    \/ DiskStep /\ UNCHANGED <<projection, source>>
    \/ Derive

ProjectionSpec == ProjectionInit /\ [][ProjectionNext]_projectionVars

------------------------------------------------------------------------------
\* A projection shown current is the whole journal as it was when the projection
\* was derived: nothing was added, and no segment, the open one included, was
\* overwritten since.
CurrentProjectionIsExact ==
    (projection # None /\ ~FailsClosed(journal) /\ ProjectionShown = "current")
    => journal = source
==============================================================================
