----------------------------- MODULE RunLifecycle -----------------------------
(***************************************************************************)
(* The lifecycle of one supervised-run attempt as its journal records it,  *)
(* and the checker that reads the codes refused_after_launch and           *)
(* lifecycle_invalid off a journal.  The journal here is written by        *)
(* anybody, well behaved or not: any body may follow any other, and the    *)
(* writer rolls to a new segment wherever it likes.                        *)
(***************************************************************************)
EXTENDS Integers, Sequences, SequencesExt

CONSTANTS
    Bodies,        \* the line bodies a writer may put down
    MaxBodies,     \* bound: bodies per journal
    MaxSegments,   \* bound: segments per journal
    None           \* the `previous = None' of the scan

\* x-journal-rules.lifecycle: which states may follow which.
Lifecycle ==
    [queued     |-> {"running", "refused"},
     running    |-> {"cancelling", "finished"},
     cancelling |-> {"finished"},
     finished   |-> {},
     refused    |-> {}]

\* What the checker reads of a body.  `termination' and `refusal' say whether
\* the field is there; only terminal bodies have them.
StateBody(s, w) == [body_kind |-> "state", state |-> s, worker_invocations |-> w]
TerminalBody(s, w, t, r) ==
    [body_kind |-> "terminal", state |-> s, worker_invocations |-> w,
     termination |-> t, refusal |-> r]
EventBody == [body_kind |-> "event"]

ASSUME BodiesKnown ==
    \A body \in Bodies :
        \/ body = EventBody
        \/ /\ body.worker_invocations \in Nat
           /\ \/ body.body_kind = "state" /\ body.state \in {"queued", "running", "cancelling"}
              \/ body.body_kind = "terminal" /\ body.state \in {"finished", "refused"}

ASSUME NoneIsNoState == None \notin DOMAIN Lifecycle

\* The state and terminal bodies among these, in order.
Stateful(bodies) ==
    FlattenSeq([i \in DOMAIN bodies |->
        IF bodies[i].body_kind \in {"state", "terminal"} THEN <<bodies[i]>> ELSE <<>>])

\* Slip: every segment is scanned on its own, only the last one counts.
StateBodiesOfLast(segments) == Stateful(Last(segments))

\* The state and terminal bodies of an attempt in order, segments joined.
StateBodies(segments) == Stateful(FlattenSeq(segments))

Previous(bodies, i) == IF i = 1 THEN None ELSE bodies[i - 1].state

\* Slip: the count of workers started is not looked at.
AfterLaunchByState(body, previous) ==
    body.state = "refused" /\ previous \in {"running", "cancelling"}

AfterLaunch(body, previous) ==
    /\ body.state = "refused"
    /\ previous \in {"running", "cancelling"} \/ body.worker_invocations > 0

\* Slip: refusals are left to the refused_after_launch rule.
InvalidUnlessRefused(body, previous) ==
    previous # None /\ body.state # "refused" /\ body.state \notin Lifecycle[previous]

InvalidTransition(body, previous) ==
    previous # None /\ body.state \notin Lifecycle[previous]

\* A terminal body that lacks the record its state calls for.
Unaccounted(body) ==
    /\ body.body_kind = "terminal"
    /\ \/ body.state = "finished" /\ ~body.termination
       \/ body.state = "refused" /\ ~body.refusal

\* The codes of one attempt.  A refusal after launch is reported as that and
\* not also as an invalid transition.
JournalCodes(segments) ==
    LET bodies == StateBodies(segments)
        At(Test(_, _)) == \E i \in DOMAIN bodies : Test(bodies[i], Previous(bodies, i))
        Invalid(b, p) == (InvalidTransition(b, p) /\ ~AfterLaunch(b, p)) \/ Unaccounted(b)
    IN  {c \in {"refused_after_launch", "lifecycle_invalid"} :
             \/ c = "refused_after_launch" /\ At(AfterLaunch)
             \/ c = "lifecycle_invalid" /\ At(Invalid)}

------------------------------------------------------------------------------
VARIABLE segments   \* the bodies of the attempt's segments, oldest first

Init == segments = <<<<>>>>

Write(body) ==
    /\ Len(FlattenSeq(segments)) < MaxBodies
    /\ segments' = [segments EXCEPT ![Len(segments)] = Append(@, body)]

Roll ==
    /\ Len(segments) < MaxSegments
    /\ segments' = Append(segments, <<>>)

Next == Roll \/ \E body \in Bodies : Write(body)

Spec == Init /\ [][Next]_segments

------------------------------------------------------------------------------
Clean == JournalCodes(segments) = {}

\* The three ways an attempt may go from admission to its end.
CompleteRuns ==
    {<<"queued", "refused">>,
     <<"queued", "running", "finished">>,
     <<"queued", "running", "cancelling", "finished">>}

\* A journal the checker passes tells a stretch of one complete run, however it
\* is cut into segments and whatever events lie between; a journal that does so
\* and closes its end properly is passed.  (The checker does not ask
\* for the beginning: a stretch may start anywhere.)
CleanMeansOneRun ==
    LET bodies == StateBodies(segments)
        story  == [i \in DOMAIN bodies |-> bodies[i].state]
        Closed == \A i \in DOMAIN bodies :
                      /\ ~Unaccounted(bodies[i])
                      /\ bodies[i].state = "refused" => bodies[i].worker_invocations = 0
        ARun   == story = <<>> \/ \E run \in CompleteRuns :
                      \E from, to \in DOMAIN run : story = SubSeq(run, from, to)
    IN  Clean <=> ARun /\ Closed

\* No sequence of later lines makes a diagnosed journal look clean again, and
\* rolling to a new segment neither adds nor hides a diagnosis.
CodesStay ==
    [][/\ JournalCodes(segments) \subseteq JournalCodes(segments')
       /\ Roll => JournalCodes(segments') = JournalCodes(segments)]_segments

\* Refused exists only before a process starts: a journal in which a refusal
\* comes anywhere after a running state, however far back, is diagnosed.
RefusalBeforeLaunch ==
    LET bodies == StateBodies(segments)
    IN  (\E i, j \in DOMAIN bodies :
             i < j /\ bodies[i].state = "running" /\ bodies[j].state = "refused")
        => ~Clean
==============================================================================
