-------------------------- MODULE ProjectionsIndex --------------------------
(***************************************************************************)
(* The merge of projection manifests into projections.index.v1, and the    *)
(* harness that holds the producer in the spec repository to it            *)
(* (run_driver_equivalence.py): it fetches the driver by content from a    *)
(* ref, lays a vector out as files, runs the driver on them and compares.  *)
(* The checkout is others': its refs move while the harness tries them.    *)
(* Targets and predicates are numbers, in the order of the strings.        *)
(***************************************************************************)
EXTENDS Integers, FiniteSets, SequencesExt

CONSTANTS
    Vectors,    \* [manifests, sidecars, expected] of the vectors
    RefLists,   \* the refs to try: the default ones, or the one of the environment
    NoDriver,   \* a ref without the file
    MaxMoves    \* bound on the moves of the checkout's refs

Kinds == <<"proj-S-certified", "proj-code-api", "proj-code-sbom">>

\* Every manifest has the repo, kind and predicate it is sorted by.
IsVector(v) ==
    /\ v.manifests \in Seq(Range(v.manifests))
    /\ v.sidecars \in Seq(Range(v.sidecars))
    /\ \A m \in Range(v.manifests) :
           m.target \in Int /\ m.predicate \in Int /\ m.kind \in Range(Kinds)

ASSUME VectorsTyped == \A v \in Vectors : IsVector(v)

VARIABLES
    vector,     \* the vector the suites have
    refs,       \* the refs to try, in order
    spec,       \* ref -> the driver it has; the empty function is no checkout
    phase,      \* where the harness is
    tried,      \* how many refs have been tried
    driver,     \* what was fetched
    index,      \* what the driver wrote, or None: it failed or wrote no index
    status,     \* of the report
    moves       \* of the refs so far

outside == <<vector, refs>>
harnessVars == <<vector, refs, spec, phase, tried, driver, index, status, moves>>

None == [written |-> FALSE, entries |-> <<>>]
Written(entries) == [written |-> TRUE, entries |-> entries]

-----------------------------------------------------------------------------
Copied == {"target", "kind", "predicate", "manifest_path", "body_digest"}
RefreshFields == {"refresh_status", "attempted_code_head_sha"}

\* What only the one kind or only the others have.
KindFields(m) ==
    IF m.kind = "proj-S-certified"
    THEN {"source_S_digest"} \union (DOMAIN m \intersect {"display_route"})
    ELSE {"code_head_sha"}

\* The refresh fields of the last of these sidecars, if there is one.
RefreshOf(sidecars, its) ==
    IF its = {} THEN <<>>
    ELSE LET last == sidecars[Max(its)] IN Restrict(last, RefreshFields \intersect DOMAIN last)

\* Slip: a sidecar is looked up by the name of its file.
SidecarOfName(sidecars, path) ==
    RefreshOf(sidecars, {i \in DOMAIN sidecars : sidecars[i].manifest_path.name = path.name})

\* Of sidecars for one manifest the last counts.
SidecarOf(sidecars, path) ==
    RefreshOf(sidecars, {i \in DOMAIN sidecars : sidecars[i].manifest_path = path})

Entry(m, refresh) ==
    [f \in Copied \union KindFields(m) \union DOMAIN refresh |->
        IF f \in DOMAIN refresh THEN refresh[f] ELSE m[f]]

\* Slip: entries of one repo and kind are left in the order of the listing.
KeyOfKind(e) == <<e.target, CHOOSE k \in DOMAIN Kinds : Kinds[k] = e.kind>>

\* repo, kind, predicate.
Key(e) == <<e.target, CHOOSE k \in DOMAIN Kinds : Kinds[k] = e.kind, e.predicate>>

Less(a, b) == \E i \in DOMAIN a : a[i] < b[i] /\ \A j \in 1..(i - 1) : a[j] = b[j]

\* In the order of the keys, and entries of one key as they came.
Before(keys, i, j) ==
    \/ Less(keys[i], keys[j])
    \/ keys[i] = keys[j] /\ i < j

Rank(keys, i) == Cardinality({j \in DOMAIN keys : Before(keys, j, i)})

\* A stable sort: the k-th entry is the one that has k - 1 before it.
Sorted(entries, keys) ==
    [k \in DOMAIN entries |-> entries[CHOOSE i \in DOMAIN keys : Rank(keys, i) = k - 1]]

build_projections_index(manifests, sidecars) ==
    LET entry(m) == Entry(m, SidecarOf(sidecars, m.manifest_path))
    IN  Sorted([i \in DOMAIN manifests |-> entry(manifests[i])],
               [i \in DOMAIN manifests |-> Key(entry(manifests[i]))])

-----------------------------------------------------------------------------
\* Slip: the targets' directories are left out.
FlatPlace(m) ==
    <<IF m.kind = "proj-S-certified" THEN "certified" ELSE "projcode", m.manifest_path.name>>

\* The file of a manifest: the directories of its path are not those of the fixture.
Place(m) ==
    <<IF m.kind = "proj-S-certified" THEN "certified" ELSE "projcode",
      m.target, m.manifest_path.name>>

\* A later manifest overwrites an earlier one at its place; a sidecar stays.
build_fixture(v) ==
    LET manifests == v.manifests
        refresh(i) == SidecarOf(v.sidecars, manifests[i].manifest_path)
        at(p) == {i \in DOMAIN manifests : Place(manifests[i]) = p}
        refreshed(p) == {i \in at(p) : refresh(i) # <<>>}
    IN  [p \in {Place(m) : m \in Range(manifests)} |->
            [manifest |-> manifests[Max(at(p))],
             refresh |-> IF refreshed(p) = {} THEN <<>> ELSE refresh(Max(refreshed(p)))]]

\* The producer: it globs the fixture, in whatever order the file system lists.
Driven(d, fixture, order) ==
    LET refresh(p) == IF d = "no_sidecars" THEN <<>> ELSE fixture[p].refresh
        entry(p) == Entry(fixture[p].manifest, refresh(p))
        key(p) == IF d = "by_kind" THEN KeyOfKind(entry(p)) ELSE Key(entry(p))
    IN  IF d = "crashes" THEN None
        ELSE Written(Sorted([i \in DOMAIN order |-> entry(order[i])],
                            [i \in DOMAIN order |-> key(order[i])]))

\* Its --validate, against the schema of this checkout.
Valid(d, produced) == d # "old_schema" /\ produced.written

Drivers == {"faithful", "no_sidecars", "by_kind", "old_schema", "crashes"}

-----------------------------------------------------------------------------
HarnessInit ==
    /\ vector \in Vectors
    /\ refs \in RefLists
    /\ spec \in [Range(refs) -> Drivers \union {NoDriver}] \union {<<>>}
    /\ phase = "locating"
    /\ tried = 0
    /\ driver = NoDriver
    /\ index = None
    /\ status = "none"
    /\ moves = 0

\* Someone fetches or commits; what the harness does not read any more is let be.
MoveSpec ==
    /\ phase = "locating" /\ moves < MaxMoves
    /\ \E ref \in DOMAIN spec, d \in Drivers \union {NoDriver} :
           spec' = [spec EXCEPT ![ref] = d]
    /\ moves' = moves + 1
    /\ UNCHANGED <<outside, phase, tried, driver, index, status>>

\* git show of the next ref has the file.
Locate ==
    /\ phase = "locating" /\ spec # <<>> /\ tried < Len(refs)
    /\ spec[refs[tried + 1]] # NoDriver
    /\ tried' = tried + 1
    /\ driver' = spec[refs[tried + 1]]
    /\ phase' = "running"
    /\ UNCHANGED <<outside, spec, index, status, moves>>

\* It has not: the next one is tried.
TryNext ==
    /\ phase = "locating" /\ spec # <<>> /\ tried < Len(refs)
    /\ spec[refs[tried + 1]] = NoDriver
    /\ tried' = tried + 1
    /\ UNCHANGED <<outside, spec, phase, driver, index, status, moves>>

\* No checkout, or every ref was tried.
Skip ==
    /\ phase = "locating"
    /\ spec = <<>> \/ tried = Len(refs)
    /\ phase' = "done" /\ status' = "skip"
    /\ UNCHANGED <<outside, spec, tried, driver, index, moves>>

run_driver ==
    /\ phase = "running"
    /\ LET fixture == build_fixture(vector)
       IN  \E order \in SetToSeqs(DOMAIN fixture) : index' = Driven(driver, fixture, order)
    /\ phase' = "judging"
    /\ UNCHANGED <<outside, spec, tried, driver, status, moves>>

Verdict(produced, valid) ==
    IF produced.written /\ produced.entries = vector.expected /\ valid THEN "pass" ELSE "fail"

Judge ==
    /\ phase = "judging"
    /\ status' = Verdict(index, Valid(driver, index))
    /\ phase' = "done"
    /\ UNCHANGED <<outside, spec, tried, driver, index, moves>>

HarnessNext == MoveSpec \/ Locate \/ TryNext \/ Skip \/ run_driver \/ Judge

HarnessSpec == HarnessInit /\ [][HarnessNext]_harnessVars

-----------------------------------------------------------------------------
\* The suites' own test: the reference merger gives what the vector expects.
ReferenceTest == build_projections_index(vector.manifests, vector.sidecars) = vector.expected

OneKey(m, n) == m.target = n.target /\ m.kind = n.kind /\ m.predicate = n.predicate
OneFile(m, n) ==
    /\ m.target = n.target /\ m.manifest_path.name = n.manifest_path.name
    /\ (m.kind = "proj-S-certified") = (n.kind = "proj-S-certified")

\* No two manifests of the vector are one in that sense.
Apart(one(_, _)) ==
    \A i, j \in DOMAIN vector.manifests :
        one(vector.manifests[i], vector.manifests[j]) => i = j

\* When both tests pass, what the producer wrote is what the merge gives for the
\* manifests in any order they could have been listed in, provided no two have
\* one key: the index depends on the set of manifests alone.
GreenMeansPure ==
    (status = "pass" /\ ReferenceTest /\ Apart(OneKey)) =>
        \A listing \in SetToSeqs(Range(vector.manifests)) :
            index.entries = build_projections_index(listing, vector.sidecars)

\* Every manifest has one entry that says what it says, and its refresh state is
\* that of a sidecar of its own path, or none if it has none.
GreenMeansComplete ==
    (status = "pass" /\ ReferenceTest) =>
        /\ Len(index.entries) = Len(vector.manifests)
        /\ \A m \in Range(vector.manifests) : \E e \in Range(index.entries) :
               LET refresh == RefreshFields \intersect DOMAIN e
                   own == {s \in Range(vector.sidecars) : s.manifest_path = m.manifest_path}
               IN  /\ \A f \in Copied : e[f] = m[f]
                   /\ own = {} => refresh = {}
                   /\ own # {} => \E s \in own :
                          /\ refresh = RefreshFields \intersect DOMAIN s
                          /\ \A f \in refresh : e[f] = s[f]

\* A producer that merges as the reference does is never reported as drifted, in
\* whatever order the file system lists the fixture, when the vector passes its own
\* test and no two manifests have one key or need one file.
NoFalseAlarm ==
    (driver = "faithful" /\ ReferenceTest /\ Apart(OneKey) /\ Apart(OneFile))
        => status # "fail"
=============================================================================
