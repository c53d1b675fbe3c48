------------------------------- MODULE Release -------------------------------
(***************************************************************************)
(* The publish workflow: a run is dispatched from the branch as it is then *)
(* and keeps that commit; verify runs the suites, after it publish-npm and *)
(* publish-pypi go their own ways.  Jobs fail half way or after the upload,*)
(* failed jobs are run again, the branch moves on, another run is          *)
(* dispatched.  A registry takes a file once and never gives it back.      *)
(***************************************************************************)
EXTENDS PackageReader

CONSTANTS
    None,
    RunIds,      \* runs of the workflow
    MaxCommits,  \* bound on the commits to the branch
    MaxVersion   \* bound on the versions

ASSUME ReleaseBounds == MaxCommits \in Nat /\ MaxVersion \in Nat \ {0}

Versions == 1..MaxVersion
Tree == [id : 0..MaxCommits, says : [Places -> Versions]]

ASSUME NoneIsNoTree == None \notin Tree

VARIABLES
    head,    \* the branch
    runs,    \* the runs of the workflow
    npm,     \* version -> the commit the package is of
    pypi     \* file of a distribution -> version -> the commit it is of

vars == <<head, runs, npm, pypi>>

Distributions == {"sdist", "wheel"}
Jobs == {"verify", "publish_npm", "publish_pypi"}

\* The registry holds no such file.
Free(registry, version) == registry[version] = None

\* A run, before anything of it is done; of no commit, it has not been dispatched.
RunOf(tree) == [tree |-> tree, jobs |-> [j \in Jobs |-> "waiting"], sent |-> {}]
NotStarted == RunOf(None)

Init ==
    /\ head = [id |-> 0, says |-> [p \in Places |-> 1]]
    /\ runs = [r \in RunIds |-> NotStarted]
    /\ npm = [v \in Versions |-> None]
    /\ pypi = [d \in Distributions |-> [v \in Versions |-> None]]

\* A commit: content only, or the version set at every place but perhaps one.
Commit ==
    /\ head.id < MaxCommits
    /\ \E v \in Versions, forgotten \in SUBSET Places :
        /\ Cardinality(forgotten) <= 1
        /\ \A p \in Places : v >= head.says[p]
        /\ head' = [id |-> head.id + 1,
                    says |-> [p \in Places |-> IF p \in forgotten THEN head.says[p] ELSE v]]
    /\ UNCHANGED <<runs, npm, pypi>>

\* A release, or a dispatch by hand: every job checks out this commit.
Dispatch(r) ==
    /\ runs[r] = NotStarted
    /\ runs' = [runs EXCEPT ![r] = RunOf(head)]
    /\ UNCHANGED <<head, npm, pypi>>

\* The suites' comparisons of the places, and of the readers on the checkout.
Verified(tree) ==
    /\ tree.says["package.json"] = tree.says["index.js"]
    /\ tree.says["contract.json"] = tree.says["index.js"]
    /\ python_dump(Checkout(tree)) = jsPayload(Checkout(tree))

Waiting(r, job) == runs[r].tree # None /\ runs[r].jobs[job] = "waiting"
Ends(r, job, result) ==
    runs' = [runs EXCEPT ![r] =
        [tree |-> @.tree,
         jobs |-> [@.jobs EXCEPT ![job] = result],
         sent |-> IF job = "publish_pypi" THEN {} ELSE @.sent]]

VerifyPasses(r) ==
    /\ Waiting(r, "verify")
    /\ Verified(runs[r].tree)
    /\ Ends(r, "verify", "success")
    /\ UNCHANGED <<head, npm, pypi>>

\* Slip: the publishing jobs do not wait for verify.
ClearedAtOnce(r, job) == Waiting(r, job)

\* A publishing job may start.
Cleared(r, job) == Waiting(r, job) /\ runs[r].jobs["verify"] = "success"

\* A job fails by itself; verify also for what it finds.
JobFails(r) ==
    \E job \in Jobs :
        /\ IF job = "verify" THEN Waiting(r, job) ELSE Cleared(r, job)
        /\ Ends(r, job, "failure")
        /\ UNCHANGED <<head, npm, pypi>>

\* Slip: a version that is there will do.
NpmSkipsExisting(r) ==
    /\ Cleared(r, "publish_npm")
    /\ ~Free(npm, runs[r].tree.says["package.json"])
    /\ Ends(r, "publish_npm", "success")
    /\ UNCHANGED <<head, npm, pypi>>

\* npm publish refuses a version that is there.
NpmConflict(r) ==
    /\ Cleared(r, "publish_npm")
    /\ ~Free(npm, runs[r].tree.says["package.json"])
    /\ Ends(r, "publish_npm", "failure")
    /\ UNCHANGED <<head, npm, pypi>>

\* The package is taken; the answer may be lost.
PublishNpm(r, result) ==
    LET tree == runs[r].tree
        version == tree.says["package.json"]
    IN  /\ Cleared(r, "publish_npm")
        /\ Free(npm, version)
        /\ npm' = [npm EXCEPT ![version] = tree]
        /\ Ends(r, "publish_npm", result)
        /\ UNCHANGED <<head, pypi>>

\* The file is next: wheels are sent first.
IsNext(r, d) ==
    /\ Cleared(r, "publish_pypi")
    /\ runs[r].sent = IF d = "wheel" THEN {} ELSE {"wheel"}

\* The file has been sent, or gone over.
Sends(r, d, result) ==
    IF d = "wheel" /\ result = "success"
    THEN runs' = [runs EXCEPT ![r] = [tree |-> @.tree, jobs |-> @.jobs, sent |-> {d}]]
    ELSE Ends(r, "publish_pypi", result)

\* Slip: the job builds what the branch has by now.
UploadOfBranch(r, d, result) ==
    LET version == head.says["pyproject.toml"]
    IN  /\ IsNext(r, d)
        /\ pypi' = IF Free(pypi[d], version) THEN [pypi EXCEPT ![d][version] = head] ELSE pypi
        /\ Sends(r, d, result)
        /\ UNCHANGED <<head, npm>>

\* Slip: without skip-existing.
UploadOnce(r, d, result) ==
    LET tree == runs[r].tree
        version == tree.says["pyproject.toml"]
    IN  /\ IsNext(r, d)
        /\ Free(pypi[d], version)
        /\ pypi' = [pypi EXCEPT ![d][version] = tree]
        /\ Sends(r, d, result)
        /\ UNCHANGED <<head, npm>>

\* One of the two files; skip-existing goes over it when it is there.
Upload(r, d, result) ==
    LET tree == runs[r].tree
        version == tree.says["pyproject.toml"]
    IN  /\ IsNext(r, d)
        /\ pypi' = IF Free(pypi[d], version) THEN [pypi EXCEPT ![d][version] = tree] ELSE pypi
        /\ Sends(r, d, result)
        /\ UNCHANGED <<head, npm>>

\* The failed jobs of a run that is through are run again, on the run's commit.
Rerun(r) ==
    /\ \E job \in Jobs : runs[r].jobs[job] = "failure"
    /\ ~Waiting(r, "verify")
    /\ \A job \in Jobs : ~Cleared(r, job)
    /\ runs' = [runs EXCEPT ![r] =
           [tree |-> @.tree,
            jobs |-> [job \in Jobs |-> IF @.jobs[job] = "failure" THEN "waiting" ELSE @.jobs[job]],
            sent |-> @.sent]]
    /\ UNCHANGED <<head, npm, pypi>>

Next ==
    \/ Commit
    \/ \E r \in RunIds :
        \/ Dispatch(r) \/ VerifyPasses(r) \/ JobFails(r) \/ Rerun(r)
        \/ NpmConflict(r)
        \/ \E result \in {"success", "failure"} :
            \/ PublishNpm(r, result)
            \/ \E d \in Distributions : Upload(r, d, result)

Spec == Init /\ [][Next]_vars

\* Jobs that may start are started, somebody runs the failed ones again, and the
\* network does not fail forever.
FairSpec ==
    /\ Spec
    /\ \A r \in RunIds :
        /\ WF_vars(Rerun(r)) /\ WF_vars(NpmConflict(r))
        /\ SF_vars(PublishNpm(r, "success"))
        /\ \A d \in Distributions : SF_vars(Upload(r, d, "success"))

-----------------------------------------------------------------------------
TypeOK ==
    /\ head \in Tree
    /\ runs \in [RunIds -> [tree : Tree \union {None},
                            jobs : [Jobs -> {"waiting", "success", "failure"}],
                            sent : SUBSET {"wheel"}]]
    /\ npm \in [Versions -> Tree \union {None}]
    /\ pypi \in [Distributions -> [Versions -> Tree \union {None}]]

\* Nothing happens in a run that was not dispatched, and only verify before it
\* succeeded, which it does on what the suites pass.
RunsInOrder ==
    \A r \in RunIds :
        /\ runs[r].tree = None => runs[r].jobs["verify"] = "waiting"
        /\ runs[r].jobs["verify"] = "success" => Verified(runs[r].tree)
        /\ runs[r].jobs["verify"] # "success" =>
               /\ runs[r].jobs["publish_npm"] = "waiting"
               /\ runs[r].jobs["publish_pypi"] = "waiting"
               /\ runs[r].sent = {}

\* A file is of a commit that a run verified, under the version the commit has at
\* the place its registry goes by.
LiveIsOfARun ==
    \A v \in Versions :
        /\ npm[v] # None =>
               /\ npm[v].says["package.json"] = v
               /\ \E r \in RunIds : runs[r].tree = npm[v] /\ runs[r].jobs["verify"] = "success"
        /\ \A d \in Distributions : pypi[d][v] # None =>
               /\ pypi[d][v].says["pyproject.toml"] = v
               /\ \E r \in RunIds :
                      runs[r].tree = pypi[d][v] /\ runs[r].jobs["verify"] = "success"

\* A job has put in place what it has done.
DoneIsLive ==
    \A r \in RunIds :
        /\ runs[r].jobs["publish_npm"] = "success" =>
               npm[runs[r].tree.says["package.json"]] = runs[r].tree
        /\ (runs[r].jobs["publish_pypi"] = "success" \/ runs[r].sent # {}) =>
               pypi["wheel"][runs[r].tree.says["pyproject.toml"]] # None
        /\ runs[r].jobs["publish_pypi"] = "success" =>
               pypi["sdist"][runs[r].tree.says["pyproject.toml"]] # None

\* The inductive invariant: in whatever order jobs of any number of runs fail and
\* are run again, order, provenance and completion stay together.
IInv == TypeOK /\ RunsInOrder /\ LiveIsOfARun /\ DoneIsLive

\* Whatever is live, on either registry, is of a commit some run was dispatched
\* from and the suites pass on; what npm serves as a version says it is that
\* version in both languages.
LiveWasVerified ==
    /\ \A v \in Versions :
        npm[v] # None =>
            /\ \E r \in RunIds : runs[r].tree = npm[v]
            /\ \A p \in Places \ {"pyproject.toml"} : npm[v].says[p] = v
    /\ \A d \in Distributions, v \in Versions :
        pypi[d][v] # None =>
            /\ \E r \in RunIds : runs[r].tree = pypi[d][v]
            /\ Verified(pypi[d][v])

\* The commits that runs have been dispatched from for a version.
NamedBy(v) ==
    {runs[r].tree : r \in {s \in RunIds :
        /\ runs[s].tree # None
        /\ \/ runs[s].tree.says["package.json"] = v
           \/ runs[s].tree.says["pyproject.toml"] = v}}

\* A version that was dispatched from one commit is the same on both registries
\* and in both files of the distribution, however its jobs failed and were run
\* again while the branch moved on, and a Python process and a JavaScript one
\* that installed it read the same.
OneCommitOneContent ==
    \A v \in Versions : (\A s, t \in NamedBy(v) : s = t) =>
        LET live == {npm[v], pypi["sdist"][v], pypi["wheel"][v]} \ {None}
        IN  /\ live \subseteq NamedBy(v)
            /\ npm[v] # None /\ pypi["wheel"][v] # None =>
                   python_dump(Wheel(pypi["wheel"][v])) = jsPayload(NpmPackage(npm[v]))

\* A run that ends green has its own commit on npm, and both files of its Python
\* version are live; they are of its commit too when no other named that version.
GreenRunIsLive ==
    \A r \in RunIds : (\A job \in Jobs : runs[r].jobs[job] = "success") =>
        LET tree == runs[r].tree
            version == tree.says["pyproject.toml"]
        IN  /\ npm[tree.says["package.json"]] = tree
            /\ \A d \in Distributions :
                   /\ pypi[d][version] # None
                   /\ NamedBy(version) = {tree} => pypi[d][version] = tree

\* Both registries have the versions the commit names.
IsLive(tree) ==
    /\ tree # None
    /\ npm[tree.says["package.json"]] # None
    /\ \A d \in Distributions : pypi[d][tree.says["pyproject.toml"]] # None

\* A publication that got stuck half way comes through by running its failed jobs
\* again, even when npm, which already has the version, fails every time.
PartialPublishHeals ==
    \A r \in RunIds : runs[r].jobs["verify"] = "success" ~> IsLive(runs[r].tree)
=============================================================================
