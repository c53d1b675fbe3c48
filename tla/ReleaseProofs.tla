---------------------------- MODULE ReleaseProofs ----------------------------
(***************************************************************************)
(* Proofs about the publish workflow, for any number of runs, commits and  *)
(* versions.                                                               *)
(***************************************************************************)
EXTENDS Release, TLAPS

\* Nothing is dispatched, nothing is live.
LEMMA InitIInv == Init => IInv
<1> SUFFICES ASSUME Init PROVE IInv
    OBVIOUS
<1>1. TypeOK
    BY ReleaseBounds DEF Init, TypeOK, Tree, Versions, NotStarted, RunOf, Jobs
<1>2. RunsInOrder
    BY DEF Init, RunsInOrder, NotStarted, RunOf, Jobs
<1>3. LiveIsOfARun
    BY DEF Init, LiveIsOfARun
<1>4. DoneIsLive
    BY DEF Init, DoneIsLive, NotStarted, RunOf, Jobs
<1> QED
    BY <1>1, <1>2, <1>3, <1>4 DEF IInv

Results == {"success", "failure"}

\* A job's end changes that job of that run, and what the run has sent.
LEMMA EndsIsLocal ==
    ASSUME TypeOK, NEW r \in RunIds, NEW job \in Jobs, NEW result \in Results,
           Ends(r, job, result)
    PROVE  /\ runs' \in [RunIds -> [tree : Tree \union {None},
                                    jobs : [Jobs -> {"waiting", "success", "failure"}],
                                    sent : SUBSET {"wheel"}]]
           /\ \A q \in RunIds : runs'[q].tree = runs[q].tree
           /\ \A q \in RunIds \ {r} : runs'[q] = runs[q]
           /\ \A j \in Jobs \ {job} : runs'[r].jobs[j] = runs[r].jobs[j]
           /\ runs'[r].jobs[job] = result
           /\ runs'[r].sent = IF job = "publish_pypi" THEN {} ELSE runs[r].sent
<1>1. runs[r] \in [tree : Tree \union {None},
                   jobs : [Jobs -> {"waiting", "success", "failure"}],
                   sent : SUBSET {"wheel"}]
    BY DEF TypeOK
<1> DEFINE here == [tree |-> runs[r].tree,
                    jobs |-> [runs[r].jobs EXCEPT ![job] = result],
                    sent |-> IF job = "publish_pypi" THEN {} ELSE runs[r].sent]
<1>2. runs' = [runs EXCEPT ![r] = here]
    BY <1>1 DEF Ends, TypeOK
<1>3. here \in [tree : Tree \union {None},
                jobs : [Jobs -> {"waiting", "success", "failure"}],
                sent : SUBSET {"wheel"}]
    BY <1>1 DEF Results
<1>4. here.tree = runs[r].tree /\ here.jobs[job] = result
    BY <1>1
<1> QED
    BY <1>1, <1>2, <1>3, <1>4 DEF TypeOK

RunTypes == [tree : Tree \union {None},
             jobs : [Jobs -> {"waiting", "success", "failure"}],
             sent : SUBSET {"wheel"}]

\* What the rest of the state asks of a step that changes runs: no run is taken
\* back, no verified one forgotten.
Advances ==
    \A q \in RunIds :
        /\ runs[q].tree # None => runs'[q].tree = runs[q].tree
        /\ runs[q].jobs["verify"] = "success" =>
               runs[q].tree # None /\ runs'[q].jobs["verify"] = "success"

\* While runs advance and registries stay, what is live is still of a run.
LEMMA LiveKept ==
    ASSUME LiveIsOfARun, Advances, UNCHANGED <<npm, pypi>>
    PROVE  LiveIsOfARun'
BY DEF LiveIsOfARun, Advances

\* A verified run has a commit.
LEMMA VerifiedHasTree ==
    ASSUME RunsInOrder, NEW q \in RunIds,
           \/ runs[q].jobs["verify"] = "success"
           \/ runs[q].jobs["publish_npm"] # "waiting"
           \/ runs[q].jobs["publish_pypi"] # "waiting"
           \/ runs[q].sent # {}
    PROVE  runs[q].tree # None
BY DEF RunsInOrder

\* A job that ends while it may keeps the order of its run.
LEMMA EndsKeepsOrder ==
    ASSUME TypeOK, RunsInOrder, NEW r \in RunIds, NEW job \in Jobs, NEW result \in Results,
           Ends(r, job, result), Waiting(r, job),
           job = "verify" => (result = "success" => Verified(runs[r].tree)),
           job # "verify" => runs[r].jobs["verify"] = "success"
    PROVE  RunsInOrder' /\ Advances
<1>1. /\ \A q \in RunIds : runs'[q].tree = runs[q].tree
      /\ \A q \in RunIds \ {r} : runs'[q] = runs[q]
      /\ \A j \in Jobs \ {job} : runs'[r].jobs[j] = runs[r].jobs[j]
      /\ runs'[r].jobs[job] = result
      /\ runs'[r].sent = IF job = "publish_pypi" THEN {} ELSE runs[r].sent
    BY EndsIsLocal
<1>2. runs[r].tree # None /\ runs[r].jobs[job] = "waiting"
    BY DEF Waiting
<1>3. RunsInOrder'
    <2> SUFFICES ASSUME NEW q \in RunIds
                 PROVE  /\ runs'[q].tree = None => runs'[q].jobs["verify"] = "waiting"
                        /\ runs'[q].jobs["verify"] = "success" => Verified(runs'[q].tree)
                        /\ runs'[q].jobs["verify"] # "success" =>
                               /\ runs'[q].jobs["publish_npm"] = "waiting"
                               /\ runs'[q].jobs["publish_pypi"] = "waiting"
                               /\ runs'[q].sent = {}
        BY DEF RunsInOrder
    <2>1. CASE q # r
        BY <2>1, <1>1 DEF RunsInOrder
    <2>2. CASE q = r /\ job = "verify"
        BY <2>2, <1>1, <1>2 DEF RunsInOrder, Jobs
    <2>3. CASE q = r /\ job # "verify"
        BY <2>3, <1>1, <1>2 DEF RunsInOrder, Jobs
    <2> QED
        BY <2>1, <2>2, <2>3
<1>4. Advances
    <2> SUFFICES ASSUME NEW q \in RunIds
                 PROVE  /\ runs[q].tree # None => runs'[q].tree = runs[q].tree
                        /\ runs[q].jobs["verify"] = "success" =>
                               runs[q].tree # None /\ runs'[q].jobs["verify"] = "success"
        BY DEF Advances
    <2>1. CASE q # r
        BY <2>1, <1>1, VerifiedHasTree
    <2>2. CASE q = r
        BY <2>2, <1>1, <1>2 DEF Jobs
    <2> QED
        BY <2>1, <2>2
<1> QED
    BY <1>3, <1>4

\* A job that ends without having put anything in place keeps the invariant:
\* verify with either result, a publishing job with a failure.
LEMMA EndsKeeps ==
    ASSUME IInv, NEW r \in RunIds, NEW job \in Jobs, NEW result \in Results,
           Ends(r, job, result), Waiting(r, job),
           job = "verify" => (result = "success" => Verified(runs[r].tree)),
           job # "verify" => runs[r].jobs["verify"] = "success" /\ result = "failure",
           UNCHANGED <<head, npm, pypi>>
    PROVE  IInv'
<1> USE DEF IInv
<1>1. RunsInOrder' /\ Advances
    BY EndsKeepsOrder
<1>2. TypeOK'
    BY EndsIsLocal DEF TypeOK
<1>3. LiveIsOfARun'
    BY <1>1, LiveKept
<1>4. DoneIsLive'
    <2> SUFFICES ASSUME NEW q \in RunIds
                 PROVE  /\ runs'[q].jobs["publish_npm"] = "success" =>
                               npm[runs'[q].tree.says["package.json"]] = runs'[q].tree
                        /\ (runs'[q].jobs["publish_pypi"] = "success" \/ runs'[q].sent # {}) =>
                               pypi["wheel"][runs'[q].tree.says["pyproject.toml"]] # None
                        /\ runs'[q].jobs["publish_pypi"] = "success" =>
                               pypi["sdist"][runs'[q].tree.says["pyproject.toml"]] # None
        BY DEF DoneIsLive
    <2>1. runs'[q].tree = runs[q].tree
        BY EndsIsLocal
    <2>2. /\ runs'[q].jobs["publish_npm"] = "success" => runs[q].jobs["publish_npm"] = "success"
          /\ runs'[q].jobs["publish_pypi"] = "success" => runs[q].jobs["publish_pypi"] = "success"
          /\ runs'[q].sent # {} => runs[q].sent # {}
        BY EndsIsLocal DEF Jobs, Results
    <2> QED
        BY <2>1, <2>2 DEF DoneIsLive
<1> QED
    BY <1>1, <1>2, <1>3, <1>4

\* The branch moves on: nothing published knows of it.
LEMMA CommitKeeps == ASSUME IInv, Commit PROVE IInv'
<1>1. head' \in Tree
    BY ReleaseBounds DEF Commit, IInv, TypeOK, Tree, Versions
<1>2. UNCHANGED <<runs, npm, pypi>>
    BY DEF Commit
<1>3. TypeOK'
    BY <1>1, <1>2 DEF IInv, TypeOK
<1> QED
    BY <1>2, <1>3 DEF IInv, RunsInOrder, LiveIsOfARun, DoneIsLive

\* A run begins on the branch as it is.
LEMMA DispatchKeeps == ASSUME IInv, NEW r \in RunIds, Dispatch(r) PROVE IInv'
<1> DEFINE begun == RunOf(head)
<1>1. /\ runs[r].tree = None /\ runs[r].jobs["verify"] = "waiting"
      /\ runs' = [runs EXCEPT ![r] = begun]
      /\ UNCHANGED <<head, npm, pypi>>
    BY DEF Dispatch, NotStarted, RunOf, Jobs
<1>2. /\ begun \in RunTypes /\ begun.tree # None
      /\ \A j \in Jobs : begun.jobs[j] = "waiting"
      /\ begun.sent = {}
    BY NoneIsNoTree DEF RunTypes, RunOf, IInv, TypeOK
<1>3. TypeOK'
    BY <1>1, <1>2 DEF IInv, TypeOK, RunTypes
<1>4. Advances
    BY <1>1, VerifiedHasTree DEF Advances, IInv, TypeOK
<1>5. RunsInOrder'
    <2> HIDE DEF begun
    <2> QED
        BY <1>1, <1>2 DEF RunsInOrder, IInv, TypeOK, Jobs
<1>6. LiveIsOfARun'
    BY <1>1, <1>4, LiveKept DEF IInv
<1>7. DoneIsLive'
    <2> HIDE DEF begun
    <2> QED
        BY <1>1, <1>2 DEF DoneIsLive, IInv, TypeOK, Jobs
<1> QED
    BY <1>3, <1>5, <1>6, <1>7 DEF IInv

\* Failed jobs wait again.
LEMMA RerunKeeps == ASSUME IInv, NEW r \in RunIds, Rerun(r) PROVE IInv'
<1> DEFINE again == [tree |-> runs[r].tree,
                     jobs |-> [j \in Jobs |-> IF runs[r].jobs[j] = "failure" THEN "waiting"
                                             ELSE runs[r].jobs[j]],
                     sent |-> runs[r].sent]
<1>1. runs' = [runs EXCEPT ![r] = again] /\ UNCHANGED <<head, npm, pypi>>
    BY DEF Rerun
<1>2. again \in RunTypes
    BY DEF RunTypes, IInv, TypeOK
<1>3. TypeOK'
    BY <1>1, <1>2 DEF IInv, TypeOK, RunTypes
<1>4. /\ again.tree = runs[r].tree /\ again.sent = runs[r].sent
      /\ \A j \in Jobs : /\ again.jobs[j] = "success" <=> runs[r].jobs[j] = "success"
                         /\ runs[r].jobs[j] = "waiting" => again.jobs[j] = "waiting"
    OBVIOUS
<1>5. Advances
    BY <1>1, <1>4, VerifiedHasTree DEF Advances, IInv, TypeOK, Jobs
<1>6. RunsInOrder'
    <2> HIDE DEF again
    <2> QED
        BY <1>1, <1>4 DEF RunsInOrder, IInv, TypeOK, Jobs
<1>7. LiveIsOfARun'
    BY <1>1, <1>5, LiveKept DEF IInv
<1>8. DoneIsLive'
    <2> HIDE DEF again
    <2> QED
        BY <1>1, <1>4 DEF DoneIsLive, IInv, TypeOK, Jobs
<1> QED
    BY <1>3, <1>6, <1>7, <1>8 DEF IInv

\* npm takes a version that is not there.
LEMMA PublishNpmKeeps ==
    ASSUME IInv, NEW r \in RunIds, NEW result \in Results, PublishNpm(r, result)
    PROVE  IInv'
<1> DEFINE tree == runs[r].tree
           version == tree.says["package.json"]
<1> USE DEF IInv
<1>1. /\ Waiting(r, "publish_npm") /\ runs[r].jobs["verify"] = "success"
      /\ npm[version] = None
      /\ npm' = [npm EXCEPT ![version] = tree]
      /\ Ends(r, "publish_npm", result)
      /\ UNCHANGED <<head, pypi>>
    BY DEF PublishNpm, Cleared, Free
<1>2. tree \in Tree /\ version \in Versions
    BY <1>1 DEF Waiting, TypeOK, Tree, Places
<1> HIDE DEF tree, version
<1>3. RunsInOrder' /\ Advances
    BY <1>1, EndsKeepsOrder DEF Jobs
<1>4. /\ npm' \in [Versions -> Tree \union {None}]
      /\ npm'[version] = tree
      /\ \A v \in Versions : npm[v] # None => npm'[v] = npm[v]
      /\ \A v \in Versions \ {version} : npm'[v] = npm[v]
    BY <1>1, <1>2 DEF TypeOK
<1>5. TypeOK'
    BY <1>1, <1>4, EndsIsLocal DEF TypeOK, Jobs
<1>6. LiveIsOfARun'
    <2>1. /\ tree.says["package.json"] = version
          /\ runs'[r].tree = tree /\ runs'[r].jobs["verify"] = "success"
        BY <1>1, <1>2, <1>3, NoneIsNoTree DEF Advances, tree, version
    <2> QED
        BY <2>1, <1>1, <1>3, <1>4 DEF LiveIsOfARun, Advances
<1>7. DoneIsLive'
    <2>1. ASSUME NEW q \in RunIds
          PROVE  /\ runs'[q].tree = runs[q].tree
                 /\ runs'[q].jobs["publish_pypi"] = runs[q].jobs["publish_pypi"]
                 /\ runs'[q].sent = runs[q].sent
                 /\ q # r => runs'[q].jobs["publish_npm"] = runs[q].jobs["publish_npm"]
        BY <1>1, EndsIsLocal DEF Jobs
    <2>2. ASSUME NEW q \in RunIds, runs'[q].jobs["publish_npm"] = "success"
          PROVE  npm'[runs'[q].tree.says["package.json"]] = runs'[q].tree
        <3>1. CASE q = r
            BY <3>1, <2>1, <1>4 DEF tree, version
        <3>2. CASE q # r
            <4>1. runs[q].jobs["publish_npm"] = "success"
                BY <3>2, <2>1, <2>2
            <4>2. runs[q].tree # None
                BY <4>1, VerifiedHasTree
            <4>3. runs[q].tree.says["package.json"] \in Versions
                BY <4>2 DEF TypeOK, Tree, Places
            <4> QED
                BY <4>1, <4>2, <4>3, <2>1, <1>4 DEF DoneIsLive
        <3> QED
            BY <3>1, <3>2
    <2> QED
        BY <2>1, <2>2, <1>1 DEF DoneIsLive
<1> QED
    BY <1>3, <1>5, <1>6, <1>7

\* After a file the job ends, or goes on to the other file.
LEMMA SendsIsLocal ==
    ASSUME IInv, NEW r \in RunIds, NEW d \in Distributions, NEW result \in Results,
           Waiting(r, "publish_pypi"), runs[r].jobs["verify"] = "success",
           Sends(r, d, result)
    PROVE  /\ runs' \in [RunIds -> RunTypes]
           /\ \A q \in RunIds : runs'[q].tree = runs[q].tree
           /\ \A q \in RunIds \ {r} : runs'[q] = runs[q]
           /\ runs'[r].jobs["publish_npm"] = runs[r].jobs["publish_npm"]
           /\ runs'[r].jobs["publish_pypi"] = "success" => d = "sdist"
           /\ runs'[r].sent # {} => d = "wheel"
           /\ RunsInOrder' /\ Advances
<1> USE DEF IInv
<1>1. CASE d = "wheel" /\ result = "success"
    <2> DEFINE here == [tree |-> runs[r].tree, jobs |-> runs[r].jobs, sent |-> {"wheel"}]
    <2>1. runs' = [runs EXCEPT ![r] = here]
        BY <1>1 DEF Sends
    <2>2. here \in RunTypes
        BY DEF TypeOK, RunTypes
    <2>3. runs' \in [RunIds -> RunTypes]
        BY <2>1, <2>2 DEF TypeOK, RunTypes
    <2>4. runs[r].jobs["publish_pypi"] = "waiting"
        BY DEF Waiting
    <2>5. RunsInOrder'
        BY <2>1 DEF RunsInOrder, TypeOK
    <2>6. Advances
        BY <2>1, VerifiedHasTree DEF Advances, TypeOK
    <2> QED
        BY <1>1, <2>1, <2>3, <2>4, <2>5, <2>6 DEF TypeOK
<1>2. CASE ~(d = "wheel" /\ result = "success")
    <2>1. Ends(r, "publish_pypi", result)
        BY <1>2 DEF Sends
    <2>2. RunsInOrder' /\ Advances
        BY <2>1, EndsKeepsOrder DEF Jobs
    <2> QED
        BY <1>2, <2>1, <2>2, EndsIsLocal DEF Jobs, Results, Distributions, RunTypes
<1> QED
    BY <1>1, <1>2

\* PyPI takes a file that is not there, and is passed over when it is.
LEMMA UploadKeeps ==
    ASSUME IInv, NEW r \in RunIds, NEW d \in Distributions, NEW result \in Results,
           Upload(r, d, result)
    PROVE  IInv'
<1> DEFINE tree == runs[r].tree
           version == tree.says["pyproject.toml"]
<1> USE DEF IInv
<1>1. /\ Waiting(r, "publish_pypi") /\ runs[r].jobs["verify"] = "success"
      /\ runs[r].sent = IF d = "wheel" THEN {} ELSE {"wheel"}
      /\ pypi' = IF pypi[d][version] = None THEN [pypi EXCEPT ![d][version] = tree] ELSE pypi
      /\ Sends(r, d, result)
      /\ UNCHANGED <<head, npm>>
    BY DEF Upload, IsNext, Cleared, Free
<1>2. tree \in Tree /\ version \in Versions /\ tree # None
    BY <1>1, NoneIsNoTree DEF Waiting, TypeOK, Tree, Places
<1>3. /\ runs' \in [RunIds -> RunTypes]
      /\ \A q \in RunIds : runs'[q].tree = runs[q].tree
      /\ \A q \in RunIds \ {r} : runs'[q] = runs[q]
      /\ runs'[r].jobs["publish_npm"] = runs[r].jobs["publish_npm"]
      /\ runs'[r].jobs["publish_pypi"] = "success" => d = "sdist"
      /\ runs'[r].sent # {} => d = "wheel"
      /\ RunsInOrder' /\ Advances
    BY <1>1, SendsIsLocal
<1> HIDE DEF version
<1>4. /\ pypi' \in [Distributions -> [Versions -> Tree \union {None}]]
      /\ pypi'[d][version] # None
      /\ \A e \in Distributions, v \in Versions :
             /\ pypi[e][v] # None => pypi'[e][v] # None
             /\ pypi'[e][v] = pypi[e][v] \/ (v = version /\ pypi'[e][v] = tree)
    BY <1>1, <1>2 DEF TypeOK
<1>5. TypeOK'
    BY <1>1, <1>3, <1>4 DEF TypeOK, RunTypes
<1>6. LiveIsOfARun'
    <2>1. /\ tree.says["pyproject.toml"] = version
          /\ runs'[r].tree = tree /\ runs'[r].jobs["verify"] = "success"
        BY <1>1, <1>2, <1>3 DEF Advances, version
    <2> HIDE DEF tree
    <2> QED
        BY <2>1, <1>1, <1>3, <1>4 DEF LiveIsOfARun, Advances
<1>7. DoneIsLive'
    <2>1. ASSUME NEW q \in RunIds,
                 runs'[q].jobs["publish_pypi"] = "success" \/ runs'[q].sent # {}
          PROVE  pypi'["wheel"][runs'[q].tree.says["pyproject.toml"]] # None
        <3>1. CASE q # r
            <4>1. runs[q].jobs["publish_pypi"] = "success" \/ runs[q].sent # {}
                BY <3>1, <2>1, <1>3
            <4>2. runs[q].tree # None
                BY <4>1, VerifiedHasTree
            <4>3. runs[q].tree.says["pyproject.toml"] \in Versions
                BY <4>2 DEF TypeOK, Tree, Places
            <4> QED
                BY <4>1, <4>3, <1>3, <1>4 DEF DoneIsLive, Distributions
        <3>2. CASE q = r /\ d = "wheel"
            BY <3>2, <1>3, <1>4 DEF version
        <3>3. CASE q = r /\ d = "sdist"
            <4>1. pypi["wheel"][version] # None
                BY <3>3, <1>1 DEF DoneIsLive, version
            <4> QED
                BY <3>3, <4>1, <1>2, <1>3, <1>4 DEF Distributions, version
        <3> QED
            BY <3>1, <3>2, <3>3 DEF Distributions
    <2>2. ASSUME NEW q \in RunIds, runs'[q].jobs["publish_pypi"] = "success"
          PROVE  pypi'["sdist"][runs'[q].tree.says["pyproject.toml"]] # None
        <3>1. CASE q # r
            <4>1. runs[q].jobs["publish_pypi"] = "success"
                BY <3>1, <2>2, <1>3
            <4>2. runs[q].tree # None
                BY <4>1, VerifiedHasTree
            <4>3. runs[q].tree.says["pyproject.toml"] \in Versions
                BY <4>2 DEF TypeOK, Tree, Places
            <4> QED
                BY <4>1, <4>3, <1>3, <1>4 DEF DoneIsLive, Distributions
        <3>2. CASE q = r
            BY <3>2, <2>2, <1>3, <1>4 DEF version
        <3> QED
            BY <3>1, <3>2
    <2>3. ASSUME NEW q \in RunIds, runs'[q].jobs["publish_npm"] = "success"
          PROVE  npm'[runs'[q].tree.says["package.json"]] = runs'[q].tree
        BY <2>3, <1>1, <1>3 DEF DoneIsLive
    <2> QED
        BY <2>1, <2>2, <2>3 DEF DoneIsLive
<1> QED
    BY <1>3, <1>5, <1>6, <1>7

\* The inductive step, one action at a time.
LEMMA StepKeeps == ASSUME IInv, [Next]_vars PROVE IInv'
<1>1. CASE Commit
    BY <1>1, CommitKeeps
<1>2. ASSUME NEW r \in RunIds, Dispatch(r) PROVE IInv'
    BY <1>2, DispatchKeeps
<1>3. ASSUME NEW r \in RunIds, VerifyPasses(r) PROVE IInv'
    BY <1>3, EndsKeeps DEF VerifyPasses, Jobs, Results
<1>4. ASSUME NEW r \in RunIds, JobFails(r) PROVE IInv'
    <2>1. PICK job \in Jobs :
              /\ IF job = "verify" THEN Waiting(r, job) ELSE Cleared(r, job)
              /\ Ends(r, job, "failure")
              /\ UNCHANGED <<head, npm, pypi>>
        BY <1>4 DEF JobFails
    <2> QED
        BY <2>1, EndsKeeps DEF Cleared, Results
<1>5. ASSUME NEW r \in RunIds, NpmConflict(r) PROVE IInv'
    BY <1>5, EndsKeeps DEF NpmConflict, Cleared, Jobs, Results
<1>6. ASSUME NEW r \in RunIds, Rerun(r) PROVE IInv'
    BY <1>6, RerunKeeps
<1>7. ASSUME NEW r \in RunIds, NEW result \in Results, PublishNpm(r, result) PROVE IInv'
    BY <1>7, PublishNpmKeeps
<1>8. ASSUME NEW r \in RunIds, NEW result \in Results, NEW d \in Distributions,
             Upload(r, d, result)
      PROVE  IInv'
    BY <1>8, UploadKeeps
<1>9. CASE UNCHANGED vars
    BY <1>9 DEF vars, IInv, TypeOK, RunsInOrder, LiveIsOfARun, DoneIsLive
<1> QED
    BY <1>1, <1>2, <1>3, <1>4, <1>5, <1>6, <1>7, <1>8, <1>9 DEF Next, Results

\* The inductive invariant of the workflow.
THEOREM ReleaseInvariant == Spec => []IInv
<1>1. Init => IInv
    BY InitIInv
<1>2. IInv /\ [Next]_vars => IInv'
    BY StepKeeps
<1> QED
    BY <1>1, <1>2, PTL DEF Spec

\* What the suites' comparisons of a checkout say of the four places they reach.
LEMMA VerifiedAgrees ==
    ASSUME NEW tree \in Tree, Verified(tree)
    PROVE  \A p \in Places \ {"pyproject.toml"} : tree.says[p] = tree.says["package.json"]
<1>1. python_dump(Checkout(tree)).contract_version = jsPayload(Checkout(tree)).contract_version
    BY DEF Verified
<1>2. tree.says["__init__.py"] = tree.says["index.js"]
    BY <1>1 DEF python_dump, jsPayload, Checkout
<1> QED
    BY <1>2 DEF Verified, Places

\* Whatever the commit, the wheel read by Python gives what the npm package read by
\* JavaScript gives, if the two name one version: both hold the two directories.
LEMMA ReadersAgree ==
    ASSUME NEW tree \in Tree, tree.says["__init__.py"] = tree.says["index.js"]
    PROVE  python_dump(Wheel(tree)) = jsPayload(NpmPackage(tree))
<1> DEFINE held == {f \in Files(tree) : f.dir \in {"core", "conformance"}}
           vectors == {f \in held : f.dir = "conformance"}
<1>1. /\ Wheel(tree).root = {} /\ Wheel(tree).data = held
      /\ NpmPackage(tree).root = held
      /\ Wheel(tree).tree = tree /\ NpmPackage(tree).tree = tree
    BY DEF Wheel, NpmPackage
<1> HIDE DEF held
<1>2. \A f : read_text(Wheel(tree), f) = readJson(NpmPackage(tree), f)
    BY <1>1 DEF read_text, readJson, Text
<1>3. list_vectors(Wheel(tree)) = vectors /\ listVectors(NpmPackage(tree)) = vectors
    BY <1>1 DEF list_vectors, listVectors
<1>4. \A f \in vectors : load_vector(Wheel(tree), f) = readJson(NpmPackage(tree), f)
    BY <1>2, <1>3 DEF load_vector
<1>5. {load_vector(Wheel(tree), f) : f \in list_vectors(Wheel(tree))}
      = {readJson(NpmPackage(tree), f) : f \in listVectors(NpmPackage(tree))}
    BY <1>3, <1>4
<1> QED
    BY <1>1, <1>2, <1>5 DEF python_dump, jsPayload

\* What is live was verified, under the version it names: from the inductive
\* invariant alone.
LEMMA InvGivesVerified == ASSUME IInv PROVE LiveWasVerified
<1> USE DEF IInv
<1>1. ASSUME NEW v \in Versions, npm[v] # None
      PROVE  /\ \E r \in RunIds : runs[r].tree = npm[v]
             /\ \A p \in Places \ {"pyproject.toml"} : npm[v].says[p] = v
    <2>1. PICK r \in RunIds : runs[r].tree = npm[v] /\ runs[r].jobs["verify"] = "success"
        BY <1>1 DEF LiveIsOfARun
    <2>2. Verified(npm[v]) /\ npm[v] \in Tree
        BY <2>1, <1>1 DEF RunsInOrder, TypeOK
    <2>3. npm[v].says["package.json"] = v
        BY <1>1 DEF LiveIsOfARun
    <2> QED
        BY <2>1, <2>2, <2>3, VerifiedAgrees
<1>2. ASSUME NEW d \in Distributions, NEW v \in Versions, pypi[d][v] # None
      PROVE  (\E r \in RunIds : runs[r].tree = pypi[d][v]) /\ Verified(pypi[d][v])
    BY <1>2 DEF LiveIsOfARun, RunsInOrder
<1> QED
    BY <1>1, <1>2 DEF LiveWasVerified

\* Whatever is live as a version is of a commit dispatched for that version.
LEMMA LiveIsNamed ==
    ASSUME IInv, NEW v \in Versions
    PROVE  {npm[v], pypi["sdist"][v], pypi["wheel"][v]} \ {None} \subseteq NamedBy(v)
<1>1. ASSUME NEW live, live # None,
             \/ live = npm[v]
             \/ \E d \in Distributions : live = pypi[d][v]
      PROVE  live \in NamedBy(v)
    <2>1. \/ live.says["package.json"] = v
          \/ live.says["pyproject.toml"] = v
        BY <1>1 DEF IInv, LiveIsOfARun
    <2>2. PICK r \in RunIds : runs[r].tree = live
        BY <1>1 DEF IInv, LiveIsOfARun
    <2> QED
        BY <2>1, <2>2, <1>1 DEF NamedBy
<1> QED
    BY <1>1 DEF Distributions

\* One commit, one content, in every file and to both readers.
LEMMA InvGivesOneContent == ASSUME IInv PROVE OneCommitOneContent
<1> SUFFICES ASSUME NEW v \in Versions, \A s, t \in NamedBy(v) : s = t
             PROVE  /\ {npm[v], pypi["sdist"][v], pypi["wheel"][v]} \ {None} \subseteq NamedBy(v)
                    /\ npm[v] # None /\ pypi["wheel"][v] # None =>
                           python_dump(Wheel(pypi["wheel"][v])) = jsPayload(NpmPackage(npm[v]))
    BY DEF OneCommitOneContent
<1>1. {npm[v], pypi["sdist"][v], pypi["wheel"][v]} \ {None} \subseteq NamedBy(v)
    BY LiveIsNamed
<1>2. ASSUME npm[v] # None, pypi["wheel"][v] # None
      PROVE  python_dump(Wheel(pypi["wheel"][v])) = jsPayload(NpmPackage(npm[v]))
    <2>1. pypi["wheel"][v] = npm[v]
        BY <1>1, <1>2
    <2>2. npm[v] \in Tree /\ npm[v].says["__init__.py"] = npm[v].says["index.js"]
        BY <1>2, InvGivesVerified DEF LiveWasVerified, IInv, TypeOK, Places
    <2> QED
        BY <2>1, <2>2, ReadersAgree
<1> QED
    BY <1>1, <1>2

\* A green run has published what it says.
LEMMA InvGivesGreen == ASSUME IInv PROVE GreenRunIsLive
<1> SUFFICES ASSUME NEW r \in RunIds, \A job \in Jobs : runs[r].jobs[job] = "success"
             PROVE  /\ npm[runs[r].tree.says["package.json"]] = runs[r].tree
                    /\ \A d \in Distributions :
                           /\ pypi[d][runs[r].tree.says["pyproject.toml"]] # None
                           /\ NamedBy(runs[r].tree.says["pyproject.toml"]) = {runs[r].tree} =>
                                  pypi[d][runs[r].tree.says["pyproject.toml"]] = runs[r].tree
    BY DEF GreenRunIsLive
<1> DEFINE version == runs[r].tree.says["pyproject.toml"]
<1>1. npm[runs[r].tree.says["package.json"]] = runs[r].tree
    BY DEF IInv, DoneIsLive, Jobs
<1>2. \A d \in Distributions : pypi[d][version] # None
    BY DEF IInv, DoneIsLive, Jobs, Distributions
<1>3. version \in Versions
    <2>1. runs[r].tree # None
        BY VerifiedHasTree DEF IInv, Jobs
    <2> QED
        BY <2>1 DEF IInv, TypeOK, Tree, Places
<1> HIDE DEF version
<1>4. ASSUME NEW d \in Distributions, NamedBy(version) = {runs[r].tree}
      PROVE  pypi[d][version] = runs[r].tree
    BY <1>2, <1>3, <1>4, LiveIsNamed DEF Distributions
<1> QED
    BY <1>1, <1>2, <1>4 DEF version

\* Whatever is live was dispatched and passed the suites, and npm serves a version
\* that says so in both languages, for any number of runs, commits and versions.
THEOREM LiveIsVerified == Spec => []LiveWasVerified
BY ReleaseInvariant, InvGivesVerified, PTL

\* One commit is one content on both registries and to both readers.
THEOREM OneContent == Spec => []OneCommitOneContent
BY ReleaseInvariant, InvGivesOneContent, PTL

\* A run that ends green is live, as far as its version is its own.
THEOREM GreenIsLive == Spec => []GreenRunIsLive
BY ReleaseInvariant, InvGivesGreen, PTL
==============================================================================
