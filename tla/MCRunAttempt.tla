---------------------------- MODULE MCRunAttempt ----------------------------
(***************************************************************************)
(* Envelopes that depart from an admissible one in at most two fields, and *)
(* a few materials and contexts.                                           *)
(***************************************************************************)
EXTENDS RunAttempt

Bound == [p \in Parts |-> IF p = "timeout" THEN 1 ELSE 0]
Grant(kind) == [kind |-> kind, digest |-> 0]

Object(path, type, mode, content) ==
    [path |-> path, type |-> type, mode |-> mode, content |-> content]
File(path, content) == Object(path, "file", "plain", content)
Link(path, content) == Object(path, "symlink", NoMode, content)
Instr == <<"plans", "deep", "instr">>

\* The workspace the envelope was written for, and with a .git, a mode bit that
\* does not count or a directory more.
Tree == <<File(Instr, 0), Object(<<"run">>, "file", "executable", 1)>>
SameTree == <<Object(<<"plans">>, "dir", NoMode, 0), File(Instr, 0),
              Object(<<"run">>, "file", "executable", 1)>>
GitTree == <<Object(<<".git">>, "file", NoMode, 0), File(Instr, 0),
             Object(<<".git", "HEAD">>, "socket", NoMode, 0), Tree[2]>>
LinkTree == <<Link(Instr, 0), Tree[2]>>
EditedTree == <<File(Instr, 1), Tree[2]>>
UnsetTree == <<File(Instr, 0), File(<<"run">>, 1)>>

\* Below plans lies a file, which plans no longer is.
MovedTree == <<File(<<"run">>, 1), File(<<"plans">>, 1)>>

NoTrees ==
    {<<File(Instr, 0), File(<<"plans">>, 1)>>,
     <<Link(<<"plans", "deep">>, 1), File(Instr, 0)>>,
     <<File(Instr, 0), Object(<<"plans">>, "dir", NoMode, 0), File(Instr, 0)>>,
     <<File(Instr, 0), Object(<<"pipe">>, "fifo", "plain", 0)>>,
     <<File(Instr, 0), Object(<<"run">>, "file", NoMode, 1)>>,
     <<File(Instr, 0), File(<<"..", "run">>, 1)>>}

MCListings == {Tree, LinkTree, MovedTree}
AllListings ==
    {Tree, SameTree, GitTree, LinkTree, EditedTree, UnsetTree, MovedTree} \union NoTrees

Base ==
    [schema_ok |-> TRUE, digest_ok |-> TRUE, assignment |-> "ours", crosswalk |-> "ours",
     snapshot |-> 0, locators_ok |-> TRUE, declared_ok |-> TRUE, strings_ok |-> TRUE,
     dependencies |-> "none",
     kind |-> "separate_clone", base_commit |-> TRUE,
     roles |-> <<"wrapper", "executable">>, baselines |-> 1, targets_in_scope |-> TRUE,
     tier |-> "provider_readonly_patch_return_audit", action |-> "execution",
     qualified |-> TRUE, grants |-> {}, descriptor_source |-> FALSE, view_cwd |-> FALSE,
     required |-> {"write_scope"}, armed |-> TRUE, bound |-> Bound,
     tree |-> TreeManifest(Tree), sources |-> [p \in {"instructions"} |-> Instr]]

Departures ==
    [at : {"schema_ok", "digest_ok", "locators_ok", "declared_ok", "strings_ok",
           "base_commit", "targets_in_scope", "qualified", "armed"}, to : {FALSE}]
    \union [at : {"descriptor_source", "view_cwd"}, to : {TRUE}]
    \union [at : {"assignment", "crosswalk"}, to : {"theirs"}]
    \union [at : {"snapshot"}, to : {1}]
    \union [at : {"baselines"}, to : {0, 2}]
    \union [at : {"dependencies"}, to : {"unadmitted", "admitted"}]
    \union [at : {"kind"}, to : {"git_worktree_of_protected", "in_place"}]
    \union [at : {"roles"}, to : {<<"wrapper">>, <<"executable", "executable">>}]
    \union [at : {"tier"}, to : {"post_write_audit_only", "os_enforced"}]
    \union [at : {"action"}, to : {"review"}]
    \union [at : {"required"}, to : {{"network_denial"}}]
    \union [at : {"grants"},
            to : {{Grant("egress_policy")}, {Grant("egress_policy"), Grant("filesystem_view")},
                  {Grant("dependency_projection")}}]
    \union [at : {"tree"}, to : {TreeManifest(LinkTree), TreeManifest(EditedTree)}]
    \union [at : {"bound"}, to : {[Bound EXCEPT !["timeout"] = 2], [Bound EXCEPT !["executable"] = 1]}]

Apart(e, d) == [e EXCEPT ![d.at] = d.to]

MCEnvelopes == {Base} \union {Apart(Apart(Base, d), f) : d \in Departures, f \in Departures}

MCMaterials ==
    [used : {Bound} \union {[Bound EXCEPT ![p] = @ + 1] : p \in Parts}, flaws : {{}},
     secrets : {{}}, capture : {Tree}]
    \union [used : {Bound}, flaws : {{f} : f \in Flaws}, secrets : {{}}, capture : {Tree}]
    \union [used : {Bound}, flaws : {{}}, secrets : {{"vault"}}, capture : {Tree}]
    \union [used : {Bound}, flaws : {{}}, secrets : {{}}, capture : AllListings]

Record(action, grants) ==
    [key |-> [tier |-> Base.tier, action |-> action, executable |-> 0, policy |-> 0],
     grants |-> grants, credentials |-> {"vault"}]

Context(snapshot, records) ==
    [assignment |-> "ours", crosswalk |-> "ours", snapshot |-> snapshot,
     records |-> records, timeout_max |-> 1]

MCContexts ==
    {Context(0, <<Record("execution", {Grant("egress_policy")}), Record("review", {})>>),
     Context(0, <<Record("execution", {Grant("egress_policy")}),
                  Record("execution", {Grant("filesystem_view")})>>),
     Context(0, <<>>),
     Context(1, <<Record("execution", {})>>)}
=============================================================================
