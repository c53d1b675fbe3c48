--------------------------- MODULE AdmissionCheck ---------------------------
(***************************************************************************)
(* The admission check of a v2 launch envelope (r2_evaluate): its stages,  *)
(* in the order the code runs them, over an envelope, the validator's own  *)
(* context and the launch material.  What a stage compares is kept, how it *)
(* is spelt and hashed is not: a launch part (the instructions, the argv,  *)
(* ...) is a version, bound[p] in the envelope and used[p] in the          *)
(* material, the workspace is a captured listing (SourceTree), and         *)
(* everything else that makes a launch unbindable is a flaw.               *)
(***************************************************************************)
EXTENDS SourceTree

Parts == {"instructions", "reference", "argv", "executable", "workspace",
          "environment", "policy", "timeout"}

Flaws == {"terminal", "unrepresentable", "unresolved", "secret_in_commitment",
          "ambient", "outside_root", "late_probe"}

AllConstraints == {"write_scope", "write_prevention", "command_denial", "network_denial"}
GrantKinds == {"filesystem_view", "descriptor_capabilities", "dependency_projection",
               "supervisor_identity", "egress_policy"}

\* x-enforcement-tiers.
Tiers ==
    [provider_readonly_patch_return_audit |->
        [status |-> "defined", grant_kinds |-> GrantKinds,
         workspace_kinds |-> {"separate_clone", "separate_copy"},
         not_enforced |-> AllConstraints \ {"write_scope"}],
     post_write_audit_only |->
        [status |-> "defined", grant_kinds |-> GrantKinds,
         workspace_kinds |-> {"separate_clone", "separate_copy",
                              "git_worktree_of_protected", "in_place"},
         not_enforced |-> AllConstraints],
     os_enforced |->
        [status |-> "reserved", grant_kinds |-> {}, workspace_kinds |-> {},
         not_enforced |-> AllConstraints]]

\* The diagnostic, if its condition holds.
Code(code, holds) == IF holds THEN {code} ELSE {}

digest(env) == Code("envelope_digest_mismatch", ~env.digest_ok)

authority(env, ctx) ==
    IF env.assignment # ctx.assignment \/ env.crosswalk # ctx.crosswalk
    THEN {"authority_foreign"}
    ELSE Code("authority_baseline_stale", env.snapshot # ctx.snapshot)

shape(env) ==
    UNION {Code("locator_not_repo_relative", ~env.locators_ok),
           Code("raw_output_in_record", ~env.strings_ok),
           Code("dependency_digest_required", env.dependencies = "unadmitted"),
           Code("workspace_source_inconsistent",
                /\ env.kind \in {"separate_clone", "git_worktree_of_protected"}
                /\ ~env.base_commit),
           Code("executable_chain_invalid",
                \/ Last(env.roles) # "executable"
                \/ \E i \in DOMAIN env.roles : i < Len(env.roles) /\ env.roles[i] # "wrapper"
                \/ ~env.declared_ok),
           Code("baseline_reference_required", env.baselines # 1),
           Code("target_map_outside_scope", ~env.targets_in_scope)}

tier_stage(env) == Code("tier_unqualified", Tiers[env.tier].status = "reserved")

\* The executables and the policy (template and qualification) are bound by
\* digest, and so are part of the key.
r2_route_key(env) ==
    [tier |-> env.tier, action |-> env.action,
     executable |-> env.bound["executable"], policy |-> env.bound["policy"]]

\* The records are a list: one held twice matches twice.
Matching(env, ctx) == {i \in DOMAIN ctx.records : ctx.records[i].key = r2_route_key(env)}

\* Slip: any matching record will do.
RouteBySomeRecord(env, ctx) ==
    Code("route_not_qualified", ~env.qualified \/ Matching(env, ctx) = {})

route(env, ctx) ==
    Code("route_not_qualified", ~env.qualified \/ Cardinality(Matching(env, ctx)) # 1)

\* What the single matching record vouches for; nothing when there is none.
Vouched(env, ctx) ==
    IF route(env, ctx) = {}
    THEN ctx.records[CHOOSE i \in Matching(env, ctx) : TRUE]
    ELSE [grants |-> {}, credentials |-> {}]

Granted(env) == {grant.kind : grant \in env.grants}

GrantUnqualified(env, ctx, mat) ==
    LET record == Vouched(env, ctx)
    IN  \/ \E grant \in env.grants :
               \/ grant.kind \notin Tiers[env.tier].grant_kinds
               \/ grant \notin record.grants
        \/ "dependency_projection" \in Granted(env) /\ env.dependencies = "none"
        \/ env.descriptor_source /\ "descriptor_capabilities" \notin Granted(env)
        \/ env.view_cwd /\ "filesystem_view" \notin Granted(env)
        \/ ~(mat.secrets \subseteq record.credentials)

capability(env, ctx, mat) ==
    UNION {Code("constraint_unsupported",
                env.required \intersect Tiers[env.tier].not_enforced # {}),
           Code("workspace_not_separate_copy",
                env.kind \notin Tiers[env.tier].workspace_kinds),
           Code("grant_unqualified", GrantUnqualified(env, ctx, mat)),
           Code("stop_policy_unbounded", env.action = "execution" /\ ~env.armed),
           Code("timeout_over_declared_max", env.bound["timeout"] > ctx.timeout_max)}

\* The parts that are taken from the workspace, and are not the tree's file there.
Unjoined(env, tree) ==
    {p \in DOMAIN env.sources : ~tree_joins(tree, env.sources[p], env.bound[p])}

\* Each part about to be used against the part bound; the tree by its manifest.
material(env, mat) ==
    LET tree == r2_capture_manifest(mat.capture)
        other == {p \in Parts : mat.used[p] # env.bound[p]}
        moved == IF tree.bound /\ tree # env.tree THEN {"workspace"} ELSE {}
    IN  {"launch_" \o p \o "_mismatch" : p \in other \union moved \union Unjoined(env, tree)}
            \union Code("launch_input_unbound", mat.flaws # {} \/ ~tree.bound)

\* What each stage would report.
Stages(env, ctx, mat) ==
    <<digest(env), authority(env, ctx), shape(env), tier_stage(env),
      route(env, ctx), capability(env, ctx, mat), material(env, mat)>>

\* The codes of the first stage that reports any.
r2_evaluate(env, ctx, mat) ==
    LET stages == Stages(env, ctx, mat)
        first == SelectInSeq(stages, LAMBDA codes : codes # {})
    IN  IF ~env.schema_ok THEN {"envelope_schema_invalid"}
        ELSE IF first = 0 THEN {}
        ELSE stages[first]
=============================================================================
