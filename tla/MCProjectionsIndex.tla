------------------------- MODULE MCProjectionsIndex -------------------------
(***************************************************************************)
(* Vectors for ProjectionsIndex: the committed one, and ones like it that  *)
(* a later commit could bring.                                             *)
(***************************************************************************)
EXTENDS ProjectionsIndex

Path(dir, name) == [dir |-> dir, name |-> name]

Code(target, kind, path) ==
    [target |-> target, kind |-> kind, predicate |-> 1, manifest_path |-> path,
     body_digest |-> path.name, code_head_sha |-> "head"]

Certified(target, predicate, path) ==
    [target |-> target, kind |-> "proj-S-certified", predicate |-> predicate,
     manifest_path |-> path, body_digest |-> path.name,
     source_S_digest |-> "graph", display_route |-> "route", code_head_sha |-> "stray"]

Stale(path) ==
    [manifest_path |-> path, refresh_status |-> "stale", attempted_code_head_sha |-> "newer"]
Refreshed(path) == [manifest_path |-> path, refresh_status |-> "fresh"]

Sound(manifests, sidecars) ==
    [manifests |-> manifests, sidecars |-> sidecars,
     expected |-> build_projections_index(manifests, sidecars)]

sbom == Code(3, "proj-code-sbom", Path("portal", "sbom"))
api == Code(1, "proj-code-api", Path("gp", "api"))
c4 == Certified(2, 1, Path("graphbase", "c4"))
pilot == Certified(2, 2, Path("graphbase", "pilot"))

\* projections-index-pure-merge-deterministic.
Committed == Sound(<<sbom, api, c4, pilot>>, <<Stale(sbom.manifest_path)>>)

\* Two sidecars for one manifest, one for none; the certified pair out of order.
Sidecars ==
    Sound(<<pilot, c4, sbom>>,
          <<Stale(sbom.manifest_path), Stale(Path("nowhere", "c4")), Refreshed(sbom.manifest_path)>>)

\* Files of one name under two targets, one of them with a sidecar.
SameName ==
    Sound(<<sbom, Code(1, "proj-code-sbom", Path("gp", "sbom"))>>, <<Stale(sbom.manifest_path)>>)

\* Two manifests of one target whose files differ in the directory only.
SamePlace ==
    Sound(<<sbom, Code(3, "proj-code-api", Path("other", "sbom"))>>, <<Stale(sbom.manifest_path)>>)

\* Two manifests of one key.
SameKey ==
    Sound(<<Code(1, "proj-code-api", Path("gp", "late")), api>>, <<>>)

\* A manifest was added and the expected index was not.
Outdated == [Committed EXCEPT !.expected = SubSeq(@, 1, 3)]

MCVectors == {Committed, Sidecars, SameName, SamePlace, SameKey, Outdated}
MCRefLists == {<<"origin/main", "main", "HEAD">>, <<"main">>}
=============================================================================
