----------------------------- MODULE SourceTree -----------------------------
(***************************************************************************)
(* The source tree as it is captured (r2_capture_manifest): a listing of   *)
(* file system objects, in whatever order a walk gives them, becomes a     *)
(* tree manifest or is unbindable.  A path is the sequence of its          *)
(* segments, a digest of bytes is the number of their version.             *)
(***************************************************************************)
EXTENDS Integers, FiniteSets, SequencesExt

NoMode == "none"

\* Segments the grammar of relative paths does not have.
Ungrammatical == {"", ".", ".."}

r2_relpath_ok(path) == path # <<>> /\ Range(path) \intersect Ungrammatical = {}

\* The root .git, and what a listing has under it.
InGit(path) == path # <<>> /\ Head(path) = ".git"

\* What a listing is made of.
Objects == [path : Seq(STRING), type : STRING, mode : STRING, content : Nat]

Kind(entry) ==
    IF entry.type = "file" /\ entry.mode = "executable" THEN "executable_file" ELSE entry.type

Refused(acc, entry) ==
    \/ ~r2_relpath_ok(entry.path)
    \/ entry.path \in DOMAIN acc.kinds
    \/ entry.type \notin {"dir", "file", "symlink"}
    \/ entry.type = "file" /\ entry.mode = NoMode

\* One turn of the loop over the listing.
Represent(acc, entry) ==
    IF ~acc.bound \/ InGit(entry.path) THEN acc
    ELSE IF Refused(acc, entry) THEN [acc EXCEPT !.bound = FALSE]
    ELSE [acc EXCEPT !.kinds = [path \in DOMAIN @ \union {entry.path} |->
                                    IF path = entry.path THEN entry.type ELSE @[path]],
                     !.entries = IF entry.type = "dir" THEN @
                                 ELSE @ \union {<<entry.path, Kind(entry), entry.content>>}]

\* Slip: only the directory a path lies in is looked at.
ParentUnderFile(kinds) ==
    \E path \in DOMAIN kinds :
        /\ Len(path) > 1
        /\ Front(path) \in DOMAIN kinds
        /\ kinds[Front(path)] # "dir"

NonDirectoryAncestor(kinds) ==
    \E path, above \in DOMAIN kinds :
        IsStrictPrefix(above, path) /\ kinds[above] # "dir"

Unbindable == [bound |-> FALSE, entries |-> {}]

\* The manifest is a sorted list of entries of different paths, and so a set.
r2_capture_manifest(capture) ==
    LET none == [bound |-> TRUE, kinds |-> <<>>, entries |-> {}]
        acc == FoldLeft(Represent, none, capture)
    IN  IF acc.bound /\ ~NonDirectoryAncestor(acc.kinds)
        THEN [bound |-> TRUE, entries |-> acc.entries]
        ELSE Unbindable

\* Slip: a link at the path will do.
JoinsByPath(manifest, path, sha) ==
    manifest.bound => \E e \in manifest.entries : e[1] = path /\ e[3] = sha

\* The tree has exactly this file at this path; nothing is said of an unbindable one.
tree_joins(manifest, path, sha) ==
    manifest.bound =>
    \E kind \in {"file", "executable_file"} : <<path, kind, sha>> \in manifest.entries

-----------------------------------------------------------------------------
(***************************************************************************)
(* What a capture should be, said of the listing as a set.                 *)
(***************************************************************************)
Outside(capture) == {i \in DOMAIN capture : ~InGit(capture[i].path)}

\* The directories a file system would need to hold these objects.
DirectoriesOf(objects) ==
    {object.path : object \in {o \in objects : o.type = "dir"}}
        \union UNION {{SubSeq(object.path, 1, n) : n \in 1..(Len(object.path) - 1)} :
                      object \in objects}

Leaves(objects) == {object \in objects : object.type # "dir"}

\* A file system could hold the objects outside .git, each listed once, and all of
\* them have a form.
IsTree(capture) ==
    LET objects == {capture[i] : i \in Outside(capture)}
    IN  /\ \A object \in objects :
            /\ r2_relpath_ok(object.path)
            /\ object.type \in {"dir", "file", "symlink"}
            /\ object.type = "file" => object.mode # NoMode
        /\ Cardinality({object.path : object \in objects}) = Cardinality(Outside(capture))
        /\ DirectoriesOf(objects) \intersect {leaf.path : leaf \in Leaves(objects)} = {}

TreeManifest(capture) ==
    IF IsTree(capture)
    THEN [bound |-> TRUE,
          entries |-> {<<leaf.path, Kind(leaf), leaf.content>> :
                       leaf \in Leaves({capture[i] : i \in Outside(capture)})}]
    ELSE Unbindable

Reorderings(capture) ==
    {[i \in DOMAIN capture |-> capture[p[i]]] : p \in Bijection(DOMAIN capture, DOMAIN capture)}
=============================================================================
