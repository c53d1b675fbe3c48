---------------------------- MODULE PackageReader ----------------------------
(***************************************************************************)
(* The two readers of the package and the places they read from: a source  *)
(* checkout, an installed wheel, an installed npm package.  A site holds   *)
(* files at its root and, in a wheel, under the package's _data.  Which    *)
(* bytes a file has is told by the commit it is of.                        *)
(***************************************************************************)
EXTENDS Integers, FiniteSets

\* Where a commit states the version of the contract.
Places == {"package.json", "pyproject.toml", "index.js", "__init__.py", "contract.json"}

File(dir, name, n) == [dir |-> dir, name |-> name, n |-> n]
ContractFile == File("core", "contract", 0)
SchemaFile == File("core", "decision", 0)

\* A commit's files; the vectors it has differ from commit to commit.
Files(tree) == {ContractFile, SchemaFile, File("conformance", "vector", tree.id)}

Checkout(tree) == [tree |-> tree, root |-> Files(tree), data |-> {}]

\* Slip: one of the two directories is not mapped into the wheel.
WheelOfCore(tree) ==
    [tree |-> tree, root |-> {}, data |-> {f \in Files(tree) : f.dir = "core"}]

\* Hatch maps both directories into _data and leaves the root to others.
Wheel(tree) ==
    [tree |-> tree, root |-> {}, data |-> {f \in Files(tree) : f.dir \in {"core", "conformance"}}]

NpmPackage(tree) ==
    [tree |-> tree, root |-> {f \in Files(tree) : f.dir \in {"core", "conformance"}}, data |-> {}]

Missing == [missing |-> TRUE]
Text(site, file) == [file |-> file, of |-> site.tree.id]

-----------------------------------------------------------------------------
(***************************************************************************)
(* consiliency_contract/__init__.py                                        *)
(***************************************************************************)
\* File by file: the source tree's if it is there, else the packaged one.
read_text(site, file) ==
    IF file \in site.root \union site.data THEN Text(site, file) ELSE Missing

\* By directory: the source tree's vectors if it has the directory.
list_vectors(site) ==
    LET vectors(files) == {f \in files : f.dir = "conformance"}
    IN  IF vectors(site.root) # {} THEN vectors(site.root) ELSE vectors(site.data)

load_vector(site, vector) ==
    IF vector \in list_vectors(site) THEN read_text(site, vector) ELSE Missing

python_dump(site) ==
    [contract_version |-> site.tree.says["__init__.py"],
     contract |-> read_text(site, ContractFile),
     schemas |-> read_text(site, SchemaFile),
     vectors |-> {load_vector(site, v) : v \in list_vectors(site)}]

(***************************************************************************)
(* src/index.js                                                            *)
(***************************************************************************)
readJson(site, file) == IF file \in site.root THEN Text(site, file) ELSE Missing

listVectors(site) == {f \in site.root : f.dir = "conformance"}

jsPayload(site) ==
    [contract_version |-> site.tree.says["index.js"],
     contract |-> readJson(site, ContractFile),
     schemas |-> readJson(site, SchemaFile),
     vectors |-> {readJson(site, v) : v \in listVectors(site)}]
=============================================================================
