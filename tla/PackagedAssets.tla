--------------------------- MODULE PackagedAssets ---------------------------
(***************************************************************************)
(* The check of an installed bundle against its build manifest             *)
(* (runtime/src/internal/packaged-assets.ts), before the desktop host      *)
(* starts a process from it.                                               *)
(*                                                                         *)
(* A tree maps paths, sequences of names, to nodes; a path that is not in  *)
(* its domain is absent.  A node's `bytes` stands for its size and `hash`  *)
(* for its contents; a symbolic link leads to a node of the kind `leads`.  *)
(***************************************************************************)
EXTENDS Naturals, Sequences, FiniteSets, SequencesExt

CONSTANTS Pins, MaxManifestBytes

\* The subtrees of a bundle that hold code.
Subtrees == {<<"astroix-runtime">>, <<"node">>}
NodeExecutable == <<"node", "bin", "node">>
ControlPlaneEntry == <<"astroix-runtime", "control-plane", "child.js">>
ModuleTypeMarker == <<"astroix-runtime", "package.json">>
ManifestPath == <<"astroix-runtime", "build-manifest.json">>

Absent == [type |-> "absent"]
NodeAt(tree, path) == IF path \in DOMAIN tree THEN tree[path] ELSE Absent

LinkToDirectory == [type |-> "link", leads |-> "directory"]

\* A directory, or a link to one: what a path leads through.
Passable(node) == node.type = "directory" \/ node = LinkToDirectory

Above(path) == {SubSeq(path, 1, n) : n \in 1 .. Len(path) - 1}

\* lstat, which follows links on the way but not the last one: a way that is
\* not there or leads through a file reads as missing.
lstatSafe(tree, path) ==
    IF \A p \in Above(path) : Passable(NodeAt(tree, p)) THEN NodeAt(tree, path) ELSE Absent

Statted(node) ==
    CASE node.type = "absent" -> "resource-missing"
      [] node.type = "sealed" -> "resource-inaccessible"
      [] node.type = "link" -> "resource-symlink"
      [] node.type = "file" /\ node.links = 1 -> "ok"
      [] OTHER -> "resource-type"

-----------------------------------------------------------------------------
readManifest(tree) ==
    LET node == lstatSafe(tree, ManifestPath)
    IN  CASE Statted(node) = "resource-missing" -> "manifest-missing"
          [] Statted(node) \notin {"ok", "resource-missing"} -> Statted(node)
          [] OTHER ->
               CASE ~node.readable -> "resource-inaccessible"
                 [] node.readable /\ node.bytes > MaxManifestBytes -> "manifest-invalid"
                 [] OTHER -> IF node.manifest.parses
                             THEN IF node.manifest.valid THEN "ok" ELSE "manifest-invalid"
                             ELSE "manifest-unreadable"

checkPins(manifest, running) == IF manifest.pins = Pins /\ Pins = running THEN "ok" ELSE "pin-mismatch"

checkRequiredLayout(manifest) ==
    LET listed == {r.path : r \in ToSet(manifest.resources)}
        places == {i \in DOMAIN manifest.resources : manifest.resources[i].path = NodeExecutable}
        node == manifest.resources[Max(places)]
    IN  CASE NodeExecutable \notin listed -> "layout-missing"
          [] NodeExecutable \in listed /\ ~node.executable -> "executable-not-executable"
          [] OTHER -> IF {ControlPlaneEntry, ModuleTypeMarker} \subseteq listed
                      THEN "ok" ELSE "layout-missing"

-----------------------------------------------------------------------------
\* A directory on the way, which must be a real one.
verifyStep(tree, path) ==
    LET node == lstatSafe(tree, path)
    IN  CASE node.type = "directory" -> "ok"
          [] node.type \in {"absent", "sealed", "link"} -> Statted(node)
          [] OTHER -> "resource-type"

\* The first directory on the way that is not one.
verifyAncestry(tree, path) ==
    LET bad == {p \in Above(path) : verifyStep(tree, p) # "ok"}
    IN  IF bad = {} THEN "ok"
        ELSE verifyStep(tree, CHOOSE p \in bad : \A q \in bad : Len(p) <= Len(q))

verifyLeaf(node, resource) ==
    CASE Statted(node) # "ok" -> Statted(node)
      [] Statted(node) = "ok" /\ resource.executable /\ ~node.executable ->
           "executable-not-executable"
      [] OTHER ->
           CASE node.bytes # resource.bytes -> "resource-tampered"
             [] node.bytes = resource.bytes /\ ~node.readable -> "resource-inaccessible"
             [] OTHER -> IF node.hash = resource.hash THEN "ok" ELSE "resource-tampered"

verifyResource(tree, resource) ==
    LET way == verifyAncestry(tree, resource.path)
    IN  IF way = "ok" THEN verifyLeaf(lstatSafe(tree, resource.path), resource) ELSE way

\* Mutant: a walk that looks for files.
UnlistedFiles(tree, listed) ==
    {p \in DOMAIN tree :
        /\ \E root \in Subtrees : IsStrictPrefix(root, p)
        /\ \A q \in Above(p) : NodeAt(tree, q).type = "directory"
        /\ tree[p].type = "file" /\ p # ManifestPath /\ p \notin listed}

Listable(node) == node.type = "directory" /\ node.readable

\* What the walk of the subtrees finds that nobody listed: whatever is not a
\* directory.  It enters real directories, and a linked subtree itself.
Unlisted(tree, listed) ==
    {p \in DOMAIN tree :
        /\ \E root \in Subtrees : IsStrictPrefix(root, p)
        /\ \A q \in Above(p) :
              Listable(NodeAt(tree, q)) \/ (q \in Subtrees /\ NodeAt(tree, q) = LinkToDirectory)
        /\ tree[p].type # "directory" /\ p # ManifestPath /\ p \notin listed}

\* A directory of the walk that cannot be read.
Sealed(tree) ==
    {p \in DOMAIN tree :
        /\ \E root \in Subtrees : IsPrefix(root, p)
        /\ \A q \in Above(p) : NodeAt(tree, q).type = "directory"
        /\ tree[p].type = "directory" /\ ~tree[p].readable}

\* The answer is the first failure of the walk, in the order of the directory.
verifyInventoryCompleteness(tree, listed) ==
    LET found == (IF Unlisted(tree, listed) # {} THEN {"layout-unlisted"} ELSE {})
                 \cup (IF Sealed(tree) # {} THEN {"resource-inaccessible"} ELSE {})
    IN  IF found = {} THEN {"ok"} ELSE found

\* The outcomes the code can answer: where two faults are met in the order of a
\* directory's listing, either.
verifyPackagedAssets(tree, running) ==
    LET manifest == NodeAt(tree, ManifestPath).manifest
        outcome(i) == verifyResource(tree, manifest.resources[i])
        faults == {i \in DOMAIN manifest.resources : outcome(i) # "ok"}
    IN  CASE readManifest(tree) # "ok" -> {readManifest(tree)}
          [] readManifest(tree) = "ok" /\ checkPins(manifest, running) # "ok" -> {"pin-mismatch"}
          [] OTHER ->
               CASE checkRequiredLayout(manifest) # "ok" -> {checkRequiredLayout(manifest)}
                 [] checkRequiredLayout(manifest) = "ok" /\ faults # {} -> {outcome(Min(faults))}
                 [] OTHER -> verifyInventoryCompleteness(
                                 tree, {r.path : r \in ToSet(manifest.resources)})

=============================================================================
