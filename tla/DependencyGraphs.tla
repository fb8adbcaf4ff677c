--------------------------- MODULE DependencyGraphs ---------------------------
(***************************************************************************)
(* How a package manager's lock file or listing becomes the dependency     *)
(* trees and the flat list of packages that are scanned or curated (the    *)
(* parse and populate functions under sca/bom/buildinfo/technologies), and *)
(* how a curation verdict on a package of the flat list is attributed to   *)
(* the direct dependency that brings it (fillGraphRelations in             *)
(* commands/curation/curationaudit.go).                                    *)
(*                                                                         *)
(* A tree is the set of its paths from the root.  Package managers allow   *)
(* cycles, so the walks stop at a package that is its own ancestor; some   *)
(* expand a package only once.                                             *)
(***************************************************************************)
EXTENDS Naturals, Sequences, FiniteSets, SequencesExt

CONSTANTS
    Package,    \* with the project "app", its workspace member "lib", and "pip"
    NameOf,     \* the name of a package: forks share one
    NoPackage,
    Locks       \* the lock files: records of Lock

Project == "app"
Local   == {"app", "lib"}
Name    == {NameOf[p] : p \in Package}

\* An edge of a lock file names a package and sometimes its version.
Edge == [name : Name, exact : Package \cup {NoPackage}]
\* needs: the edges of a package; listed: what `go list` names; rooted: the lock
\* file tells the project; declared: what package.json asks for, exact or a
\* range; scoped: only the member is audited.
LockOK(l) ==
    /\ l.needs \in [Package -> SUBSET Edge]
    /\ l.listed \subseteq Package /\ l.rooted \in BOOLEAN /\ l.scoped \in BOOLEAN
    /\ l.declared \subseteq Edge

Managers == {"python", "go", "swift", "cocoapods", "cargo", "uv", "npm", "pnpm", "yarn", "nuget",
             "gem", "conan", "java"}

VARIABLES
    lock,       \* the lock file
    manager,    \* whose it is
    trees,      \* the paths of the trees that were built
    flat,       \* the packages to check
    rows,       \* package and direct dependency of the verdicts, and the relation
    step        \* "idle", "read", "refused", "built" or "done"

graphVars == <<lock, manager, trees, flat, rows, step>>

-----------------------------------------------------------------------------
(* Edges.                                                                  *)

Named(n) == {p \in Package : NameOf[p] = n /\ p \in lock.listed}
\* Forks are only followed when the edge names the version.
ResolveExactOnly(e) == {e.exact} \cap Named(e.name)

\* resolveCargoDependency, resolveUvDependency: an exact version, or all forks.
Resolve(e) == IF e.exact \in Named(e.name) THEN {e.exact} ELSE Named(e.name)
Kids(p) == IF p \in lock.listed THEN UNION {Resolve(e) : e \in lock.needs[p]} ELSE {}

Looped(path) == \E i \in 1..Len(path) - 1 : path[i] = Last(path)

-----------------------------------------------------------------------------
(* Walks.                                                                  *)

\* Python, Go and Swift attach a package that closes a cycle and stop there.
RECURSIVE Populate(_)
Populate(path) ==
    {path} \cup IF Looped(path) THEN {}
                ELSE UNION {Populate(Append(path, c)) : c \in Kids(Last(path))}
\* BuildXrayDependencyTree (npm, yarn, NuGet, Maven) leaves such a package out.
RECURSIVE XrayTree(_, _)
XrayTree(path, kids) ==
    {path} \cup UNION {XrayTree(Append(path, c), kids) : c \in {k \in kids[Last(path)] : ~Contains(path, k)}}

Ids(paths) == UNION {ToSet(path) : path \in paths}
Made(paths, list) == [trees |-> paths, flat |-> list]

\* cocoapods and cargo expand a package once, in the order of the lock file.
RECURSIVE ExpandOnce(_, _, _)
ExpandOnce(path, pkg, acc) ==
    IF Looped(path) THEN acc
    ELSE FoldLeft(LAMBDA a, c :
                    LET child == Append(path, c)
                        more  == [a EXCEPT !.trees = @ \cup {child}]
                    IN IF c \in a.flat THEN more
                       ELSE ExpandOnce(child, c, [more EXCEPT !.flat = @ \cup {c}]),
                  acc, SetToSeq(Kids(pkg)))

-----------------------------------------------------------------------------
(* The managers.                                                           *)

Rooted(roots) == UNION {Populate(<<r>>) : r \in roots}
\* No project in the listing: a synthetic root holds everything.
UnderRoot(paths) == {<<"root">> \o p : p \in paths} \cup {<<"root">>}

\* pip lists itself next to the project, and is moved below it.
getRootNodes(directs) ==
    LET paths == Rooted(directs)
    IN IF ~lock.rooted THEN UnderRoot(paths)
       ELSE LET pip == {p \in paths : p[1] = "pip"}
                own == paths \ pip
            IN own \cup {<<r>> \o p : r \in {q[1] : q \in own}, p \in pip}
Directs == IF lock.rooted THEN {Project, "pip"} ELSE Kids(Project) \cup {"pip"}
MakePython == Made(getRootNodes(Directs), Ids(Rooted(Directs)))

MakeGo == Made(Populate(<<Project>>), Ids(Populate(<<Project>>)))

\* Every package of the listing is made a direct dependency.
MakeSwift ==
    LET all   == Ids(Populate(<<Project>>)) \ {Project}
        paths == {<<Project>>} \cup {<<Project>> \o p : p \in Rooted(all)}
    IN Made({p \in paths : ~\E i \in 1..Len(p) - 1 : Looped(SubSeq(p, 1, i))}, all \cup {Project})

\* The roots are the pods, or the gems, that no other needs.
Tops == (lock.listed \ Local) \ UNION {Kids(p) : p \in Package \ Local}
MakePods ==
    FoldLeft(LAMBDA a, p :
               LET top == [a EXCEPT !.trees = @ \cup {<<Project, p>>}]
               IN IF p \in a.flat THEN top
                  ELSE ExpandOnce(<<Project, p>>, p, [top EXCEPT !.flat = @ \cup {p}]),
             Made({<<Project>>}, {Project}), SetToSeq(Tops))
RECURSIVE GemBranch(_)
GemBranch(path) == {path} \cup UNION {GemBranch(Append(path, c)) : c \in Kids(Last(path))}
MakeGems == LET paths == UNION {GemBranch(<<p>>) : p \in Tops} IN Made(paths, Ids(paths))
\* Conan's listing holds every package of the graph.
MakeConan == Made(UnderRoot(UNION {GemBranch(<<p>>) : p \in Kids(Project)}),
                  Ids(UNION {GemBranch(<<p>>) : p \in Kids(Project)}))

\* A virtual workspace has no package of its own.
MakeCargo ==
    IF lock.rooted THEN ExpandOnce(<<Project>>, Project, Made({<<Project>>}, {}))
    ELSE FoldLeft(LAMBDA a, p : ExpandOnce(<<"root">>, p, a), Made({<<"root">>}, {}),
                  SetToSeq(Local \cap lock.listed))

\* Workspace members that the project does not need are roots of their own.
MakeUv ==
    IF ~lock.rooted
    THEN Made(UnderRoot(Rooted(lock.listed)), lock.listed)
    ELSE LET own     == Populate(<<Project>>)
             below   == UNION {ToSet(Tail(p)) : p \in own}
             members == ((Local \ {Project}) \cap lock.listed) \ below
         IN Made(own \cup Rooted(members), below \cup Ids(Rooted(members)))

Graph == [p \in Package |-> Kids(p)]
MakeNpm == LET t == XrayTree(<<Project>>, Graph) IN Made(t, Ids(t))
\* NuGet: only the first requester of a package becomes its parent.
FirstParents ==
    LET reached == Ids(XrayTree(<<Project>>, Graph))
        depth(p) == LET lens == {Len(q) : q \in {t \in XrayTree(<<Project>>, Graph) : Last(t) = p}}
                    IN CHOOSE n \in lens : \A m \in lens : n <= m
        parent(p) == CHOOSE q \in reached : p \in Kids(q) /\ depth(q) < depth(p)
    IN [q \in Package |-> {p \in reached \ {Project} : parent(p) = q}]
MakeNuget == LET t == XrayTree(<<Project>>, FirstParents) IN Made(t, Ids(t))
MakeJava == LET t == UNION {XrayTree(<<r>>, Graph) : r \in Local} IN Made(t, Ids(t))

\* parsePnpmLockFile: members hang below the project, and are not checked.
Nested == [p \in Package |-> IF p = Project THEN Kids(p) \cup (Local \ {Project}) ELSE Kids(p)]
MakePnpm ==
    IF lock.scoped THEN LET t == XrayTree(<<"lib">>, Graph) IN Made(t, Ids(t) \ (Local \ {"lib"}))
    ELSE LET t == XrayTree(<<Project>>, Nested) IN Made(t, Ids(t) \ {"lib"})

\* yarn: the graph is cut down to a member, or the members are attached to the
\* root; then exact declarations that the lock file does not hold are added.
YarnRoot == IF lock.scoped THEN "lib" ELSE Project
attachWorkspaceMembersToRoot == IF lock.scoped THEN Graph ELSE Nested
RECURSIVE filterYarnDepMapToWorkspaceMember(_)
filterYarnDepMapToWorkspaceMember(found) ==
    LET more == found \cup UNION {Kids(p) : p \in found}
    IN IF more = found THEN found ELSE filterYarnDepMapToWorkspaceMember(more)
\* yarn lists what its workspaces reach.
InMap == filterYarnDepMapToWorkspaceMember(IF lock.scoped THEN {"lib"} ELSE Local)
reconcileDeclaredDirectDepsAgainstTree ==
    {e.exact : e \in lock.declared} \ (InMap \cup {NoPackage})
MakeYarn ==
    LET added == reconcileDeclaredDirectDepsAgainstTree
        graph == [p \in Package |-> IF p \in added THEN {}
                                    ELSE attachWorkspaceMembersToRoot[p] \cup (IF p = YarnRoot THEN added ELSE {})]
        t     == XrayTree(<<YarnRoot>>, graph)
    IN Made(t, Ids(t) \ (Local \ {YarnRoot}))

Make ==
    CASE manager = "python" -> MakePython  [] manager = "go" -> MakeGo
      [] manager = "swift" -> MakeSwift    [] manager = "cocoapods" -> MakePods
      [] manager = "cargo" -> MakeCargo    [] manager = "uv" -> MakeUv
      [] manager = "npm" -> MakeNpm        [] manager = "pnpm" -> MakePnpm
      [] manager = "yarn" -> MakeYarn      [] manager = "nuget" -> MakeNuget
      [] manager = "gem" -> MakeGems       [] manager = "conan" -> MakeConan
      [] manager = "java" -> MakeJava

-----------------------------------------------------------------------------
(* Relations: the walk visits a package once below each direct dependency. *)

Direct(path) == path[2]
VisitedOnce(path) == <<Last(path)>>
Visited(path) == <<Last(path), Direct(path)>>
RECURSIVE Relate(_, _)
Relate(path, acc) ==
    LET kids == SetToSeq({Last(p) : p \in {q \in trees : Len(q) = Len(path) + 1 /\ Front(q) = path}})
        visit(a, c) ==
            LET child == Append(path, c)
                key   == Visited(child)
            IN IF key \in a.visited THEN a
               ELSE Relate(child, [visited |-> a.visited \cup {key},
                                   rows |-> IF c \in flat THEN a.rows \cup {<<c, Direct(child), Len(child) = 2>>}
                                            ELSE a.rows])
    IN FoldLeft(visit, acc, kids)
fillGraphRelations ==
    FoldLeft(LAMBDA a, root : Relate(root, a), [visited |-> {}, rows |-> {}],
             SetToSeq({p \in trees : Len(p) = 1})).rows

GraphsInit ==
    /\ lock = [needs |-> [p \in Package |-> {}], listed |-> {}, rooted |-> FALSE, scoped |-> FALSE, declared |-> {}]
    /\ manager = "none" /\ trees = {} /\ flat = {} /\ rows = {} /\ step = "idle"

\* Bundler, CocoaPods and Conan refuse cycles.
Acyclic == \A p \in Package : ~\E t \in XrayTree(<<p>>, Graph) : p \in Kids(Last(t))
ReadLock(l, mgr) ==
    /\ step = "idle"
    /\ lock' = l /\ manager' = mgr /\ step' = "read"
    /\ UNCHANGED <<trees, flat, rows>>
RefuseCycle ==
    /\ step = "read" /\ manager \in {"gem", "cocoapods", "conan"} /\ ~Acyclic
    /\ step' = "refused"
    /\ UNCHANGED <<lock, manager, trees, flat, rows>>
BuildTrees ==
    /\ step = "read" /\ (manager \in {"gem", "cocoapods", "conan"} => Acyclic)
    /\ trees' = Make.trees /\ flat' = Make.flat
    /\ step' = "built"
    /\ UNCHANGED <<lock, manager, rows>>
GraphsRelations ==
    /\ step = "built"
    /\ rows' = fillGraphRelations
    /\ step' = "done"
    /\ UNCHANGED <<lock, manager, trees, flat>>

GraphsNext ==
    \/ step = "idle" /\ \E l \in Locks, mgr \in Managers : ReadLock(l, mgr)
    \/ RefuseCycle \/ BuildTrees \/ GraphsRelations

-----------------------------------------------------------------------------
(* Properties.                                                             *)

\* The variables range over what the parsers produce.
GraphsTypeOK ==
    /\ LockOK(lock) /\ manager \in Managers \cup {"none"}
    /\ Ids(trees) \subseteq Package \cup {"root"} /\ flat \subseteq Package
    /\ step \in {"idle", "read", "built", "refused", "done"}

\* What the lock file asks for: an edge without a version, or with one that is
\* not listed, stands for every fork of the name.
Asked(p) == {q \in lock.listed : p \in lock.listed /\ \E e \in lock.needs[p] :
                NameOf[q] = e.name /\ (q = e.exact \/ e.exact \notin lock.listed)}
\* The packages at a distance of at most n from some.
Within[S \in SUBSET Package, n \in 0..Cardinality(Package)] ==
    IF n = 0 THEN S ELSE Within[S \cup UNION {Asked(p) : p \in S}, n - 1]
Closure(S) == Within[S, Cardinality(Package)]
Needed ==
    CASE manager \in {"gem", "cocoapods"} -> lock.listed
      [] manager = "uv" /\ ~lock.rooted -> lock.listed
      [] manager \in {"uv", "java"} \/ (manager = "cargo" /\ ~lock.rooted) -> Closure(Local \cap lock.listed)
      [] manager \in {"pnpm", "yarn"} /\ lock.scoped -> Closure({"lib"})
      [] manager \in {"pnpm", "yarn"} /\ ~lock.scoped -> Closure(Local)
      [] OTHER -> Closure({Project})
\* What is declared exactly must be checked even when yarn rolled its lock back.
Promised == IF manager = "yarn" THEN {e.exact : e \in lock.declared} \ {NoPackage} ELSE {}

\* Cycles, forks, shared subtrees and workspaces notwithstanding, every package
\* the project needs is in the flat list that is checked, and nothing else is.
ListIsExact ==
    step = "done" => /\ (Needed \cup Promised) \ Local \subseteq flat
                     /\ flat \subseteq Needed \cup Promised \cup Local \cup {"pip"}

\* And every one of them is found in a tree, so that a finding about it can be
\* traced to a direct dependency: the relations name each package below each
\* direct dependency in whose tree it is, and the direct ones as direct.
RelationsComplete ==
    step = "done" =>
      /\ flat \ Local \subseteq Ids(trees)
      /\ \A p \in trees : Len(p) > 1 /\ Last(p) \in flat => <<Last(p), Direct(p)>> \in {<<r[1], r[2]>> : r \in rows}
      /\ \A p \in trees : Len(p) = 2 /\ Last(p) \in flat => <<Last(p), Last(p), TRUE>> \in rows

=============================================================================
