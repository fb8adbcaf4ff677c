------------------------------ MODULE MCCuration ------------------------------
(* `jf curation-audit` for TLC.  The modules describe the command at several  *)
(* levels: which managers a project has, which repository each of them uses,  *)
(* the audits of Run one after another, the requests of one audit, and what   *)
(* is recovered when an installation fails.  One of them moves in each        *)
(* behaviour, as `part` says.                                                 *)
EXTENDS TechDetection, CurationFetch, CurationAudit, CurationResolver, CurationFallback

VARIABLE part

Parts == {"detection", "resolver", "audit", "fetch", "fallback"}
\* The command stops where its part ends.
Ended(p) ==
    CASE p = "detection" -> step = "done"
      [] p = "resolver"  -> stage = "done"
      [] p = "audit"     -> pc = "done"
      [] p = "fetch"     -> outcome \in {"ok", "error"}
      [] p = "fallback"  -> FallbackDone
Rests(p) ==
    CASE p = "detection" -> UNCHANGED tdVars
      [] p = "resolver"  -> UNCHANGED resolverVars
      [] p = "audit"     -> UNCHANGED caVars
      [] p = "fetch"     -> UNCHANGED fetchVars
      [] p = "fallback"  -> UNCHANGED cfVars

Init ==
    /\ part \in Parts
    /\ DetectionInit /\ ResolverInit /\ CurationInit
    /\ FetchInit /\ FallbackInit
vars == <<part, tdVars, resolverVars, caVars, fetchVars, cfVars>>

Others == /\ \A p \in Parts \ {part} : Rests(p)
          /\ UNCHANGED part
Detect  == part = "detection" /\ Others /\ DetectionNext
Resolve == part = "resolver"  /\ Others /\ ResolverNext
Run     == part = "audit"     /\ Others /\ CurationNext
Fetch   == part = "fetch"     /\ Others /\ FetchNext
Recover == part = "fallback"  /\ Others /\ FallbackNext
Stop    == Ended(part) /\ UNCHANGED vars
Next == Detect \/ Resolve \/ Run \/ Fetch \/ Recover \/ Stop
Spec == Init /\ [][Next]_vars

-----------------------------------------------------------------------------
(* Instances.                                                              *)

\* "a" can be downloaded as two files, "b" depends on it.
TwoUrls == [n \in Node |-> CASE n = "a" -> <<"a1", "a2">> [] n = "b" -> <<"b1">> [] OTHER -> <<>>]

DirectoryTechs == {<<"pip">>, <<"npm", "huggingFace">>, <<"conan", "cargo">>}

\* The project's "a", resolved or not; "a" has "b", and "c", which asks for another "a".
Placing(above, n, v, k, t) == [name |-> n, version |-> v, kind |-> k, text |-> t, parent |-> above]
LoggedProject == <<"project", "1">>
LogEntries ==
    {Placing(LoggedProject, "a", NoVersion, "range", "^1"), Placing(LoggedProject, "a", "1", "resolved", "^1"),
     Placing(<<"a", "1">>, "b", NoVersion, "nonRegistry", "git"), Placing(<<"a", "1">>, "c", "2", "resolved", "^2"),
     Placing(<<"c", "2">>, "a", NoVersion, "etarget", "3")}

\* jf audit: nested directories with the files of several managers.
Tree == {<<>>, <<"a">>, <<"a", "b">>, <<"a", "c">>, <<"d">>}
AuditProjects ==
    [Tree -> {{}, {"pom.xml"}, {"package.json", "pnpm-lock.yaml"}, {"pyproject.toml/pip", "uv.lock"}}]
    \X {[recursive |-> TRUE, clean |-> c] : c \in BOOLEAN}

\* jf curation-audit in a member of a workspace, in the user's home, as that home, or elsewhere.
Member == <<"home", "w">>
Workspace(top, home, w) ==
    [d \in {<<>>, <<"home">>, Member} |-> CASE d = <<>> -> top [] d = <<"home">> -> home [] OTHER -> w]
MemberFiles ==
    {{"package.json"}, {"package.json", "package-lock.json"}, {"package.json", ".yarnrc"},
     {"package.json", "yarn.lock"}, {"package.json", "pnpm-lock.yaml"}, {"pyproject.toml/pip"},
     {"pyproject.toml/uv"}, {"pyproject.toml/pip", "uv.lock"}, {"requirements.txt", "uv.lock"},
     {"pyproject.toml/poetry", "poetry.lock", "main.py"}, {"Cargo.toml", "go.mod"}}
CurationProjects ==
    {<<Workspace(r, h, w), [cwd |-> Member, home |-> m, has |-> x]>> :
       r \in {{}, {".yarnrc.yml"}},
       h \in {{}, {"package.json", "workspaces", "yarn.lock"}, {"pnpm-lock.yaml"}, {".yarnrc.yml"}},
       w \in MemberFiles, m \in {<<"home">>, Member, <<"elsewhere">>},
       x \in {{}, {"claims"}, {"yarn.yaml"}, {"npm.yaml"}, {"pinsYarn", "globalYarnrc"},
              {"uv.toml"}, {"HF_ENDPOINT"}}}
DetectedProjects == AuditProjects \cup CurationProjects

\* Two configuration files, each of one server, with credentials or without.
ConfigFiles == {"npm.yaml", "yarn.yaml", "pip.yaml", "go.yaml", ".npmrc", ".yarnrc.yml", "uv.toml",
                "pip.conf", "Pipfile", "pyproject.toml", "cargo.toml", "HF_ENDPOINT"}
Configured(f, c, g, d) == [x \in {f, g} |-> IF x = g THEN d ELSE c]
File(h, c) == [host |-> h, creds |-> c]
TwoFiles ==
    {Configured(f, c, g, d) : f \in ConfigFiles, g \in ConfigFiles,
        c \in {File("home", "none"), File("away", "own")},
        d \in {File("home", "none"), File("away", "own"), File("away", "partial")}}
MixedLists ==
    {<<"pip", "npm">>, <<"pnpm", "uv">>, <<"npm", "cargo">>, <<"yarn", "poetry">>, <<"pipenv", "yarn">>,
     <<"go", "huggingFace">>, <<"uv", "go">>}

-----------------------------------------------------------------------------
(* Properties: each module states its own.                                 *)

\* Every variable keeps its type, and CurationAudit, CurationResolver and
\* CurationFallback their inductive invariants.
CurationTypes ==
    /\ DetectionTypeOK /\ ResolverTypeOK /\ ResolverInv
    /\ FetchTypeOK /\ AuditInv /\ FallbackInv
=============================================================================
