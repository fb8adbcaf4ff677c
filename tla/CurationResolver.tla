-------------------------- MODULE CurationResolver --------------------------
(***************************************************************************)
(* Which Artifactory server, credentials and repository `jf curation-audit`*)
(* uses for each technology of a directory (SetRepo and the setRepoFrom... *)
(* functions, getBuildInfoParamsByTech and the head of auditTree in        *)
(* commands/curation/curationaudit.go; the sources of pip and pipenv in    *)
(* sca/bom/buildinfo/technologies/python/python.go).                       *)
(*                                                                         *)
(* A configuration file names a host and may hold credentials for it.      *)
(* When it holds none, the credentials of `jf c` are used, most routes     *)
(* only for the host they belong to.  The technologies share the server's  *)
(* details, whose URL two of the routes overwrite, and the repository of   *)
(* the command line, which others fill in.                                 *)
(***************************************************************************)
EXTENDS Naturals, Sequences

CONSTANTS
    Layouts,    \* what the configuration files may say: functions from those there are
    Lists       \* the technologies of a directory

NoFile == [host |-> "none", creds |-> "none"]
\* creds: complete ones of the file's own, a user without a password, or none.
Contents == [host : {"home", "away"}, creds : {"own", "partial", "none"}] \cup {NoFile}
Files == {"npm.yaml", "yarn.yaml", "pip.yaml", "go.yaml", ".npmrc", ".yarnrc.yml", "uv.toml",
          "pip.conf", "Pipfile", "pyproject.toml", "cargo.toml", "HF_ENDPOINT"}

VARIABLES
    files,      \* what the configuration files say
    flags,      \* native: --run-native; yarn4; gate: versions are checked first
    left,       \* the technologies that are left, the current one first
    stage,      \* "idle", "gate", "early", "install", "probe" or "done"
    serverHost, \* the host of the URL in the shared server details
    connection,     \* PackageManagerConfig: the file, the host and the credentials
    depsRepo,   \* whose file set the repository parameter
    uses        \* what each audit installed and probed with

resolverVars == <<files, flags, left, stage, serverHost, connection, depsRepo, uses>>

NoConnection == [file |-> "none", host |-> "none", creds |-> "none"]
Flags == [native : BOOLEAN, yarn4 : BOOLEAN, gate : BOOLEAN]

ResolverInit ==
    /\ files = [f \in Files |-> NoFile]
    /\ flags = [native |-> FALSE, yarn4 |-> FALSE, gate |-> FALSE]
    /\ left = <<>> /\ stage = "idle"
    /\ serverHost = "home"
    /\ connection = NoConnection /\ depsRepo = "none"
    /\ uses = {}

ThisTech == Head(left)
Has(f) == files[f] # NoFile
\* What a route makes of a file; "jf" are the credentials of the shared server.
Own(f)    == [file |-> f, host |-> files[f].host, creds |-> "own"]
Shared(f) == [file |-> f, host |-> files[f].host, creds |-> "jf"]

-----------------------------------------------------------------------------
(* The routes: the connections a technology may get.  None is a failure.   *)

\* credentialFallbackServerDetails: the host must be the server's.
Borrowed(f) == IF files[f].host = serverHost THEN {Shared(f)} ELSE {}

\* A yaml file names a server that `jf c` knows, with credentials of its own.
getRepoParams(f) == IF Has(f) THEN {Own(f)} ELSE {}
Sibling(f, g) == IF Has(f) THEN getRepoParams(f) ELSE getRepoParams(g)

setRepoFromNpmrc == IF Has(".npmrc") THEN {Shared(".npmrc")} ELSE {}
OwnOrShared(f) == IF ~Has(f) THEN {} ELSE IF files[f].creds = "own" THEN {Own(f)} ELSE {Shared(f)}
Lending(f)     == IF ~Has(f) THEN {} ELSE Borrowed(f)

\* A URL with a user and no password is refused.
setRepoFromPipConf ==
    IF Has("pip.yaml") THEN getRepoParams("pip.yaml")
    ELSE IF ~Has("pip.conf") \/ files["pip.conf"].creds = "partial" THEN {}
    ELSE IF files["pip.conf"].creds = "own" THEN {Own("pip.conf")} ELSE Borrowed("pip.conf")

setRepoFromPyproject ==
    IF ~Has("pyproject.toml") THEN {}
    ELSE IF files["pyproject.toml"].creds = "none" THEN Borrowed("pyproject.toml")
    ELSE {Own("pyproject.toml")}

\* pip.conf names the target, else the Pipfile does; the Pipfile's own sources
\* must agree with it.  The credentials are the source's, then the target's,
\* then the server's if its endpoint is the target's, and partial ones are
\* refused where they are met; there may be none at all.
setRepoFromPipfile ==
    LET target == IF Has("pip.conf") THEN "pip.conf" ELSE "Pipfile"
        order  == <<files["Pipfile"].creds, files[target].creds>>
        first  == IF order[1] # "none" THEN order[1] ELSE order[2]
    IN IF \/ ~Has(target)
          \/ Has("pip.conf") /\ files["pip.conf"].creds = "partial"
          \/ Has("Pipfile") /\ files["Pipfile"].host # files[target].host
          \/ first = "partial"
       THEN {}
       ELSE {[Own(target) EXCEPT !.creds = CASE first = "own" -> "own"
                                             [] first = "none" /\ files[target].host = serverHost -> "jf"
                                             [] OTHER -> "none"]}

\* The repository must exist on the server.
huggingFaceConfig == Lending("HF_ENDPOINT")

NativeYarn == ThisTech = "yarn" /\ flags.yarn4
Routes ==
    CASE ThisTech = "npm" /\ flags.native  -> setRepoFromNpmrc
      [] ThisTech = "npm" /\ ~flags.native -> Sibling("npm.yaml", "yarn.yaml")
      [] ThisTech = "pnpm"                 -> OwnOrShared(".npmrc")
      [] NativeYarn                        -> OwnOrShared(".yarnrc.yml")
      [] ThisTech = "yarn" /\ ~NativeYarn  -> Sibling("yarn.yaml", "npm.yaml")
      [] ThisTech = "uv"                   -> Lending("uv.toml")
      [] ThisTech = "cargo"                -> Lending("cargo.toml")
      [] ThisTech = "pip"                  -> setRepoFromPipConf
      [] ThisTech = "pipenv"               -> setRepoFromPipfile
      [] ThisTech = "poetry"               -> setRepoFromPyproject
      [] ThisTech = "huggingFace"          -> huggingFaceConfig
      [] ThisTech = "go"                   -> getRepoParams("go.yaml")

\* These write the URL into the server's details; yarn and the rest copy them.
WritesServer(c) == c.creds = "jf" /\ ThisTech \in {"npm", "pnpm"}
\* The technologies that are resolved before they install.
Early == {"pip", "pipenv", "poetry", "uv", "cargo"}
SetsDepsRepo == ThisTech \in Early \/ NativeYarn

Connect(c) ==
    /\ connection' = c
    /\ serverHost' = IF WritesServer(c) THEN c.host ELSE serverHost
    /\ depsRepo' = IF SetsDepsRepo THEN c.file ELSE depsRepo
EnsureConnection ==
    IF connection = NoConnection THEN \E c \in Routes : Connect(c)
    ELSE UNCHANGED <<connection, serverHost, depsRepo>>
Unresolvable == connection = NoConnection /\ Routes = {}

-----------------------------------------------------------------------------
(* The audit of one technology.                                            *)

BeginResolving(layout, f, list) ==
    /\ files' = [x \in Files |-> IF x \in DOMAIN layout THEN layout[x] ELSE NoFile] /\ flags' = f
    /\ left' = list /\ stage' = "gate"
    /\ UNCHANGED <<serverHost, connection, depsRepo, uses>>

GatedTechs == {"pip", "pipenv", "poetry", "uv", "go"}
CheckSupport ==
    /\ stage = "gate" /\ left # <<>>
    /\ IF ThisTech \in GatedTechs /\ flags.gate THEN EnsureConnection
       ELSE UNCHANGED <<connection, serverHost, depsRepo>>
    /\ stage' = "early"
    /\ UNCHANGED <<files, flags, left, uses>>

\* cargo does not trust a connection that is already there.
PrepareTech ==
    /\ stage = "early"
    /\ CASE ThisTech \in {"pip", "pipenv", "poetry", "uv"} -> EnsureConnection
         [] ThisTech = "cargo" -> \E c \in Routes : Connect(c)
         [] OTHER -> UNCHANGED <<connection, serverHost, depsRepo>>
    /\ stage' = "install"
    /\ UNCHANGED <<files, flags, left, uses>>

\* getBuildInfoParamsByTech and SetResolutionRepoInParamsIfExists: the package
\* manager installs through the connection, through what the technology's yaml
\* file says, or as its own configuration says, without a repository.
Yaml == CASE ThisTech = "npm" -> getRepoParams("npm.yaml")
          [] ThisTech = "yarn" -> Sibling("yarn.yaml", "npm.yaml")
          [] ThisTech = "go" -> getRepoParams("go.yaml")
          [] OTHER -> {}
ReadsItsOwn == NativeYarn \/ ThisTech = "pnpm" \/ (ThisTech = "npm" /\ flags.native)
InstallThrough ==
    IF ThisTech \in Early THEN connection
    ELSE IF depsRepo = "none" /\ Yaml # {} /\ ~ReadsItsOwn THEN CHOOSE c \in Yaml : TRUE
    ELSE [file |-> IF ReadsItsOwn THEN "none" ELSE depsRepo, host |-> serverHost, creds |-> "jf"]
Use(step, c, repo) ==
    [step |-> step, tech |-> ThisTech, host |-> c.host, creds |-> c.creds, repo |-> repo]
Install ==
    /\ stage = "install"
    /\ uses' = uses \cup {Use("install", InstallThrough, InstallThrough.file)}
    /\ stage' = "probe"
    /\ UNCHANGED <<files, flags, left, serverHost, connection, depsRepo>>

\* Faulty variant: the repository is kept for the next technology.
ProbeVersionsKeepingRepo ==
    /\ stage = "probe"
    /\ \E c \in IF connection = NoConnection THEN Routes ELSE {connection} :
        /\ uses' = uses \cup {Use("probe", c, c.file)}
        /\ serverHost' = IF connection = NoConnection /\ WritesServer(c) THEN c.host ELSE serverHost
    /\ connection' = NoConnection
    /\ left' = Tail(left) /\ stage' = "gate"
    /\ UNCHANGED <<files, flags, depsRepo>>

\* The probes use the connection and its repository; then both are cleared.
ProbeVersions ==
    /\ stage = "probe"
    /\ \E c \in IF connection = NoConnection THEN Routes ELSE {connection} :
        /\ uses' = uses \cup {Use("probe", c, c.file)}
        /\ serverHost' = IF connection = NoConnection /\ WritesServer(c) THEN c.host ELSE serverHost
    /\ connection' = NoConnection /\ depsRepo' = "none"
    /\ left' = Tail(left)
    /\ stage' = "gate"
    /\ UNCHANGED <<files, flags>>

\* A connection that cannot be made ends the directory, but for the discovery
\* of Hugging Face models next to other technologies.
ResolutionFails ==
    /\ \/ stage = "gate" /\ left # <<>> /\ ThisTech \in GatedTechs /\ flags.gate
       \/ stage = "early" /\ ThisTech \in Early
       \/ stage = "probe"
    /\ Unresolvable \/ (ThisTech = "cargo" /\ stage = "early" /\ Routes = {})
    /\ IF ThisTech = "huggingFace" /\ (Len(left) > 1 \/ uses # {})
       THEN /\ connection' = NoConnection /\ depsRepo' = "none"
            /\ left' = Tail(left) /\ stage' = "gate"
       ELSE /\ UNCHANGED <<connection, depsRepo>>
            /\ left' = <<>> /\ stage' = "done"
    /\ UNCHANGED <<files, flags, serverHost, uses>>

ListDone ==
    /\ stage = "gate" /\ left = <<>>
    /\ stage' = "done"
    /\ UNCHANGED <<files, flags, left, serverHost, connection, depsRepo, uses>>

ResolverNext ==
    \/ stage = "idle" /\ \E layout \in Layouts, f \in Flags, list \in Lists : BeginResolving(layout, f, list)
    \/ CheckSupport \/ PrepareTech \/ Install \/ ProbeVersions \/ ResolutionFails \/ ListDone

ResolverSpec == ResolverInit /\ [][ResolverNext]_resolverVars

-----------------------------------------------------------------------------
(* Properties.                                                             *)

\* The technologies whose routes are modelled.
Resolved == {"npm", "pnpm", "yarn", "uv", "cargo", "pip", "pipenv", "poetry", "huggingFace", "go"}

\* The variables range over the values the code gives them.
ResolverTypeOK ==
    /\ stage \in {"idle", "gate", "early", "install", "probe", "done"}
    /\ serverHost \in {"home", "away"}
    /\ connection.file \in Files \cup {"none"} /\ connection.creds \in {"own", "jf", "none"}
    /\ depsRepo \in Files \cup {"none"}

\* The files a technology's repository may come from.
SourcesOf(t) ==
    CASE t \in {"npm"} -> {"npm.yaml", "yarn.yaml", ".npmrc"}
      [] t = "yarn" -> {"npm.yaml", "yarn.yaml", ".yarnrc.yml"}
      [] t = "pnpm" -> {".npmrc"}
      [] t = "uv" -> {"uv.toml"}
      [] t = "cargo" -> {"cargo.toml"}
      [] t = "pip" -> {"pip.yaml", "pip.conf"}
      [] t = "pipenv" -> {"pip.conf", "Pipfile"}
      [] t = "poetry" -> {"pyproject.toml"}
      [] t = "huggingFace" -> {"HF_ENDPOINT"}
      [] t = "go" -> {"go.yaml"}

\* On the host its file names, not the one the shared details have by then.
OnItsHost(c) == c.host = files[c.file].host

\* Whatever technologies were audited before it, a technology is installed and
\* probed in a repository of its own configuration, on the host that names, and
\* the one is the other's: packages are not checked in a repository they are not
\* resolved from, nor on a server that another technology moved the URL to.
OwnRepository ==
    /\ \A u \in uses : u.repo # "none" => u.host = files[u.repo].host
    /\ \A u \in uses : u.repo \in SourcesOf(u.tech) \cup (IF u.step = "install" THEN {"none"} ELSE {})
    /\ \A u, v \in uses : u.tech = v.tech /\ u.step = "install" /\ v.step = "probe" =>
          u.repo = "none" \/ u.repo = v.repo

-----------------------------------------------------------------------------
(* Why it holds.                                                           *)

\* The one file every route of a technology picks in this directory.
Source(t) ==
    CASE t = "npm"         -> IF flags.native THEN ".npmrc"
                              ELSE IF Has("npm.yaml") THEN "npm.yaml" ELSE "yarn.yaml"
      [] t = "pnpm"        -> ".npmrc"
      [] t = "yarn"        -> IF flags.yarn4 THEN ".yarnrc.yml"
                              ELSE IF Has("yarn.yaml") THEN "yarn.yaml" ELSE "npm.yaml"
      [] t = "uv"          -> "uv.toml"
      [] t = "cargo"       -> "cargo.toml"
      [] t = "pip"         -> IF Has("pip.yaml") THEN "pip.yaml" ELSE "pip.conf"
      [] t = "pipenv"      -> IF Has("pip.conf") THEN "pip.conf" ELSE "Pipfile"
      [] t = "poetry"      -> "pyproject.toml"
      [] t = "huggingFace" -> "HF_ENDPOINT"
      [] t = "go"          -> "go.yaml"

\* Nothing is left of the last audit when the next one begins; within one, the
\* connection and the repository are the technology's own, and an early
\* technology has its connection before it installs.
OwnConnection ==
    /\ stage \in {"idle", "gate"} => connection = NoConnection /\ depsRepo = "none"
    /\ stage \in {"early", "install", "probe"} =>
          /\ left # <<>>
          /\ connection = NoConnection \/ (connection.file = Source(ThisTech) /\ OnItsHost(connection))
          /\ depsRepo = "none" \/ (SetsDepsRepo /\ depsRepo = Source(ThisTech))
    /\ stage = "early" /\ ThisTech \notin GatedTechs => depsRepo = "none"
    /\ stage = "install" /\ ThisTech \in Early => connection # NoConnection
    /\ stage = "install" /\ ThisTech \notin Early => depsRepo = "none"
OwnUses ==
    \A u \in uses : /\ u.tech \in Resolved
                    /\ u.repo = Source(u.tech) \/ (u.step = "install" /\ u.repo = "none")
                    /\ u.repo # "none" => u.host = files[u.repo].host

ResolverInv == /\ left \in Seq(Resolved)
               /\ stage = "idle" => uses = {}
               /\ OwnConnection /\ OwnUses
=============================================================================
