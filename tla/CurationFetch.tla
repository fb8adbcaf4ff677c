--------------------------- MODULE CurationFetch ---------------------------
(***************************************************************************)
(* How `jf curation-audit` asks Artifactory about every package of a       *)
(* project (treeAnalyzer.fetchNodesStatus, fetchNodeStatus and             *)
(* getBlockedPackageDetails in commands/curation/curationaudit.go).        *)
(*                                                                         *)
(* One goroutine produces a task for each node of the flat graph into a    *)
(* runner whose queue holds one task; the runner's workers send a HEAD     *)
(* request for each download URL of the node and, when the package is      *)
(* forbidden, a GET request for the policy.  The first 401 sets the flag   *)
(* cancelled and, a step later, stores the error that the command returns. *)
(***************************************************************************)
EXTENDS Naturals, Sequences, FiniteSets

CONSTANTS
    Node,       \* the nodes of the flat dependency graph
    Root,       \* those that are projects, not packages
    Url,        \* the download URLs
    UrlsOf,     \* the URLs of a node, in the order in which they are tried
    Fetcher,    \* the workers of the runner
    NoNode      \* no task

ASSUME FetchAssumption ==
    /\ Root \subseteq Node
    /\ UrlsOf \in [Node -> Seq(Url)]
    /\ NoNode \notin Node
    /\ "loop" \notin Node /\ "done" \notin Node

\* kind: what the technology changes; explicit: a model was named on the
\* command line; cached: cached packages are asked about as well.
Modes == [kind : {"huggingFace", "nuget", "other"}, explicit : BOOLEAN, cached : BOOLEAN]
NoMode == [kind |-> "other", explicit |-> FALSE, cached |-> FALSE]

\* What came back for a URL: to the HEAD request (available ... failed), and
\* to the GET request that follows a forbidden one (blocked, clean).
Answers == {"available", "forbidden", "unauthorized", "missing", "failed",
            "blocked", "clean"}

VARIABLES
    mode,       \* the options of this audit
    unsent,     \* the nodes the producer has not looked at
    producer,   \* "loop", the node it is adding, or "done"
    queue,      \* the tasks in the runner's channel
    task,       \* what each worker does
    cancelled,  \* treeAnalyzer.cancelled
    authErr,    \* treeAnalyzer.authErr holds an error
    failed,     \* the errors queue holds an error
    answers,    \* the answers so far, as pairs of a URL and an answer
    statuses,   \* the URLs stored in the map of blocked packages
    unresolved, \* hfUnresolvedNodes
    outcome     \* "idle", "fetching", "ok" or "error": what fetchNodesStatus returns

fetchVars == <<mode, unsent, producer, queue, task, cancelled, authErr, failed,
               answers, statuses, unresolved, outcome>>

Tasks == [step : {"idle", "url", "head", "get", "store"}, node : Node \cup {NoNode}, at : Nat]
IdleTask == [step |-> "idle", node |-> NoNode, at |-> 1]

FetchInit ==
    /\ mode = NoMode
    /\ unsent = {}
    /\ producer = "done"
    /\ queue = {}
    /\ task = [w \in Fetcher |-> IdleTask]
    /\ cancelled = FALSE
    /\ authErr = FALSE
    /\ failed = FALSE
    /\ answers = {}
    /\ statuses = {}
    /\ unresolved = {}
    /\ outcome = "idle"

BeginFetch(m) ==
    /\ outcome = "idle"
    /\ mode' = m
    /\ unsent' = Node
    /\ producer' = "loop"
    /\ outcome' = "fetching"
    /\ UNCHANGED <<queue, task, cancelled, authErr, failed, answers, statuses, unresolved>>

-----------------------------------------------------------------------------
(* The producer.                                                           *)

\* The flag is read before the task is added, which may have to wait.
Produce(n) ==
    /\ producer = "loop"
    /\ ~cancelled
    /\ n \in unsent
    /\ unsent' = unsent \ {n}
    /\ producer' = IF n \in Root THEN "loop" ELSE n
    /\ UNCHANGED <<mode, queue, task, cancelled, authErr, failed, answers, statuses,
                   unresolved, outcome>>

AddTask ==
    /\ producer \in Node
    /\ queue = {}
    /\ queue' = {producer}
    /\ producer' = "loop"
    /\ UNCHANGED <<mode, unsent, task, cancelled, authErr, failed, answers, statuses,
                   unresolved, outcome>>

ProducerDone ==
    /\ producer = "loop"
    /\ cancelled \/ unsent = {}
    /\ producer' = "done"
    /\ UNCHANGED <<mode, unsent, queue, task, cancelled, authErr, failed, answers, statuses,
                   unresolved, outcome>>

-----------------------------------------------------------------------------
(* The workers.                                                            *)

UrlAt(w) == UrlsOf[task[w].node][task[w].at]
AtUrl(w) == task[w].step = "url" /\ task[w].at \in DOMAIN UrlsOf[task[w].node]

\* The task ends, or it goes on with the next URL.
EndTask(w)   == task' = [task EXCEPT ![w] = IdleTask]
NextUrl(w)   == task' = [task EXCEPT ![w] = [step |-> "url", node |-> @.node, at |-> @.at + 1]]
GoTo(w, s)   == task' = [task EXCEPT ![w] = [step |-> s, node |-> @.node, at |-> @.at]]
Heard(w, a)  == answers' = answers \cup {<<UrlAt(w), a>>}
\* Faulty variant: the first URL that exists is enough for every package.
ContinueNever(w) == EndTask(w)

\* Alternative versions of a NuGet package: the first that exists is enough.
Continue(w)  == IF mode.kind = "nuget" THEN EndTask(w) ELSE NextUrl(w)

TakeNode(w) ==
    /\ task[w].step = "idle"
    /\ \E n \in queue :
        /\ queue' = queue \ {n}
        /\ task' = [task EXCEPT ![w] = [step |-> "url", node |-> n, at |-> 1]]
    /\ UNCHANGED <<mode, unsent, producer, cancelled, authErr, failed, answers, statuses,
                   unresolved, outcome>>

\* All URLs were tried.  A named model without a URL has an invalid name.
NodeDone(w) ==
    /\ task[w].step = "url"
    /\ ~AtUrl(w)
    /\ failed' = (failed \/ /\ mode.kind = "huggingFace"
                            /\ mode.explicit
                            /\ UrlsOf[task[w].node] = <<>>)
    /\ EndTask(w)
    /\ UNCHANGED <<mode, unsent, producer, queue, cancelled, authErr, answers, statuses,
                   unresolved, outcome>>

Ask(w) ==
    /\ AtUrl(w)
    /\ IF cancelled THEN EndTask(w) ELSE GoTo(w, "head")
    /\ UNCHANGED <<mode, unsent, producer, queue, cancelled, authErr, failed, answers, statuses,
                   unresolved, outcome>>

\* 401: only the worker that sets the flag stores the error.
HeadUnauthorized(w) ==
    /\ task[w].step = "head"
    /\ Heard(w, "unauthorized")
    /\ cancelled' = TRUE
    /\ IF cancelled THEN EndTask(w) ELSE GoTo(w, "store")
    /\ UNCHANGED <<mode, unsent, producer, queue, authErr, failed, statuses, unresolved, outcome>>

StoreAuthErr(w) ==
    /\ task[w].step = "store"
    /\ authErr' = TRUE
    /\ EndTask(w)
    /\ UNCHANGED <<mode, unsent, producer, queue, cancelled, failed, answers, statuses,
                   unresolved, outcome>>

\* 404, which only NuGet and the discovery of Hugging Face models tolerate.
HeadMissing(w) ==
    /\ task[w].step = "head"
    /\ Heard(w, "missing")
    /\ \/ /\ mode.kind = "nuget"
          /\ NextUrl(w)
          /\ UNCHANGED <<failed, unresolved>>
       \/ /\ mode.kind = "huggingFace" /\ ~mode.explicit
          /\ unresolved' = unresolved \cup {task[w].node}
          /\ NextUrl(w)
          /\ UNCHANGED failed
       \/ /\ mode.kind = "other" \/ (mode.kind = "huggingFace" /\ mode.explicit)
          /\ failed' = TRUE
          /\ EndTask(w)
          /\ UNCHANGED unresolved
    /\ UNCHANGED <<mode, unsent, producer, queue, cancelled, authErr, statuses, outcome>>

\* No response, or another status of 400 and above.
HeadFails(w) ==
    /\ task[w].step = "head"
    /\ Heard(w, "failed")
    /\ failed' = TRUE
    /\ EndTask(w)
    /\ UNCHANGED <<mode, unsent, producer, queue, cancelled, authErr, statuses, unresolved, outcome>>

HeadAvailable(w) ==
    /\ task[w].step = "head"
    /\ Heard(w, "available")
    /\ IF mode.cached THEN GoTo(w, "get") ELSE Continue(w)
    /\ UNCHANGED <<mode, unsent, producer, queue, cancelled, authErr, failed, statuses,
                   unresolved, outcome>>

HeadForbidden(w) ==
    /\ task[w].step = "head"
    /\ Heard(w, "forbidden")
    /\ GoTo(w, "get")
    /\ UNCHANGED <<mode, unsent, producer, queue, cancelled, authErr, failed, statuses,
                   unresolved, outcome>>

\* 403: blocked by a policy, or by one that cannot be read.
GetBlocked(w) ==
    /\ task[w].step = "get"
    /\ Heard(w, "blocked")
    /\ statuses' = statuses \cup {UrlAt(w)}
    /\ Continue(w)
    /\ UNCHANGED <<mode, unsent, producer, queue, cancelled, authErr, failed, unresolved, outcome>>

\* Any other response, or a 403 that is not the curation service's.
GetClean(w) ==
    /\ task[w].step = "get"
    /\ Heard(w, "clean")
    /\ Continue(w)
    /\ UNCHANGED <<mode, unsent, producer, queue, cancelled, authErr, failed, statuses,
                   unresolved, outcome>>

GetFails(w) ==
    /\ task[w].step = "get"
    /\ failed' = TRUE
    /\ EndTask(w)
    /\ UNCHANGED <<mode, unsent, producer, queue, cancelled, authErr, answers, statuses,
                   unresolved, outcome>>

\* Faulty variant: only the errors queue is read.
FetchReturnsQueueOnly ==
    /\ outcome = "fetching" /\ producer = "done" /\ queue = {}
    /\ \A w \in Fetcher : task[w].step = "idle"
    /\ outcome' = IF failed THEN "error" ELSE "ok"
    /\ UNCHANGED <<mode, unsent, producer, queue, task, cancelled, authErr, failed, answers,
                   statuses, unresolved>>

\* The runner returned: the errors queue and then authErr are read.
FetchReturns ==
    /\ outcome = "fetching"
    /\ producer = "done"
    /\ queue = {}
    /\ \A w \in Fetcher : task[w].step = "idle"
    /\ outcome' = IF failed \/ authErr THEN "error" ELSE "ok"
    /\ UNCHANGED <<mode, unsent, producer, queue, task, cancelled, authErr, failed, answers,
                   statuses, unresolved>>

Work(w) ==
    \/ TakeNode(w) \/ NodeDone(w) \/ Ask(w)
    \/ HeadUnauthorized(w) \/ StoreAuthErr(w) \/ HeadMissing(w) \/ HeadFails(w)
    \/ HeadAvailable(w) \/ HeadForbidden(w)
    \/ GetBlocked(w) \/ GetClean(w) \/ GetFails(w)

FetchNext ==
    \/ \E m \in Modes : BeginFetch(m)
    \/ \E n \in Node : Produce(n)
    \/ AddTask \/ ProducerDone
    \/ \E w \in Fetcher : Work(w)
    \/ FetchReturns

FetchSpec == FetchInit /\ [][FetchNext]_fetchVars

-----------------------------------------------------------------------------
(* Properties.                                                             *)

\* The variables range over the values the code gives them.
FetchTypeOK ==
    /\ mode \in Modes
    /\ unsent \subseteq Node
    /\ producer \in {"loop", "done"} \cup Node
    /\ queue \subseteq Node
    /\ task \in [Fetcher -> Tasks]
    /\ cancelled \in BOOLEAN /\ authErr \in BOOLEAN /\ failed \in BOOLEAN
    /\ answers \subseteq (Url \X Answers)
    /\ statuses \subseteq Url
    /\ unresolved \subseteq Node
    /\ outcome \in {"idle", "fetching", "ok", "error"}

\* The flag is set before the error is stored, and auditTree drops the report
\* when it finds the flag: the error must be there by then, or an audit that
\* was refused ends like one that found nothing.
RefusalReported == (outcome \in {"ok", "error"} /\ cancelled) => outcome = "error"

Asked(u) == \E a \in Answers : <<u, a>> \in answers
Found(u) == \E a \in Answers \ {"missing"} : <<u, a>> \in answers

\* A node was asked about when each of its URLs was, up to the first that
\* exists when they are alternatives.
FullyAsked(n) ==
    \A i \in DOMAIN UrlsOf[n] :
        \/ Asked(UrlsOf[n][i])
        \/ mode.kind = "nuget" /\ \E j \in 1 .. (i - 1) : Found(UrlsOf[n][j])

\* When the fetch returns no error, every package of the graph was asked about
\* whatever the order of the workers, and each forbidden one is in the map or
\* was found not to be blocked by curation.
NoPackageMissed ==
    outcome = "ok" =>
        /\ \A n \in Node \ Root : FullyAsked(n)
        /\ \A u \in Url : <<u, "forbidden">> \in answers => u \in statuses \/ <<u, "clean">> \in answers

-----------------------------------------------------------------------------
(* The inductive invariant behind the properties.                          *)

Started == outcome # "idle"
Busy(w) == task[w].step # "idle"

\* A busy worker has a node, and a URL of it while it waits for an answer.
TasksSound == \A w \in Fetcher :
    /\ task[w].at >= 1
    /\ Busy(w) => task[w].node \in Node /\ Started
    /\ task[w].step \in {"head", "get"} => task[w].at \in DOMAIN UrlsOf[task[w].node]
    /\ task[w].step = "store" => cancelled

\* Whoever set the flag stores the error or is about to.
RefusalHeld == cancelled => authErr \/ \E w \in Fetcher : task[w].step = "store"

\* Before and after the fetch nothing is in flight.
Quiet == outcome # "fetching" => producer = "done" /\ queue = {} /\ \A w \in Fetcher : ~Busy(w)
Verdict == outcome = "ok" => ~failed /\ ~authErr

\* The URLs before the current one were asked about.
PrefixAsked == \A w \in Fetcher :
    task[w].step \in {"url", "head", "get"} =>
        \A i \in DOMAIN UrlsOf[task[w].node] : i < task[w].at => Asked(UrlsOf[task[w].node][i])

\* A node is waiting, in a worker's hands or done, unless the fetch failed.
Held(n) == \/ n \in unsent \/ producer = n \/ n \in queue
           \/ \E w \in Fetcher : Busy(w) /\ task[w].node = n
NoneLost == Started => cancelled \/ failed \/ \A n \in Node \ Root : Held(n) \/ FullyAsked(n)
ProducedAll == Started /\ producer = "done" => cancelled \/ unsent = {}

\* The policy of a forbidden URL was read or is being read.
ForbiddenHeld == failed \/ \A u \in Url : <<u, "forbidden">> \in answers =>
    \/ u \in statuses \/ <<u, "clean">> \in answers
    \/ \E w \in Fetcher : task[w].step = "get" /\ UrlAt(w) = u

FetchInv == /\ FetchTypeOK /\ TasksSound /\ RefusalHeld /\ Quiet /\ Verdict
            /\ PrefixAsked /\ NoneLost /\ ProducedAll /\ ForbiddenHeld

=============================================================================
