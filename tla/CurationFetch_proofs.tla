------------------------ MODULE CurationFetch_proofs ------------------------
(***************************************************************************)
(* Proofs about CurationFetch, for every graph, every number of workers    *)
(* and every assignment of URLs to nodes, and about CurationResolver: the  *)
(* server and the repository that these requests go to.                    *)
(***************************************************************************)
EXTENDS CurationFetch, CurationResolver, TLAPS

\* Before the command starts nothing is in flight.
LEMMA InitInv == FetchInit => FetchInv
<1> SUFFICES ASSUME FetchInit PROVE FetchInv
  OBVIOUS
<1> USE FetchAssumption DEF FetchInit, IdleTask
<1>1. FetchTypeOK
  BY DEF FetchTypeOK, NoMode, Modes, Tasks
<1>2. TasksSound
  BY DEF TasksSound, Busy, Started
<1>3. RefusalHeld
  BY DEF RefusalHeld
<1>4. Quiet
  BY DEF Quiet, Busy
<1>5. Verdict
  BY DEF Verdict
<1>6. PrefixAsked
  BY DEF PrefixAsked, Asked
<1>7. NoneLost
  BY DEF NoneLost, Held, Busy, Started, FullyAsked, Asked, Found
<1>8. ProducedAll
  BY DEF ProducedAll, Started
<1>9. ForbiddenHeld
  BY DEF ForbiddenHeld, UrlAt
<1> QED
  BY <1>1, <1>2, <1>3, <1>4, <1>5, <1>6, <1>7, <1>8, <1>9 DEF FetchInv

\* Only worker w changes what it does.
OthersStay(w) == task' \in [Fetcher -> Tasks] /\ \A v \in Fetcher \ {w} : task'[v] = task[v]
Ended(w) == OthersStay(w) /\ task'[w].step = "idle" /\ task'[w].at = 1
Moved(w) == /\ OthersStay(w) /\ task'[w].step = "url"
            /\ task'[w].node = task[w].node /\ task'[w].at = task[w].at + 1
Went(w, s) == /\ OthersStay(w) /\ task'[w].step = s
              /\ task'[w].node = task[w].node /\ task'[w].at = task[w].at

\* What the three ways of changing a task do.
LEMMA EndTaskMeans == ASSUME NEW w \in Fetcher, task \in [Fetcher -> Tasks], EndTask(w)
                      PROVE  Ended(w)
  BY DEF EndTask, Ended, OthersStay, IdleTask, Tasks

LEMMA NextUrlMeans == ASSUME NEW w \in Fetcher, task \in [Fetcher -> Tasks], NextUrl(w)
                      PROVE  Moved(w)
  BY DEF NextUrl, Moved, OthersStay, Tasks

LEMMA GoToMeans == ASSUME NEW w \in Fetcher, task \in [Fetcher -> Tasks],
                          NEW s \in {"head", "get", "store"}, GoTo(w, s)
                   PROVE  Went(w, s)
  BY DEF GoTo, Went, OthersStay, Tasks

\* What was asked stays asked.
LEMMA AnswersGrow == ASSUME answers \subseteq answers', mode' = mode
                     PROVE  /\ \A u : (Asked(u) => Asked(u)') /\ (Found(u) => Found(u)')
                            /\ \A n : FullyAsked(n) => FullyAsked(n)'
<1>1. \A u : (Asked(u) => Asked(u)') /\ (Found(u) => Found(u)')
  BY DEF Asked, Found
<1> QED
  BY <1>1 DEF FullyAsked

\* A worker at a URL has one.
LEMMA UrlOfTask == ASSUME FetchTypeOK, TasksSound, NEW w \in Fetcher,
                          task[w].step \in {"head", "get"} \/ AtUrl(w)
                   PROVE  /\ task[w].node \in Node /\ task[w].at \in Nat /\ task[w].at >= 1
                          /\ task[w].at \in DOMAIN UrlsOf[task[w].node] /\ UrlAt(w) \in Url
                          /\ UrlsOf[task[w].node] \in Seq(Url)
<1>1. task[w].node \in Node /\ task[w].at \in Nat /\ task[w].at >= 1
  BY DEF FetchTypeOK, TasksSound, Tasks, Busy, AtUrl
<1>2. UrlsOf[task[w].node] \in Seq(Url)
  BY <1>1, FetchAssumption
<1>3. task[w].at \in DOMAIN UrlsOf[task[w].node]
  BY DEF TasksSound, AtUrl
<1> QED
  BY <1>1, <1>2, <1>3 DEF UrlAt

\* BeginFetch keeps the invariant.
LEMMA BeginFetchKeeps == ASSUME NEW m \in Modes, FetchInv, BeginFetch(m) PROVE FetchInv'
<1> USE FetchAssumption DEF FetchInv, BeginFetch, Modes
<1>1. FetchTypeOK'
  BY DEF FetchTypeOK, Tasks, TasksSound, Busy, Started
<1>2. TasksSound'
  BY DEF FetchTypeOK, TasksSound, Busy, Started, Tasks, Quiet
<1>3. RefusalHeld'
  BY DEF FetchTypeOK, RefusalHeld, Tasks, Quiet, Busy
<1>4. Quiet'
  BY DEF FetchTypeOK, Quiet, Busy, Tasks, TasksSound, Started
<1>5. Verdict'
  BY DEF FetchTypeOK, Verdict, Tasks, Quiet, Busy
<1>6. PrefixAsked'
  BY DEF FetchTypeOK, PrefixAsked, Asked, Tasks, TasksSound, Busy, Started
<1>7. NoneLost'
  BY DEF NoneLost, Held
<1>8. ProducedAll'
  BY DEF FetchTypeOK, ProducedAll, Started, Tasks, Quiet, Busy
<1>9. ForbiddenHeld'
  BY DEF FetchTypeOK, ForbiddenHeld, UrlAt, Tasks, TasksSound, Busy, Started
<1> QED
  BY <1>1, <1>2, <1>3, <1>4, <1>5, <1>6, <1>7, <1>8, <1>9

\* Produce keeps the invariant.
LEMMA ProduceKeeps == ASSUME NEW n \in Node, FetchInv, Produce(n) PROVE FetchInv'
<1> USE FetchAssumption DEF FetchInv, Produce
<1>1. FetchTypeOK'
  BY DEF FetchTypeOK, Tasks, TasksSound, Busy, Started
<1>2. TasksSound'
  BY DEF FetchTypeOK, TasksSound, Busy, Started, Tasks, Quiet
<1>3. RefusalHeld'
  BY DEF FetchTypeOK, RefusalHeld, Tasks, Quiet, Busy
<1>4. Quiet'
  BY DEF FetchTypeOK, Quiet, Busy, Tasks, TasksSound, Started
<1>5. Verdict'
  BY DEF FetchTypeOK, Verdict, Tasks, Quiet, Busy
<1>6. PrefixAsked'
  BY DEF FetchTypeOK, PrefixAsked, Asked, Tasks, TasksSound, Busy, Started
<1>a. \A m : FullyAsked(m) => FullyAsked(m)'
  BY AnswersGrow
<1>7. NoneLost'
  BY <1>a DEF FetchTypeOK, NoneLost, Held, Busy, Started, Quiet, ProducedAll, TasksSound, Tasks
<1>8. ProducedAll'
  BY DEF FetchTypeOK, ProducedAll, Started, Tasks, Quiet, Busy
<1>9. ForbiddenHeld'
  BY DEF FetchTypeOK, ForbiddenHeld, UrlAt, Tasks, TasksSound, Busy, Started
<1> QED
  BY <1>1, <1>2, <1>3, <1>4, <1>5, <1>6, <1>7, <1>8, <1>9

\* AddTask keeps the invariant.
LEMMA AddTaskKeeps == ASSUME FetchInv, AddTask PROVE FetchInv'
<1> USE FetchAssumption DEF FetchInv, AddTask
<1>1. FetchTypeOK'
  BY DEF FetchTypeOK, Tasks, TasksSound, Busy, Started
<1>2. TasksSound'
  BY DEF FetchTypeOK, TasksSound, Busy, Started, Tasks, Quiet
<1>3. RefusalHeld'
  BY DEF FetchTypeOK, RefusalHeld, Tasks, Quiet, Busy
<1>4. Quiet'
  BY DEF FetchTypeOK, Quiet, Busy, Tasks, TasksSound, Started
<1>5. Verdict'
  BY DEF FetchTypeOK, Verdict, Tasks, Quiet, Busy
<1>6. PrefixAsked'
  BY DEF FetchTypeOK, PrefixAsked, Asked, Tasks, TasksSound, Busy, Started
<1>a. \A n : FullyAsked(n) => FullyAsked(n)'
  BY AnswersGrow
<1>7. NoneLost'
  BY <1>a DEF FetchTypeOK, NoneLost, Held, Busy, Started, Quiet, ProducedAll, TasksSound, Tasks
<1>8. ProducedAll'
  BY DEF FetchTypeOK, ProducedAll, Started, Tasks, Quiet, Busy
<1>9. ForbiddenHeld'
  BY DEF FetchTypeOK, ForbiddenHeld, UrlAt, Tasks, TasksSound, Busy, Started
<1> QED
  BY <1>1, <1>2, <1>3, <1>4, <1>5, <1>6, <1>7, <1>8, <1>9

\* ProducerDone keeps the invariant.
LEMMA ProducerDoneKeeps == ASSUME FetchInv, ProducerDone PROVE FetchInv'
<1> USE FetchAssumption DEF FetchInv, ProducerDone
<1>1. FetchTypeOK'
  BY DEF FetchTypeOK, Tasks, TasksSound, Busy, Started
<1>2. TasksSound'
  BY DEF FetchTypeOK, TasksSound, Busy, Started, Tasks, Quiet
<1>3. RefusalHeld'
  BY DEF FetchTypeOK, RefusalHeld, Tasks, Quiet, Busy
<1>4. Quiet'
  BY DEF FetchTypeOK, Quiet, Busy, Tasks, TasksSound, Started
<1>5. Verdict'
  BY DEF FetchTypeOK, Verdict, Tasks, Quiet, Busy
<1>6. PrefixAsked'
  BY DEF FetchTypeOK, PrefixAsked, Asked, Tasks, TasksSound, Busy, Started
<1>a. \A n : FullyAsked(n) => FullyAsked(n)'
  BY AnswersGrow
<1>7. NoneLost'
  BY <1>a DEF FetchTypeOK, NoneLost, Held, Busy, Started, Quiet, ProducedAll, TasksSound, Tasks
<1>8. ProducedAll'
  BY DEF FetchTypeOK, ProducedAll, Started, Tasks, Quiet, Busy
<1>9. ForbiddenHeld'
  BY DEF FetchTypeOK, ForbiddenHeld, UrlAt, Tasks, TasksSound, Busy, Started
<1> QED
  BY <1>1, <1>2, <1>3, <1>4, <1>5, <1>6, <1>7, <1>8, <1>9

\* TakeNode keeps the invariant.
LEMMA TakeNodeKeeps == ASSUME NEW w \in Fetcher, FetchInv, TakeNode(w) PROVE FetchInv'
<1> USE FetchAssumption DEF FetchInv, TakeNode, IdleTask
<1>1. FetchTypeOK'
  BY DEF FetchTypeOK, Tasks, TasksSound, Busy, Started
<1>2. TasksSound'
  BY DEF FetchTypeOK, TasksSound, Busy, Started, Tasks, Quiet
<1>3. RefusalHeld'
  BY DEF FetchTypeOK, RefusalHeld, Tasks, Quiet, Busy
<1>4. Quiet'
  BY DEF FetchTypeOK, Quiet, Busy, Tasks, TasksSound, Started
<1>5. Verdict'
  BY DEF FetchTypeOK, Verdict, Tasks, Quiet, Busy
<1>e. PrefixAsked' <=> \A v \in Fetcher : task'[v].step \in {"url", "head", "get"} =>
        \A i \in DOMAIN UrlsOf[task'[v].node] : i < task'[v].at => Asked(UrlsOf[task'[v].node][i])
  BY DEF PrefixAsked, Asked
<1>6. PrefixAsked'
  BY <1>e DEF FetchTypeOK, PrefixAsked, Tasks
<1>a. \A n : FullyAsked(n) => FullyAsked(n)'
  BY AnswersGrow
<1>7. NoneLost'
  BY <1>a DEF FetchTypeOK, NoneLost, Held, Busy, Started, Quiet, ProducedAll, TasksSound, Tasks
<1>8. ProducedAll'
  BY DEF FetchTypeOK, ProducedAll, Started, Tasks, Quiet, Busy
<1>9. ForbiddenHeld'
  BY DEF FetchTypeOK, ForbiddenHeld, UrlAt, Tasks, TasksSound, Busy, Started
<1> QED
  BY <1>1, <1>2, <1>3, <1>4, <1>5, <1>6, <1>7, <1>8, <1>9

\* NodeDone keeps the invariant.
LEMMA NodeDoneKeeps == ASSUME NEW w \in Fetcher, FetchInv, NodeDone(w) PROVE FetchInv'
<1> USE DEF FetchInv, NodeDone
<1>t. Ended(w)
  BY EndTaskMeans DEF FetchTypeOK
<1>s. /\ task[w] \in Tasks /\ Busy(w) /\ task[w].node \in Node /\ task[w].at \in Nat
      /\ UrlsOf[task[w].node] \in Seq(Url) /\ outcome = "fetching"
  BY FetchAssumption DEF FetchTypeOK, TasksSound, Tasks, Busy, Quiet, AtUrl
<1>a. /\ \A x : (Asked(x) => Asked(x)') /\ (Found(x) => Found(x)')
      /\ \A n : FullyAsked(n) => FullyAsked(n)'
  BY AnswersGrow
<1>1. FetchTypeOK'
  BY <1>t, <1>s, SMTT(30) DEF FetchTypeOK, Ended, Moved, Went, OthersStay, Tasks
<1>2. TasksSound'
  <2>1. ASSUME NEW v \in Fetcher, v # w PROVE task'[v] = task[v]
    BY <2>1, <1>t DEF Ended, Moved, Went, OthersStay
  <2>2. cancelled => cancelled'
    OBVIOUS
  <2>3. /\ task'[w].at \in Nat /\ task'[w].at >= 1 /\ (task'[w].step # "idle" => task'[w].node = task[w].node)
        /\ task'[w].step \in {"head", "get"} => task'[w].at \in DOMAIN UrlsOf[task'[w].node]
        /\ task'[w].step = "store" => cancelled'
    BY <1>t, <1>s DEF TasksSound, Ended, Moved, Went, OthersStay
  <2> QED
    BY <1>s, <2>1, <2>2, <2>3 DEF TasksSound, Busy, Started
<1>3. RefusalHeld'
  BY <1>t, <1>s DEF RefusalHeld, FetchTypeOK, Ended, Moved, Went, OthersStay
<1>4. Quiet' /\ Verdict' /\ ProducedAll'
  BY <1>s DEF Quiet, Verdict, ProducedAll, Started
<1>5. PrefixAsked'
  BY <1>t, <1>s, <1>a DEF PrefixAsked, FetchTypeOK, Tasks, Ended, Moved, Went, OthersStay
<1>b. \A i \in DOMAIN UrlsOf[task[w].node] : i < task[w].at
  <2>1. task[w].at >= 1 /\ task[w].at \notin DOMAIN UrlsOf[task[w].node]
    BY DEF TasksSound, AtUrl
  <2>2. /\ DOMAIN UrlsOf[task[w].node] = 1 .. Len(UrlsOf[task[w].node])
        /\ Len(UrlsOf[task[w].node]) \in Nat
    BY <1>s
  <2> QED
    BY <2>1, <2>2, <1>s
<1>c. FullyAsked(task[w].node)
  BY <1>b DEF PrefixAsked, FullyAsked
<1>d. \A n : n = task[w].node => (FullyAsked(n)')
  BY <1>a, <1>c
<1>6. NoneLost'
  <2> SUFFICES ASSUME NEW n \in Node \ Root, ~cancelled', ~failed'
               PROVE  Held(n)' \/ FullyAsked(n)'
    BY DEF NoneLost
  <2>1. Held(n) \/ FullyAsked(n)
    BY <1>s DEF NoneLost, Started
  <2>2. CASE FullyAsked(n)
    BY <2>2, <1>a
  <2>3. CASE n \in unsent \/ producer = n \/ n \in queue
    BY <2>3 DEF Held
  <2>4. ASSUME NEW v \in Fetcher, v # w, Busy(v), task[v].node = n PROVE Held(n)'
    BY <2>4, <1>t DEF Held, Busy, Ended, Moved, Went, OthersStay
  <2>5. CASE task[w].node = n
    BY <2>5, <1>t, <1>d DEF Held, Busy, TasksSound, RefusalHeld, Ended, Moved, Went, OthersStay
  <2> QED
    BY <2>1, <2>2, <2>3, <2>4, <2>5 DEF Held
<1>7. ForbiddenHeld'
  BY <1>t, <1>s DEF ForbiddenHeld, UrlAt, FetchTypeOK, Ended, Moved, Went, OthersStay
<1> QED
  BY <1>1, <1>2, <1>3, <1>4, <1>5, <1>6, <1>7

\* Ask keeps the invariant.
LEMMA AskKeeps == ASSUME NEW w \in Fetcher, FetchInv, Ask(w) PROVE FetchInv'
<1> USE DEF FetchInv, Ask
<1>t. task[w].step = "url" /\ ((cancelled /\ Ended(w)) \/ Went(w, "head"))
  BY EndTaskMeans, GoToMeans DEF FetchTypeOK, AtUrl
<1>s. /\ task[w] \in Tasks /\ Busy(w) /\ task[w].node \in Node /\ task[w].at \in Nat
      /\ UrlsOf[task[w].node] \in Seq(Url) /\ outcome = "fetching"
  BY FetchAssumption DEF FetchTypeOK, TasksSound, Tasks, Busy, Quiet, AtUrl
<1>u. task[w].at \in DOMAIN UrlsOf[task[w].node] /\ UrlAt(w) \in Url
  BY UrlOfTask
<1>a. /\ \A x : (Asked(x) => Asked(x)') /\ (Found(x) => Found(x)')
      /\ \A n : FullyAsked(n) => FullyAsked(n)'
  BY AnswersGrow
<1>1. FetchTypeOK'
  BY <1>t, <1>u, <1>s, SMTT(30) DEF FetchTypeOK, Ended, Moved, Went, OthersStay, Tasks
<1>2. TasksSound'
  <2>1. ASSUME NEW v \in Fetcher, v # w PROVE task'[v] = task[v]
    BY <2>1, <1>t DEF Ended, Moved, Went, OthersStay
  <2>2. cancelled => cancelled'
    OBVIOUS
  <2>3. /\ task'[w].at \in Nat /\ task'[w].at >= 1 /\ (task'[w].step # "idle" => task'[w].node = task[w].node)
        /\ task'[w].step \in {"head", "get"} => task'[w].at \in DOMAIN UrlsOf[task'[w].node]
        /\ task'[w].step = "store" => cancelled'
    BY <1>t, <1>u, <1>s DEF TasksSound, Ended, Moved, Went, OthersStay
  <2> QED
    BY <1>s, <2>1, <2>2, <2>3 DEF TasksSound, Busy, Started
<1>3. RefusalHeld'
  BY <1>t, <1>s DEF RefusalHeld, FetchTypeOK, Ended, Moved, Went, OthersStay
<1>4. Quiet' /\ Verdict' /\ ProducedAll'
  BY <1>s DEF Quiet, Verdict, ProducedAll, Started
<1>5. PrefixAsked'
  BY <1>t, <1>s, <1>a, <1>u DEF PrefixAsked, FetchTypeOK, Tasks, Ended, Moved, Went, OthersStay
<1>6. NoneLost'
  <2> SUFFICES ASSUME NEW n \in Node \ Root, ~cancelled', ~failed'
               PROVE  Held(n)' \/ FullyAsked(n)'
    BY DEF NoneLost
  <2>1. Held(n) \/ FullyAsked(n)
    BY <1>s DEF NoneLost, Started
  <2>2. CASE FullyAsked(n)
    BY <2>2, <1>a
  <2>3. CASE n \in unsent \/ producer = n \/ n \in queue
    BY <2>3 DEF Held
  <2>4. ASSUME NEW v \in Fetcher, v # w, Busy(v), task[v].node = n PROVE Held(n)'
    BY <2>4, <1>t DEF Held, Busy, Ended, Moved, Went, OthersStay
  <2>5. CASE task[w].node = n
    BY <2>5, <1>t DEF Held, Busy, TasksSound, RefusalHeld, Ended, Moved, Went, OthersStay
  <2> QED
    BY <2>1, <2>2, <2>3, <2>4, <2>5 DEF Held
<1>x. \A v \in Fetcher : task[v].step = "get" => task'[v].step = "get" /\ task'[v].node = task[v].node /\ task'[v].at = task[v].at
  BY <1>t DEF Ended, Moved, Went, OthersStay
<1>7. ForbiddenHeld'
  BY <1>t, <1>s, <1>u, <1>x DEF ForbiddenHeld, UrlAt, FetchTypeOK, Ended, Moved, Went, OthersStay
<1> QED
  BY <1>1, <1>2, <1>3, <1>4, <1>5, <1>6, <1>7

\* HeadUnauthorized keeps the invariant.
LEMMA HeadUnauthorizedKeeps == ASSUME NEW w \in Fetcher, FetchInv, HeadUnauthorized(w) PROVE FetchInv'
<1> USE DEF FetchInv, HeadUnauthorized
<1>t. (cancelled /\ Ended(w)) \/ Went(w, "store")
  BY EndTaskMeans, GoToMeans DEF FetchTypeOK
<1>s. /\ task[w] \in Tasks /\ Busy(w) /\ task[w].node \in Node /\ task[w].at \in Nat
      /\ UrlsOf[task[w].node] \in Seq(Url) /\ outcome = "fetching"
  BY FetchAssumption DEF FetchTypeOK, TasksSound, Tasks, Busy, Quiet
<1>u. task[w].at \in DOMAIN UrlsOf[task[w].node] /\ UrlAt(w) \in Url
  BY UrlOfTask
<1>a. /\ \A x : (Asked(x) => Asked(x)') /\ (Found(x) => Found(x)')
      /\ \A n : FullyAsked(n) => FullyAsked(n)'
  BY AnswersGrow DEF Heard
<1>c. \A x : x = UrlAt(w) => Asked(x)'
  BY DEF Heard, Asked, Found, Answers
<1>1. FetchTypeOK'
  BY <1>t, <1>u, <1>s, SMTT(30) DEF FetchTypeOK, Ended, Moved, Went, OthersStay, Heard, Answers, Tasks
<1>2. TasksSound'
  <2>1. ASSUME NEW v \in Fetcher, v # w PROVE task'[v] = task[v]
    BY <2>1, <1>t DEF Ended, Moved, Went, OthersStay
  <2>2. cancelled => cancelled'
    OBVIOUS
  <2>3. /\ task'[w].at \in Nat /\ task'[w].at >= 1 /\ (task'[w].step # "idle" => task'[w].node = task[w].node)
        /\ task'[w].step \in {"head", "get"} => task'[w].at \in DOMAIN UrlsOf[task'[w].node]
        /\ task'[w].step = "store" => cancelled'
    BY <1>t, <1>u, <1>s DEF TasksSound, Ended, Moved, Went, OthersStay
  <2> QED
    BY <1>s, <2>1, <2>2, <2>3 DEF TasksSound, Busy, Started
<1>3. RefusalHeld'
  BY <1>t, <1>s DEF RefusalHeld, FetchTypeOK, Ended, Moved, Went, OthersStay
<1>4. Quiet' /\ Verdict' /\ ProducedAll'
  BY <1>s DEF Quiet, Verdict, ProducedAll, Started
<1>p. \A n, i : n = task[w].node /\ i \in DOMAIN UrlsOf[n] /\ i <= task[w].at => Asked(UrlsOf[n][i])'
  <2> SUFFICES ASSUME NEW n, NEW i, n = task[w].node, i \in DOMAIN UrlsOf[n], i <= task[w].at
               PROVE  Asked(UrlsOf[n][i])'
    OBVIOUS
  <2>1. CASE i = task[w].at
    BY <2>1, <1>c DEF UrlAt
  <2>2. CASE i < task[w].at
    BY <2>2, <1>a DEF PrefixAsked
  <2>3. i \in Nat
    BY <1>s
  <2> QED
    BY <1>s, <2>1, <2>2, <2>3
<1>5. PrefixAsked'
  <2> SUFFICES ASSUME NEW v \in Fetcher, task'[v].step \in {"url", "head", "get"}, NEW n, n = task'[v].node,
                      NEW i \in DOMAIN UrlsOf[n], i < task'[v].at
               PROVE  Asked(UrlsOf[n][i])'
    BY DEF PrefixAsked, Asked
  <2>1. CASE v # w
    BY <2>1, <1>t, <1>a DEF PrefixAsked, Ended, Moved, Went, OthersStay
  <2>2. CASE v = w
    <3>1. \/ task'[w].node = task[w].node /\ task'[w].at <= task[w].at + 1
          \/ task'[w].at = 1
      BY <1>t, <1>s DEF Ended, Moved, Went, OthersStay
    <3>2. n = task[w].node /\ i \in Nat /\ i <= task[w].at
      BY <2>2, <3>1, <1>t, <1>s DEF Ended, Moved, Went, OthersStay
    <3> QED
      BY <3>2, <1>p
  <2> QED
    BY <2>1, <2>2
<1>6. NoneLost'
  <2> SUFFICES ASSUME NEW n \in Node \ Root, ~cancelled', ~failed'
               PROVE  Held(n)' \/ FullyAsked(n)'
    BY DEF NoneLost
  <2>1. Held(n) \/ FullyAsked(n)
    BY <1>s DEF NoneLost, Started
  <2>2. CASE FullyAsked(n)
    BY <2>2, <1>a
  <2>3. CASE n \in unsent \/ producer = n \/ n \in queue
    BY <2>3 DEF Held
  <2>4. ASSUME NEW v \in Fetcher, v # w, Busy(v), task[v].node = n PROVE Held(n)'
    BY <2>4, <1>t DEF Held, Busy, Ended, Moved, Went, OthersStay
  <2>5. CASE task[w].node = n
    BY <2>5, <1>t DEF Held, Busy, TasksSound, RefusalHeld, Ended, Moved, Went, OthersStay
  <2> QED
    BY <2>1, <2>2, <2>3, <2>4, <2>5 DEF Held
<1>7. ForbiddenHeld'
  BY <1>t, <1>s, <1>u DEF ForbiddenHeld, UrlAt, FetchTypeOK, Ended, Moved, Went, OthersStay, Heard
<1> QED
  BY <1>1, <1>2, <1>3, <1>4, <1>5, <1>6, <1>7

\* StoreAuthErr keeps the invariant.
LEMMA StoreAuthErrKeeps == ASSUME NEW w \in Fetcher, FetchInv, StoreAuthErr(w) PROVE FetchInv'
<1> USE DEF FetchInv, StoreAuthErr
<1>t. Ended(w)
  BY EndTaskMeans DEF FetchTypeOK
<1>s. /\ task[w] \in Tasks /\ Busy(w) /\ task[w].node \in Node /\ task[w].at \in Nat
      /\ UrlsOf[task[w].node] \in Seq(Url) /\ outcome = "fetching"
  BY FetchAssumption DEF FetchTypeOK, TasksSound, Tasks, Busy, Quiet
<1>a. /\ \A x : (Asked(x) => Asked(x)') /\ (Found(x) => Found(x)')
      /\ \A n : FullyAsked(n) => FullyAsked(n)'
  BY AnswersGrow
<1>1. FetchTypeOK'
  BY <1>t, <1>s, SMTT(30) DEF FetchTypeOK, Ended, Moved, Went, OthersStay, Tasks
<1>2. TasksSound'
  <2>1. ASSUME NEW v \in Fetcher, v # w PROVE task'[v] = task[v]
    BY <2>1, <1>t DEF Ended, Moved, Went, OthersStay
  <2>2. cancelled => cancelled'
    OBVIOUS
  <2>3. /\ task'[w].at \in Nat /\ task'[w].at >= 1 /\ (task'[w].step # "idle" => task'[w].node = task[w].node)
        /\ task'[w].step \in {"head", "get"} => task'[w].at \in DOMAIN UrlsOf[task'[w].node]
        /\ task'[w].step = "store" => cancelled'
    BY <1>t, <1>s DEF TasksSound, Ended, Moved, Went, OthersStay
  <2> QED
    BY <1>s, <2>1, <2>2, <2>3 DEF TasksSound, Busy, Started
<1>3. RefusalHeld'
  BY <1>t, <1>s DEF RefusalHeld, FetchTypeOK, Ended, Moved, Went, OthersStay
<1>4. Quiet' /\ Verdict' /\ ProducedAll'
  BY <1>s DEF Quiet, Verdict, ProducedAll, Started
<1>5. PrefixAsked'
  BY <1>t, <1>s, <1>a DEF PrefixAsked, FetchTypeOK, Tasks, Ended, Moved, Went, OthersStay
<1>6. NoneLost'
  <2> SUFFICES ASSUME NEW n \in Node \ Root, ~cancelled', ~failed'
               PROVE  Held(n)' \/ FullyAsked(n)'
    BY DEF NoneLost
  <2>1. Held(n) \/ FullyAsked(n)
    BY <1>s DEF NoneLost, Started
  <2>2. CASE FullyAsked(n)
    BY <2>2, <1>a
  <2>3. CASE n \in unsent \/ producer = n \/ n \in queue
    BY <2>3 DEF Held
  <2>4. ASSUME NEW v \in Fetcher, v # w, Busy(v), task[v].node = n PROVE Held(n)'
    BY <2>4, <1>t DEF Held, Busy, Ended, Moved, Went, OthersStay
  <2>5. CASE task[w].node = n
    BY <2>5, <1>t DEF Held, Busy, TasksSound, RefusalHeld, Ended, Moved, Went, OthersStay
  <2> QED
    BY <2>1, <2>2, <2>3, <2>4, <2>5 DEF Held
<1>7. ForbiddenHeld'
  BY <1>t, <1>s DEF ForbiddenHeld, UrlAt, FetchTypeOK, Ended, Moved, Went, OthersStay
<1> QED
  BY <1>1, <1>2, <1>3, <1>4, <1>5, <1>6, <1>7

\* HeadMissing keeps the invariant.
LEMMA HeadMissingKeeps == ASSUME NEW w \in Fetcher, FetchInv, HeadMissing(w) PROVE FetchInv'
<1> USE DEF FetchInv, HeadMissing
<1>t. (failed' /\ Ended(w)) \/ Moved(w)
  BY EndTaskMeans, NextUrlMeans DEF FetchTypeOK
<1>s. /\ task[w] \in Tasks /\ Busy(w) /\ task[w].node \in Node /\ task[w].at \in Nat
      /\ UrlsOf[task[w].node] \in Seq(Url) /\ outcome = "fetching"
  BY FetchAssumption DEF FetchTypeOK, TasksSound, Tasks, Busy, Quiet
<1>u. task[w].at \in DOMAIN UrlsOf[task[w].node] /\ UrlAt(w) \in Url
  BY UrlOfTask
<1>a. /\ \A x : (Asked(x) => Asked(x)') /\ (Found(x) => Found(x)')
      /\ \A n : FullyAsked(n) => FullyAsked(n)'
  BY AnswersGrow DEF Heard
<1>c. \A x : x = UrlAt(w) => Asked(x)'
  BY DEF Heard, Asked, Found, Answers
<1>v. unresolved' \subseteq Node /\ failed' \in BOOLEAN
  BY <1>s DEF FetchTypeOK
<1>1. FetchTypeOK'
  BY <1>t, <1>u, <1>v, <1>s, SMTT(30) DEF FetchTypeOK, Ended, Moved, Went, OthersStay, Heard, Answers, Tasks
<1>2. TasksSound'
  <2>1. ASSUME NEW v \in Fetcher, v # w PROVE task'[v] = task[v]
    BY <2>1, <1>t DEF Ended, Moved, Went, OthersStay
  <2>2. cancelled => cancelled'
    OBVIOUS
  <2>3. /\ task'[w].at \in Nat /\ task'[w].at >= 1 /\ (task'[w].step # "idle" => task'[w].node = task[w].node)
        /\ task'[w].step \in {"head", "get"} => task'[w].at \in DOMAIN UrlsOf[task'[w].node]
        /\ task'[w].step = "store" => cancelled'
    BY <1>t, <1>u, <1>v, <1>s DEF TasksSound, Ended, Moved, Went, OthersStay
  <2> QED
    BY <1>s, <2>1, <2>2, <2>3 DEF TasksSound, Busy, Started
<1>3. RefusalHeld'
  BY <1>t, <1>s DEF RefusalHeld, FetchTypeOK, Ended, Moved, Went, OthersStay
<1>4. Quiet' /\ Verdict' /\ ProducedAll'
  BY <1>s DEF Quiet, Verdict, ProducedAll, Started
<1>p. \A n, i : n = task[w].node /\ i \in DOMAIN UrlsOf[n] /\ i <= task[w].at => Asked(UrlsOf[n][i])'
  <2> SUFFICES ASSUME NEW n, NEW i, n = task[w].node, i \in DOMAIN UrlsOf[n], i <= task[w].at
               PROVE  Asked(UrlsOf[n][i])'
    OBVIOUS
  <2>1. CASE i = task[w].at
    BY <2>1, <1>c DEF UrlAt
  <2>2. CASE i < task[w].at
    BY <2>2, <1>a DEF PrefixAsked
  <2>3. i \in Nat
    BY <1>s
  <2> QED
    BY <1>s, <2>1, <2>2, <2>3
<1>5. PrefixAsked'
  <2> SUFFICES ASSUME NEW v \in Fetcher, task'[v].step \in {"url", "head", "get"}, NEW n, n = task'[v].node,
                      NEW i \in DOMAIN UrlsOf[n], i < task'[v].at
               PROVE  Asked(UrlsOf[n][i])'
    BY DEF PrefixAsked, Asked
  <2>1. CASE v # w
    BY <2>1, <1>t, <1>a DEF PrefixAsked, Ended, Moved, Went, OthersStay
  <2>2. CASE v = w
    <3>1. \/ task'[w].node = task[w].node /\ task'[w].at <= task[w].at + 1
          \/ task'[w].at = 1
      BY <1>t, <1>s DEF Ended, Moved, Went, OthersStay
    <3>2. n = task[w].node /\ i \in Nat /\ i <= task[w].at
      BY <2>2, <3>1, <1>t, <1>s DEF Ended, Moved, Went, OthersStay
    <3> QED
      BY <3>2, <1>p
  <2> QED
    BY <2>1, <2>2
<1>6. NoneLost'
  <2> SUFFICES ASSUME NEW n \in Node \ Root, ~cancelled', ~failed'
               PROVE  Held(n)' \/ FullyAsked(n)'
    BY DEF NoneLost
  <2>1. Held(n) \/ FullyAsked(n)
    BY <1>s DEF NoneLost, Started
  <2>2. CASE FullyAsked(n)
    BY <2>2, <1>a
  <2>3. CASE n \in unsent \/ producer = n \/ n \in queue
    BY <2>3 DEF Held
  <2>4. ASSUME NEW v \in Fetcher, v # w, Busy(v), task[v].node = n PROVE Held(n)'
    BY <2>4, <1>t DEF Held, Busy, Ended, Moved, Went, OthersStay
  <2>5. CASE task[w].node = n
    BY <2>5, <1>t DEF Held, Busy, TasksSound, RefusalHeld, Ended, Moved, Went, OthersStay
  <2> QED
    BY <2>1, <2>2, <2>3, <2>4, <2>5 DEF Held
<1>7. ForbiddenHeld'
  BY <1>t, <1>s, <1>u, <1>v DEF ForbiddenHeld, UrlAt, FetchTypeOK, Ended, Moved, Went, OthersStay, Heard
<1> QED
  BY <1>1, <1>2, <1>3, <1>4, <1>5, <1>6, <1>7

\* HeadFails keeps the invariant.
LEMMA HeadFailsKeeps == ASSUME NEW w \in Fetcher, FetchInv, HeadFails(w) PROVE FetchInv'
<1> USE DEF FetchInv, HeadFails
<1>t. Ended(w)
  BY EndTaskMeans DEF FetchTypeOK
<1>s. /\ task[w] \in Tasks /\ Busy(w) /\ task[w].node \in Node /\ task[w].at \in Nat
      /\ UrlsOf[task[w].node] \in Seq(Url) /\ outcome = "fetching"
  BY FetchAssumption DEF FetchTypeOK, TasksSound, Tasks, Busy, Quiet
<1>u. task[w].at \in DOMAIN UrlsOf[task[w].node] /\ UrlAt(w) \in Url
  BY UrlOfTask
<1>a. /\ \A x : (Asked(x) => Asked(x)') /\ (Found(x) => Found(x)')
      /\ \A n : FullyAsked(n) => FullyAsked(n)'
  BY AnswersGrow DEF Heard
<1>c. \A x : x = UrlAt(w) => Asked(x)'
  BY DEF Heard, Asked, Found, Answers
<1>1. FetchTypeOK'
  BY <1>t, <1>u, <1>s, SMTT(30) DEF FetchTypeOK, Ended, Moved, Went, OthersStay, Heard, Answers, Tasks
<1>2. TasksSound'
  <2>1. ASSUME NEW v \in Fetcher, v # w PROVE task'[v] = task[v]
    BY <2>1, <1>t DEF Ended, Moved, Went, OthersStay
  <2>2. cancelled => cancelled'
    OBVIOUS
  <2>3. /\ task'[w].at \in Nat /\ task'[w].at >= 1 /\ (task'[w].step # "idle" => task'[w].node = task[w].node)
        /\ task'[w].step \in {"head", "get"} => task'[w].at \in DOMAIN UrlsOf[task'[w].node]
        /\ task'[w].step = "store" => cancelled'
    BY <1>t, <1>u, <1>s DEF TasksSound, Ended, Moved, Went, OthersStay
  <2> QED
    BY <1>s, <2>1, <2>2, <2>3 DEF TasksSound, Busy, Started
<1>3. RefusalHeld'
  BY <1>t, <1>s DEF RefusalHeld, FetchTypeOK, Ended, Moved, Went, OthersStay
<1>4. Quiet' /\ Verdict' /\ ProducedAll'
  BY <1>s DEF Quiet, Verdict, ProducedAll, Started
<1>p. \A n, i : n = task[w].node /\ i \in DOMAIN UrlsOf[n] /\ i <= task[w].at => Asked(UrlsOf[n][i])'
  <2> SUFFICES ASSUME NEW n, NEW i, n = task[w].node, i \in DOMAIN UrlsOf[n], i <= task[w].at
               PROVE  Asked(UrlsOf[n][i])'
    OBVIOUS
  <2>1. CASE i = task[w].at
    BY <2>1, <1>c DEF UrlAt
  <2>2. CASE i < task[w].at
    BY <2>2, <1>a DEF PrefixAsked
  <2>3. i \in Nat
    BY <1>s
  <2> QED
    BY <1>s, <2>1, <2>2, <2>3
<1>5. PrefixAsked'
  <2> SUFFICES ASSUME NEW v \in Fetcher, task'[v].step \in {"url", "head", "get"}, NEW n, n = task'[v].node,
                      NEW i \in DOMAIN UrlsOf[n], i < task'[v].at
               PROVE  Asked(UrlsOf[n][i])'
    BY DEF PrefixAsked, Asked
  <2>1. CASE v # w
    BY <2>1, <1>t, <1>a DEF PrefixAsked, Ended, Moved, Went, OthersStay
  <2>2. CASE v = w
    <3>1. \/ task'[w].node = task[w].node /\ task'[w].at <= task[w].at + 1
          \/ task'[w].at = 1
      BY <1>t, <1>s DEF Ended, Moved, Went, OthersStay
    <3>2. n = task[w].node /\ i \in Nat /\ i <= task[w].at
      BY <2>2, <3>1, <1>t, <1>s DEF Ended, Moved, Went, OthersStay
    <3> QED
      BY <3>2, <1>p
  <2> QED
    BY <2>1, <2>2
<1>6. NoneLost'
  <2> SUFFICES ASSUME NEW n \in Node \ Root, ~cancelled', ~failed'
               PROVE  Held(n)' \/ FullyAsked(n)'
    BY DEF NoneLost
  <2>1. Held(n) \/ FullyAsked(n)
    BY <1>s DEF NoneLost, Started
  <2>2. CASE FullyAsked(n)
    BY <2>2, <1>a
  <2>3. CASE n \in unsent \/ producer = n \/ n \in queue
    BY <2>3 DEF Held
  <2>4. ASSUME NEW v \in Fetcher, v # w, Busy(v), task[v].node = n PROVE Held(n)'
    BY <2>4, <1>t DEF Held, Busy, Ended, Moved, Went, OthersStay
  <2>5. CASE task[w].node = n
    BY <2>5, <1>t DEF Held, Busy, TasksSound, RefusalHeld, Ended, Moved, Went, OthersStay
  <2> QED
    BY <2>1, <2>2, <2>3, <2>4, <2>5 DEF Held
<1>7. ForbiddenHeld'
  BY <1>t, <1>s, <1>u DEF ForbiddenHeld, UrlAt, FetchTypeOK, Ended, Moved, Went, OthersStay, Heard
<1> QED
  BY <1>1, <1>2, <1>3, <1>4, <1>5, <1>6, <1>7

\* HeadAvailable keeps the invariant.
LEMMA HeadAvailableKeeps == ASSUME NEW w \in Fetcher, FetchInv, HeadAvailable(w) PROVE FetchInv'
<1> USE DEF FetchInv, HeadAvailable
<1>t. (mode.kind = "nuget" /\ Ended(w)) \/ Moved(w) \/ Went(w, "get")
  BY EndTaskMeans, NextUrlMeans, GoToMeans DEF FetchTypeOK, Continue
<1>s. /\ task[w] \in Tasks /\ Busy(w) /\ task[w].node \in Node /\ task[w].at \in Nat
      /\ UrlsOf[task[w].node] \in Seq(Url) /\ outcome = "fetching"
  BY FetchAssumption DEF FetchTypeOK, TasksSound, Tasks, Busy, Quiet
<1>u. task[w].at \in DOMAIN UrlsOf[task[w].node] /\ UrlAt(w) \in Url
  BY UrlOfTask
<1>a. /\ \A x : (Asked(x) => Asked(x)') /\ (Found(x) => Found(x)')
      /\ \A n : FullyAsked(n) => FullyAsked(n)'
  BY AnswersGrow DEF Heard
<1>c. \A x : x = UrlAt(w) => Asked(x)' /\ Found(x)'
  BY DEF Heard, Asked, Found, Answers
<1>1. FetchTypeOK'
  BY <1>t, <1>u, <1>s, SMTT(30) DEF FetchTypeOK, Ended, Moved, Went, OthersStay, Heard, Answers, Tasks
<1>2. TasksSound'
  <2>1. ASSUME NEW v \in Fetcher, v # w PROVE task'[v] = task[v]
    BY <2>1, <1>t DEF Ended, Moved, Went, OthersStay
  <2>2. cancelled => cancelled'
    OBVIOUS
  <2>3. /\ task'[w].at \in Nat /\ task'[w].at >= 1 /\ (task'[w].step # "idle" => task'[w].node = task[w].node)
        /\ task'[w].step \in {"head", "get"} => task'[w].at \in DOMAIN UrlsOf[task'[w].node]
        /\ task'[w].step = "store" => cancelled'
    BY <1>t, <1>u, <1>s DEF TasksSound, Ended, Moved, Went, OthersStay
  <2> QED
    BY <1>s, <2>1, <2>2, <2>3 DEF TasksSound, Busy, Started
<1>3. RefusalHeld'
  BY <1>t, <1>s DEF RefusalHeld, FetchTypeOK, Ended, Moved, Went, OthersStay
<1>4. Quiet' /\ Verdict' /\ ProducedAll'
  BY <1>s DEF Quiet, Verdict, ProducedAll, Started
<1>p. \A n, i : n = task[w].node /\ i \in DOMAIN UrlsOf[n] /\ i <= task[w].at => Asked(UrlsOf[n][i])'
  <2> SUFFICES ASSUME NEW n, NEW i, n = task[w].node, i \in DOMAIN UrlsOf[n], i <= task[w].at
               PROVE  Asked(UrlsOf[n][i])'
    OBVIOUS
  <2>1. CASE i = task[w].at
    BY <2>1, <1>c DEF UrlAt
  <2>2. CASE i < task[w].at
    BY <2>2, <1>a DEF PrefixAsked
  <2>3. i \in Nat
    BY <1>s
  <2> QED
    BY <1>s, <2>1, <2>2, <2>3
<1>5. PrefixAsked'
  <2> SUFFICES ASSUME NEW v \in Fetcher, task'[v].step \in {"url", "head", "get"}, NEW n, n = task'[v].node,
                      NEW i \in DOMAIN UrlsOf[n], i < task'[v].at
               PROVE  Asked(UrlsOf[n][i])'
    BY DEF PrefixAsked, Asked
  <2>1. CASE v # w
    BY <2>1, <1>t, <1>a DEF PrefixAsked, Ended, Moved, Went, OthersStay
  <2>2. CASE v = w
    <3>1. \/ task'[w].node = task[w].node /\ task'[w].at <= task[w].at + 1
          \/ task'[w].at = 1
      BY <1>t, <1>s DEF Ended, Moved, Went, OthersStay
    <3>2. n = task[w].node /\ i \in Nat /\ i <= task[w].at
      BY <2>2, <3>1, <1>t, <1>s DEF Ended, Moved, Went, OthersStay
    <3> QED
      BY <3>2, <1>p
  <2> QED
    BY <2>1, <2>2
<1>d. \A n : n = task[w].node => (mode.kind = "nuget" => FullyAsked(n)')
  BY <1>s, <1>a, <1>u, <1>c, <1>p DEF PrefixAsked, FullyAsked, FetchTypeOK, TasksSound, Tasks, UrlAt
<1>6. NoneLost'
  <2> SUFFICES ASSUME NEW n \in Node \ Root, ~cancelled', ~failed'
               PROVE  Held(n)' \/ FullyAsked(n)'
    BY DEF NoneLost
  <2>1. Held(n) \/ FullyAsked(n)
    BY <1>s DEF NoneLost, Started
  <2>2. CASE FullyAsked(n)
    BY <2>2, <1>a
  <2>3. CASE n \in unsent \/ producer = n \/ n \in queue
    BY <2>3 DEF Held
  <2>4. ASSUME NEW v \in Fetcher, v # w, Busy(v), task[v].node = n PROVE Held(n)'
    BY <2>4, <1>t DEF Held, Busy, Ended, Moved, Went, OthersStay
  <2>5. CASE task[w].node = n
    BY <2>5, <1>t, <1>d DEF Held, Busy, TasksSound, RefusalHeld, Ended, Moved, Went, OthersStay
  <2> QED
    BY <2>1, <2>2, <2>3, <2>4, <2>5 DEF Held
<1>7. ForbiddenHeld'
  BY <1>t, <1>s, <1>u DEF ForbiddenHeld, UrlAt, FetchTypeOK, Ended, Moved, Went, OthersStay, Heard
<1> QED
  BY <1>1, <1>2, <1>3, <1>4, <1>5, <1>6, <1>7

\* HeadForbidden keeps the invariant.
LEMMA HeadForbiddenKeeps == ASSUME NEW w \in Fetcher, FetchInv, HeadForbidden(w) PROVE FetchInv'
<1> USE DEF FetchInv, HeadForbidden
<1>t. Went(w, "get")
  BY GoToMeans DEF FetchTypeOK
<1>s. /\ task[w] \in Tasks /\ Busy(w) /\ task[w].node \in Node /\ task[w].at \in Nat
      /\ UrlsOf[task[w].node] \in Seq(Url) /\ outcome = "fetching"
  BY FetchAssumption DEF FetchTypeOK, TasksSound, Tasks, Busy, Quiet
<1>u. task[w].at \in DOMAIN UrlsOf[task[w].node] /\ UrlAt(w) \in Url
  BY UrlOfTask
<1>a. /\ \A x : (Asked(x) => Asked(x)') /\ (Found(x) => Found(x)')
      /\ \A n : FullyAsked(n) => FullyAsked(n)'
  BY AnswersGrow DEF Heard
<1>c. \A x : x = UrlAt(w) => Asked(x)' /\ Found(x)'
  BY DEF Heard, Asked, Found, Answers
<1>1. FetchTypeOK'
  BY <1>t, <1>u, <1>s, SMTT(30) DEF FetchTypeOK, Ended, Moved, Went, OthersStay, Heard, Answers, Tasks
<1>2. TasksSound'
  <2>1. ASSUME NEW v \in Fetcher, v # w PROVE task'[v] = task[v]
    BY <2>1, <1>t DEF Ended, Moved, Went, OthersStay
  <2>2. cancelled => cancelled'
    OBVIOUS
  <2>3. /\ task'[w].at \in Nat /\ task'[w].at >= 1 /\ (task'[w].step # "idle" => task'[w].node = task[w].node)
        /\ task'[w].step \in {"head", "get"} => task'[w].at \in DOMAIN UrlsOf[task'[w].node]
        /\ task'[w].step = "store" => cancelled'
    BY <1>t, <1>u, <1>s DEF TasksSound, Ended, Moved, Went, OthersStay
  <2> QED
    BY <1>s, <2>1, <2>2, <2>3 DEF TasksSound, Busy, Started
<1>3. RefusalHeld'
  BY <1>t, <1>s DEF RefusalHeld, FetchTypeOK, Ended, Moved, Went, OthersStay
<1>4. Quiet' /\ Verdict' /\ ProducedAll'
  BY <1>s DEF Quiet, Verdict, ProducedAll, Started
<1>p. \A n, i : n = task[w].node /\ i \in DOMAIN UrlsOf[n] /\ i <= task[w].at => Asked(UrlsOf[n][i])'
  <2> SUFFICES ASSUME NEW n, NEW i, n = task[w].node, i \in DOMAIN UrlsOf[n], i <= task[w].at
               PROVE  Asked(UrlsOf[n][i])'
    OBVIOUS
  <2>1. CASE i = task[w].at
    BY <2>1, <1>c DEF UrlAt
  <2>2. CASE i < task[w].at
    BY <2>2, <1>a DEF PrefixAsked
  <2>3. i \in Nat
    BY <1>s
  <2> QED
    BY <1>s, <2>1, <2>2, <2>3
<1>5. PrefixAsked'
  <2> SUFFICES ASSUME NEW v \in Fetcher, task'[v].step \in {"url", "head", "get"}, NEW n, n = task'[v].node,
                      NEW i \in DOMAIN UrlsOf[n], i < task'[v].at
               PROVE  Asked(UrlsOf[n][i])'
    BY DEF PrefixAsked, Asked
  <2>1. CASE v # w
    BY <2>1, <1>t, <1>a DEF PrefixAsked, Ended, Moved, Went, OthersStay
  <2>2. CASE v = w
    <3>1. \/ task'[w].node = task[w].node /\ task'[w].at <= task[w].at + 1
          \/ task'[w].at = 1
      BY <1>t, <1>s DEF Ended, Moved, Went, OthersStay
    <3>2. n = task[w].node /\ i \in Nat /\ i <= task[w].at
      BY <2>2, <3>1, <1>t, <1>s DEF Ended, Moved, Went, OthersStay
    <3> QED
      BY <3>2, <1>p
  <2> QED
    BY <2>1, <2>2
<1>6. NoneLost'
  <2> SUFFICES ASSUME NEW n \in Node \ Root, ~cancelled', ~failed'
               PROVE  Held(n)' \/ FullyAsked(n)'
    BY DEF NoneLost
  <2>1. Held(n) \/ FullyAsked(n)
    BY <1>s DEF NoneLost, Started
  <2>2. CASE FullyAsked(n)
    BY <2>2, <1>a
  <2>3. CASE n \in unsent \/ producer = n \/ n \in queue
    BY <2>3 DEF Held
  <2>4. ASSUME NEW v \in Fetcher, v # w, Busy(v), task[v].node = n PROVE Held(n)'
    BY <2>4, <1>t DEF Held, Busy, Ended, Moved, Went, OthersStay
  <2>5. CASE task[w].node = n
    BY <2>5, <1>t DEF Held, Busy, TasksSound, RefusalHeld, Ended, Moved, Went, OthersStay
  <2> QED
    BY <2>1, <2>2, <2>3, <2>4, <2>5 DEF Held
<1>x. \A v \in Fetcher : task[v].step = "get" => task'[v].step = "get" /\ task'[v].node = task[v].node /\ task'[v].at = task[v].at
  BY <1>t DEF Ended, Moved, Went, OthersStay
<1>7. ForbiddenHeld'
  BY <1>t, <1>s, <1>u, <1>x DEF ForbiddenHeld, UrlAt, FetchTypeOK, Ended, Moved, Went, OthersStay, Heard
<1> QED
  BY <1>1, <1>2, <1>3, <1>4, <1>5, <1>6, <1>7

\* GetBlocked keeps the invariant.
LEMMA GetBlockedKeeps == ASSUME NEW w \in Fetcher, FetchInv, GetBlocked(w) PROVE FetchInv'
<1> USE DEF FetchInv, GetBlocked
<1>t. (mode.kind = "nuget" /\ Ended(w)) \/ Moved(w)
  BY EndTaskMeans, NextUrlMeans DEF FetchTypeOK, Continue
<1>s. /\ task[w] \in Tasks /\ Busy(w) /\ task[w].node \in Node /\ task[w].at \in Nat
      /\ UrlsOf[task[w].node] \in Seq(Url) /\ outcome = "fetching"
  BY FetchAssumption DEF FetchTypeOK, TasksSound, Tasks, Busy, Quiet
<1>u. task[w].at \in DOMAIN UrlsOf[task[w].node] /\ UrlAt(w) \in Url
  BY UrlOfTask
<1>a. /\ \A x : (Asked(x) => Asked(x)') /\ (Found(x) => Found(x)')
      /\ \A n : FullyAsked(n) => FullyAsked(n)'
  BY AnswersGrow DEF Heard
<1>c. \A x : x = UrlAt(w) => Asked(x)' /\ Found(x)'
  BY DEF Heard, Asked, Found, Answers
<1>1. FetchTypeOK'
  BY <1>t, <1>u, <1>s, SMTT(30) DEF FetchTypeOK, Ended, Moved, Went, OthersStay, Heard, Answers, Tasks
<1>2. TasksSound'
  <2>1. ASSUME NEW v \in Fetcher, v # w PROVE task'[v] = task[v]
    BY <2>1, <1>t DEF Ended, Moved, Went, OthersStay
  <2>2. cancelled => cancelled'
    OBVIOUS
  <2>3. /\ task'[w].at \in Nat /\ task'[w].at >= 1 /\ (task'[w].step # "idle" => task'[w].node = task[w].node)
        /\ task'[w].step \in {"head", "get"} => task'[w].at \in DOMAIN UrlsOf[task'[w].node]
        /\ task'[w].step = "store" => cancelled'
    BY <1>t, <1>u, <1>s DEF TasksSound, Ended, Moved, Went, OthersStay
  <2> QED
    BY <1>s, <2>1, <2>2, <2>3 DEF TasksSound, Busy, Started
<1>3. RefusalHeld'
  BY <1>t, <1>s DEF RefusalHeld, FetchTypeOK, Ended, Moved, Went, OthersStay
<1>4. Quiet' /\ Verdict' /\ ProducedAll'
  BY <1>s DEF Quiet, Verdict, ProducedAll, Started
<1>p. \A n, i : n = task[w].node /\ i \in DOMAIN UrlsOf[n] /\ i <= task[w].at => Asked(UrlsOf[n][i])'
  <2> SUFFICES ASSUME NEW n, NEW i, n = task[w].node, i \in DOMAIN UrlsOf[n], i <= task[w].at
               PROVE  Asked(UrlsOf[n][i])'
    OBVIOUS
  <2>1. CASE i = task[w].at
    BY <2>1, <1>c DEF UrlAt
  <2>2. CASE i < task[w].at
    BY <2>2, <1>a DEF PrefixAsked
  <2>3. i \in Nat
    BY <1>s
  <2> QED
    BY <1>s, <2>1, <2>2, <2>3
<1>5. PrefixAsked'
  <2> SUFFICES ASSUME NEW v \in Fetcher, task'[v].step \in {"url", "head", "get"}, NEW n, n = task'[v].node,
                      NEW i \in DOMAIN UrlsOf[n], i < task'[v].at
               PROVE  Asked(UrlsOf[n][i])'
    BY DEF PrefixAsked, Asked
  <2>1. CASE v # w
    BY <2>1, <1>t, <1>a DEF PrefixAsked, Ended, Moved, Went, OthersStay
  <2>2. CASE v = w
    <3>1. \/ task'[w].node = task[w].node /\ task'[w].at <= task[w].at + 1
          \/ task'[w].at = 1
      BY <1>t, <1>s DEF Ended, Moved, Went, OthersStay
    <3>2. n = task[w].node /\ i \in Nat /\ i <= task[w].at
      BY <2>2, <3>1, <1>t, <1>s DEF Ended, Moved, Went, OthersStay
    <3> QED
      BY <3>2, <1>p
  <2> QED
    BY <2>1, <2>2
<1>d. \A n : n = task[w].node => (mode.kind = "nuget" => FullyAsked(n)')
  BY <1>s, <1>a, <1>u, <1>c, <1>p DEF PrefixAsked, FullyAsked, FetchTypeOK, TasksSound, Tasks, UrlAt
<1>6. NoneLost'
  <2> SUFFICES ASSUME NEW n \in Node \ Root, ~cancelled', ~failed'
               PROVE  Held(n)' \/ FullyAsked(n)'
    BY DEF NoneLost
  <2>1. Held(n) \/ FullyAsked(n)
    BY <1>s DEF NoneLost, Started
  <2>2. CASE FullyAsked(n)
    BY <2>2, <1>a
  <2>3. CASE n \in unsent \/ producer = n \/ n \in queue
    BY <2>3 DEF Held
  <2>4. ASSUME NEW v \in Fetcher, v # w, Busy(v), task[v].node = n PROVE Held(n)'
    BY <2>4, <1>t DEF Held, Busy, Ended, Moved, Went, OthersStay
  <2>5. CASE task[w].node = n
    BY <2>5, <1>t, <1>d DEF Held, Busy, TasksSound, RefusalHeld, Ended, Moved, Went, OthersStay
  <2> QED
    BY <2>1, <2>2, <2>3, <2>4, <2>5 DEF Held
<1>7. ForbiddenHeld'
  BY <1>t, <1>s, <1>u DEF ForbiddenHeld, UrlAt, FetchTypeOK, Ended, Moved, Went, OthersStay, Heard
<1> QED
  BY <1>1, <1>2, <1>3, <1>4, <1>5, <1>6, <1>7

\* GetClean keeps the invariant.
LEMMA GetCleanKeeps == ASSUME NEW w \in Fetcher, FetchInv, GetClean(w) PROVE FetchInv'
<1> USE DEF FetchInv, GetClean
<1>t. (mode.kind = "nuget" /\ Ended(w)) \/ Moved(w)
  BY EndTaskMeans, NextUrlMeans DEF FetchTypeOK, Continue
<1>s. /\ task[w] \in Tasks /\ Busy(w) /\ task[w].node \in Node /\ task[w].at \in Nat
      /\ UrlsOf[task[w].node] \in Seq(Url) /\ outcome = "fetching"
  BY FetchAssumption DEF FetchTypeOK, TasksSound, Tasks, Busy, Quiet
<1>u. task[w].at \in DOMAIN UrlsOf[task[w].node] /\ UrlAt(w) \in Url
  BY UrlOfTask
<1>a. /\ \A x : (Asked(x) => Asked(x)') /\ (Found(x) => Found(x)')
      /\ \A n : FullyAsked(n) => FullyAsked(n)'
  BY AnswersGrow DEF Heard
<1>c. \A x : x = UrlAt(w) => Asked(x)' /\ Found(x)'
  BY DEF Heard, Asked, Found, Answers
<1>1. FetchTypeOK'
  BY <1>t, <1>u, <1>s, SMTT(30) DEF FetchTypeOK, Ended, Moved, Went, OthersStay, Heard, Answers, Tasks
<1>2. TasksSound'
  <2>1. ASSUME NEW v \in Fetcher, v # w PROVE task'[v] = task[v]
    BY <2>1, <1>t DEF Ended, Moved, Went, OthersStay
  <2>2. cancelled => cancelled'
    OBVIOUS
  <2>3. /\ task'[w].at \in Nat /\ task'[w].at >= 1 /\ (task'[w].step # "idle" => task'[w].node = task[w].node)
        /\ task'[w].step \in {"head", "get"} => task'[w].at \in DOMAIN UrlsOf[task'[w].node]
        /\ task'[w].step = "store" => cancelled'
    BY <1>t, <1>u, <1>s DEF TasksSound, Ended, Moved, Went, OthersStay
  <2> QED
    BY <1>s, <2>1, <2>2, <2>3 DEF TasksSound, Busy, Started
<1>3. RefusalHeld'
  BY <1>t, <1>s DEF RefusalHeld, FetchTypeOK, Ended, Moved, Went, OthersStay
<1>4. Quiet' /\ Verdict' /\ ProducedAll'
  BY <1>s DEF Quiet, Verdict, ProducedAll, Started
<1>p. \A n, i : n = task[w].node /\ i \in DOMAIN UrlsOf[n] /\ i <= task[w].at => Asked(UrlsOf[n][i])'
  <2> SUFFICES ASSUME NEW n, NEW i, n = task[w].node, i \in DOMAIN UrlsOf[n], i <= task[w].at
               PROVE  Asked(UrlsOf[n][i])'
    OBVIOUS
  <2>1. CASE i = task[w].at
    BY <2>1, <1>c DEF UrlAt
  <2>2. CASE i < task[w].at
    BY <2>2, <1>a DEF PrefixAsked
  <2>3. i \in Nat
    BY <1>s
  <2> QED
    BY <1>s, <2>1, <2>2, <2>3
<1>5. PrefixAsked'
  <2> SUFFICES ASSUME NEW v \in Fetcher, task'[v].step \in {"url", "head", "get"}, NEW n, n = task'[v].node,
                      NEW i \in DOMAIN UrlsOf[n], i < task'[v].at
               PROVE  Asked(UrlsOf[n][i])'
    BY DEF PrefixAsked, Asked
  <2>1. CASE v # w
    BY <2>1, <1>t, <1>a DEF PrefixAsked, Ended, Moved, Went, OthersStay
  <2>2. CASE v = w
    <3>1. \/ task'[w].node = task[w].node /\ task'[w].at <= task[w].at + 1
          \/ task'[w].at = 1
      BY <1>t, <1>s DEF Ended, Moved, Went, OthersStay
    <3>2. n = task[w].node /\ i \in Nat /\ i <= task[w].at
      BY <2>2, <3>1, <1>t, <1>s DEF Ended, Moved, Went, OthersStay
    <3> QED
      BY <3>2, <1>p
  <2> QED
    BY <2>1, <2>2
<1>d. \A n : n = task[w].node => (mode.kind = "nuget" => FullyAsked(n)')
  BY <1>s, <1>a, <1>u, <1>c, <1>p DEF PrefixAsked, FullyAsked, FetchTypeOK, TasksSound, Tasks, UrlAt
<1>6. NoneLost'
  <2> SUFFICES ASSUME NEW n \in Node \ Root, ~cancelled', ~failed'
               PROVE  Held(n)' \/ FullyAsked(n)'
    BY DEF NoneLost
  <2>1. Held(n) \/ FullyAsked(n)
    BY <1>s DEF NoneLost, Started
  <2>2. CASE FullyAsked(n)
    BY <2>2, <1>a
  <2>3. CASE n \in unsent \/ producer = n \/ n \in queue
    BY <2>3 DEF Held
  <2>4. ASSUME NEW v \in Fetcher, v # w, Busy(v), task[v].node = n PROVE Held(n)'
    BY <2>4, <1>t DEF Held, Busy, Ended, Moved, Went, OthersStay
  <2>5. CASE task[w].node = n
    BY <2>5, <1>t, <1>d DEF Held, Busy, TasksSound, RefusalHeld, Ended, Moved, Went, OthersStay
  <2> QED
    BY <2>1, <2>2, <2>3, <2>4, <2>5 DEF Held
<1>7. ForbiddenHeld'
  BY <1>t, <1>s, <1>u DEF ForbiddenHeld, UrlAt, FetchTypeOK, Ended, Moved, Went, OthersStay, Heard
<1> QED
  BY <1>1, <1>2, <1>3, <1>4, <1>5, <1>6, <1>7

\* GetFails keeps the invariant.
LEMMA GetFailsKeeps == ASSUME NEW w \in Fetcher, FetchInv, GetFails(w) PROVE FetchInv'
<1> USE DEF FetchInv, GetFails
<1>t. Ended(w)
  BY EndTaskMeans DEF FetchTypeOK
<1>s. /\ task[w] \in Tasks /\ Busy(w) /\ task[w].node \in Node /\ task[w].at \in Nat
      /\ UrlsOf[task[w].node] \in Seq(Url) /\ outcome = "fetching"
  BY FetchAssumption DEF FetchTypeOK, TasksSound, Tasks, Busy, Quiet
<1>u. task[w].at \in DOMAIN UrlsOf[task[w].node] /\ UrlAt(w) \in Url
  BY UrlOfTask
<1>a. /\ \A x : (Asked(x) => Asked(x)') /\ (Found(x) => Found(x)')
      /\ \A n : FullyAsked(n) => FullyAsked(n)'
  BY AnswersGrow
<1>1. FetchTypeOK'
  BY <1>t, <1>u, <1>s, SMTT(30) DEF FetchTypeOK, Ended, Moved, Went, OthersStay, Tasks
<1>2. TasksSound'
  <2>1. ASSUME NEW v \in Fetcher, v # w PROVE task'[v] = task[v]
    BY <2>1, <1>t DEF Ended, Moved, Went, OthersStay
  <2>2. cancelled => cancelled'
    OBVIOUS
  <2>3. /\ task'[w].at \in Nat /\ task'[w].at >= 1 /\ (task'[w].step # "idle" => task'[w].node = task[w].node)
        /\ task'[w].step \in {"head", "get"} => task'[w].at \in DOMAIN UrlsOf[task'[w].node]
        /\ task'[w].step = "store" => cancelled'
    BY <1>t, <1>u, <1>s DEF TasksSound, Ended, Moved, Went, OthersStay
  <2> QED
    BY <1>s, <2>1, <2>2, <2>3 DEF TasksSound, Busy, Started
<1>3. RefusalHeld'
  BY <1>t, <1>s DEF RefusalHeld, FetchTypeOK, Ended, Moved, Went, OthersStay
<1>4. Quiet' /\ Verdict' /\ ProducedAll'
  BY <1>s DEF Quiet, Verdict, ProducedAll, Started
<1>5. PrefixAsked'
  BY <1>t, <1>s, <1>a, <1>u DEF PrefixAsked, FetchTypeOK, Tasks, Ended, Moved, Went, OthersStay
<1>6. NoneLost'
  <2> SUFFICES ASSUME NEW n \in Node \ Root, ~cancelled', ~failed'
               PROVE  Held(n)' \/ FullyAsked(n)'
    BY DEF NoneLost
  <2>1. Held(n) \/ FullyAsked(n)
    BY <1>s DEF NoneLost, Started
  <2>2. CASE FullyAsked(n)
    BY <2>2, <1>a
  <2>3. CASE n \in unsent \/ producer = n \/ n \in queue
    BY <2>3 DEF Held
  <2>4. ASSUME NEW v \in Fetcher, v # w, Busy(v), task[v].node = n PROVE Held(n)'
    BY <2>4, <1>t DEF Held, Busy, Ended, Moved, Went, OthersStay
  <2>5. CASE task[w].node = n
    BY <2>5, <1>t DEF Held, Busy, TasksSound, RefusalHeld, Ended, Moved, Went, OthersStay
  <2> QED
    BY <2>1, <2>2, <2>3, <2>4, <2>5 DEF Held
<1>7. ForbiddenHeld'
  BY <1>t, <1>s, <1>u DEF ForbiddenHeld, UrlAt, FetchTypeOK, Ended, Moved, Went, OthersStay
<1> QED
  BY <1>1, <1>2, <1>3, <1>4, <1>5, <1>6, <1>7

\* FetchReturns keeps the invariant.
LEMMA FetchReturnsKeeps == ASSUME FetchInv, FetchReturns PROVE FetchInv'
<1> USE FetchAssumption DEF FetchInv, FetchReturns
<1>1. FetchTypeOK'
  BY DEF FetchTypeOK, Tasks, TasksSound, Busy, Started
<1>2. TasksSound'
  BY DEF FetchTypeOK, TasksSound, Busy, Started, Tasks, Quiet
<1>3. RefusalHeld'
  BY DEF FetchTypeOK, RefusalHeld, Tasks, Quiet, Busy
<1>4. Quiet'
  BY DEF FetchTypeOK, Quiet, Busy, Tasks, TasksSound, Started
<1>5. Verdict'
  BY DEF FetchTypeOK, Verdict, Tasks, Quiet, Busy
<1>6. PrefixAsked'
  BY DEF FetchTypeOK, PrefixAsked, Asked, Tasks, TasksSound, Busy, Started
<1>a. \A n : FullyAsked(n) => FullyAsked(n)'
  BY AnswersGrow
<1>7. NoneLost'
  BY <1>a DEF FetchTypeOK, NoneLost, Held, Busy, Started, Quiet, ProducedAll, TasksSound, Tasks
<1>8. ProducedAll'
  BY DEF FetchTypeOK, ProducedAll, Started, Tasks, Quiet, Busy
<1>9. ForbiddenHeld'
  BY DEF FetchTypeOK, ForbiddenHeld, UrlAt, Tasks, TasksSound, Busy, Started
<1> QED
  BY <1>1, <1>2, <1>3, <1>4, <1>5, <1>6, <1>7, <1>8, <1>9

\* Every step of the specification keeps the invariant.
LEMMA StepInv == FetchInv /\ [FetchNext]_fetchVars => FetchInv'
<1> SUFFICES ASSUME FetchInv, [FetchNext]_fetchVars PROVE FetchInv'
  OBVIOUS
<1>1. CASE \E m \in Modes : BeginFetch(m)
  BY <1>1, BeginFetchKeeps
<1>2. CASE \E n \in Node : Produce(n)
  BY <1>2, ProduceKeeps
<1>3. CASE AddTask \/ ProducerDone
  BY <1>3, AddTaskKeeps, ProducerDoneKeeps
<1>4. ASSUME NEW w \in Fetcher, Work(w) PROVE FetchInv'
  BY <1>4, TakeNodeKeeps, NodeDoneKeeps, AskKeeps, HeadUnauthorizedKeeps, StoreAuthErrKeeps,
     HeadMissingKeeps, HeadFailsKeeps, HeadAvailableKeeps, HeadForbiddenKeeps, GetBlockedKeeps,
     GetCleanKeeps, GetFailsKeeps DEF Work
<1>5. CASE FetchReturns
  BY <1>5, FetchReturnsKeeps
<1>6. CASE UNCHANGED fetchVars
  BY <1>6 DEF fetchVars, FetchInv, FetchTypeOK, TasksSound, RefusalHeld, Quiet, Verdict, PrefixAsked,
      NoneLost, ProducedAll, ForbiddenHeld, Started, Busy, Held, FullyAsked, Asked, Found, UrlAt
<1> QED
  BY <1>1, <1>2, <1>3, <1>4, <1>5, <1>6 DEF FetchNext

\* The invariant holds throughout the fetch, whatever the graph and however
\* many workers the runner has.
THEOREM FetchInvariant == FetchSpec => []FetchInv
  BY InitInv, StepInv, PTL DEF FetchSpec

\* The variables always have the types of the code.
THEOREM FetchTypes == FetchSpec => []FetchTypeOK
<1>1. FetchInv => FetchTypeOK
  BY DEF FetchInv
<1> QED
  BY <1>1, FetchInvariant, PTL

\* A 401 is never lost between the flag and the error: whenever fetchNodesStatus
\* returns with the flag set, it returns the error.
THEOREM RefusalIsReported == FetchSpec => []RefusalReported
<1>1. FetchInv => RefusalReported
  BY DEF FetchInv, RefusalReported, RefusalHeld, Quiet, Verdict, Busy
<1> QED
  BY <1>1, FetchInvariant, PTL

\* Returning without an error means that every package was asked about and
\* every forbidden one is in the map or known not to be curation's.
THEOREM NothingIsMissed == FetchSpec => []NoPackageMissed
<1>1. FetchInv => NoPackageMissed
  <2> SUFFICES ASSUME FetchInv, outcome = "ok" PROVE NoPackageMissed
    BY DEF NoPackageMissed
  <2>1. ~failed /\ ~authErr /\ Started /\ producer = "done" /\ queue = {} /\ \A w \in Fetcher : ~Busy(w)
    BY DEF FetchInv, Verdict, Quiet, Started
  <2>2. ~cancelled
    BY <2>1 DEF FetchInv, RefusalHeld, Busy
  <2>3. \A n \in Node \ Root : FullyAsked(n)
    BY <2>1, <2>2, FetchAssumption DEF FetchInv, NoneLost, ProducedAll, Held
  <2>4. \A u \in Url : <<u, "forbidden">> \in answers => u \in statuses \/ <<u, "clean">> \in answers
    BY <2>1 DEF FetchInv, ForbiddenHeld, Busy
  <2> QED
    BY <2>3, <2>4 DEF NoPackageMissed
<1> QED
  BY <1>1, FetchInvariant, PTL


-----------------------------------------------------------------------------
(* CurationResolver: every layout of configuration files, every list of     *)
(* technologies whose routes are modelled.                                  *)

\* Every route of a technology leads to one file.
LEMMA RouteSource ==
  ASSUME ThisTech \in Resolved
  PROVE  \A c \in Routes : c.file = Source(ThisTech)
<1> SUFFICES ASSUME NEW c \in Routes PROVE c.file = Source(ThisTech)
  OBVIOUS
<1> USE DEF Routes, Source, Own, Shared, NativeYarn
<1>1. CASE ThisTech \in {"npm", "yarn", "go"}
  BY <1>1 DEF setRepoFromNpmrc, Sibling, getRepoParams, OwnOrShared
<1>2. CASE ThisTech \in {"pnpm", "uv", "cargo", "huggingFace"}
  BY <1>2 DEF OwnOrShared, Lending, Borrowed, huggingFaceConfig
<1>3. CASE ThisTech = "pip"
  BY <1>3 DEF setRepoFromPipConf, getRepoParams, Borrowed
<1>4. CASE ThisTech = "pipenv"
  BY <1>4 DEF setRepoFromPipfile
<1>5. CASE ThisTech = "poetry"
  BY <1>5 DEF setRepoFromPyproject, Borrowed
<1> QED BY <1>1, <1>2, <1>3, <1>4, <1>5 DEF Resolved

\* It is one of the technology's own.
LEMMA SourceNamed ==
  ASSUME NEW t \in Resolved
  PROVE  Source(t) \in SourcesOf(t) /\ Source(t) # "none"
BY DEF Resolved, Source, SourcesOf

\* What the technology's yaml file says comes from there too.
LEMMA YamlSource ==
  ASSUME ~ReadsItsOwn
  PROVE  \A c \in Yaml : c.file = Source(ThisTech)
<1> USE DEF Yaml, Source, getRepoParams, Own, ReadsItsOwn, NativeYarn
<1>1. CASE ThisTech = "npm"
  BY <1>1
<1>2. CASE ThisTech = "yarn"
  BY <1>2 DEF Sibling
<1>3. CASE ThisTech = "go"
  BY <1>3
<1>4. CASE ThisTech \notin {"npm", "yarn", "go"}
  BY <1>4
<1> QED BY <1>1, <1>2, <1>3, <1>4

\* On the host that file names.
LEMMA RouteHost ==
  ASSUME ThisTech \in Resolved
  PROVE  \A c \in Routes \cup Yaml : OnItsHost(c)
<1>1. \A c \in Yaml : OnItsHost(c)
  BY DEF Yaml, Sibling, getRepoParams, Own, OnItsHost
<1>2. \A f : OnItsHost(Own(f)) /\ OnItsHost(Shared(f))
  BY DEF Own, Shared, OnItsHost
<1>3. \A f : \A c \in Borrowed(f) \cup OwnOrShared(f) \cup Lending(f) \cup getRepoParams(f) : OnItsHost(c)
  BY <1>2 DEF Borrowed, OwnOrShared, Lending, getRepoParams
<1>4. \A c \in setRepoFromPipConf \cup setRepoFromPyproject \cup setRepoFromNpmrc : OnItsHost(c)
  BY <1>2, <1>3 DEF setRepoFromPipConf, setRepoFromPyproject, setRepoFromNpmrc
<1>5. \A c \in setRepoFromPipfile : OnItsHost(c)
  <2> DEFINE target == IF Has("pip.conf") THEN "pip.conf" ELSE "Pipfile"
             order  == <<files["Pipfile"].creds, files[target].creds>>
             first  == IF order[1] # "none" THEN order[1] ELSE order[2]
             creds  == CASE first = "own" -> "own"
                         [] first = "none" /\ files[target].host = serverHost -> "jf"
                         [] OTHER -> "none"
  <2>1. setRepoFromPipfile \subseteq {[Own(target) EXCEPT !.creds = creds]}
    BY DEF setRepoFromPipfile
  <2>2. \A x : OnItsHost([Own(target) EXCEPT !.creds = x])
    <3> HIDE DEF target
    <3> QED BY DEF Own, OnItsHost
  <2> HIDE DEF target, creds
  <2> QED BY <2>1, <2>2
<1>6. \A f, g : \A c \in Sibling(f, g) : OnItsHost(c)
  BY <1>3 DEF Sibling
<1>7. \A c \in Routes : OnItsHost(c)
  BY <1>3, <1>4, <1>5, <1>6 DEF Routes, huggingFaceConfig, Resolved, NativeYarn
<1> QED BY <1>1, <1>7

\* The files do not change while a directory is audited.
LEMMA SourceStays ==
  ASSUME UNCHANGED <<files, flags>>
  PROVE  \A t : Source(t)' = Source(t)
BY DEF Source, Has

\* Nor do the hosts they name.
LEMMA HostStays ==
  ASSUME UNCHANGED <<files, connection>>
  PROVE  OnItsHost(connection)' = OnItsHost(connection)
BY DEF OnItsHost

\* A list that goes on has a technology at its head.
LEMMA CurrentTech ==
  ASSUME left \in Seq(Resolved), left # <<>>
  PROVE  ThisTech \in Resolved /\ Tail(left) \in Seq(Resolved)
BY DEF ThisTech

\* What EnsureConnection leaves: the connection that was there, or one from the file.
LEMMA Resolves ==
  ASSUME ThisTech \in Resolved, UNCHANGED files,
         connection = NoConnection \/ (connection.file = Source(ThisTech) /\ OnItsHost(connection)),
         depsRepo = "none" \/ (SetsDepsRepo /\ depsRepo = Source(ThisTech)),
         EnsureConnection \/ \E c \in Routes : Connect(c)
  PROVE  /\ connection' # NoConnection /\ connection'.file = Source(ThisTech) /\ OnItsHost(connection)'
         /\ depsRepo' = "none" \/ (SetsDepsRepo /\ depsRepo' = Source(ThisTech))
<1>1. Source(ThisTech) # "none"
  BY SourceNamed
<1>2. ASSUME NEW c \in Routes, Connect(c)
      PROVE  /\ connection' # NoConnection /\ connection'.file = Source(ThisTech) /\ OnItsHost(connection)'
             /\ depsRepo' = "none" \/ (SetsDepsRepo /\ depsRepo' = Source(ThisTech))
  <2>1. c.file = Source(ThisTech) /\ OnItsHost(c) /\ connection' = c
    BY <1>2, RouteSource, RouteHost DEF Connect
  <2>2. OnItsHost(connection)'
    BY <2>1 DEF OnItsHost
  <2> QED BY <1>1, <1>2, <2>1, <2>2 DEF Connect, NoConnection
<1>3. CASE UNCHANGED <<connection, serverHost, depsRepo>> /\ connection # NoConnection
  BY <1>3 DEF OnItsHost
<1> QED BY <1>2, <1>3 DEF EnsureConnection

\* What was used stays its own if the files do.
LEMMA UsesStay ==
  ASSUME OwnUses, UNCHANGED <<files, flags, uses>>
  PROVE  OwnUses'
<1>1. \A t : Source(t)' = Source(t)
  BY SourceStays
<1> QED BY <1>1 DEF OwnUses

\* The steps of the command keep the invariant.
LEMMA BeginStep ==
  ASSUME ResolverInv, Lists \subseteq Seq(Resolved), stage = "idle",
         NEW layout \in Layouts, NEW f \in Flags, NEW list \in Lists, BeginResolving(layout, f, list)
  PROVE  ResolverInv'
BY DEF ResolverInv, OwnConnection, OwnUses, BeginResolving

LEMMA CheckStep ==
  ASSUME ResolverInv, CheckSupport
  PROVE  ResolverInv'
<1> USE DEF ResolverInv, OwnConnection, CheckSupport
<1>1. ThisTech \in Resolved /\ ThisTech' = ThisTech /\ UNCHANGED files /\ \A t : Source(t)' = Source(t)
  BY CurrentTech, SourceStays DEF ThisTech
<1>2. SetsDepsRepo' = SetsDepsRepo
  BY <1>1 DEF SetsDepsRepo, NativeYarn
<1>3. CASE ThisTech \in GatedTechs /\ flags.gate
  <2>1. /\ connection' # NoConnection /\ connection'.file = Source(ThisTech) /\ OnItsHost(connection)'
        /\ depsRepo' = "none" \/ (SetsDepsRepo /\ depsRepo' = Source(ThisTech))
    BY <1>1, <1>3, Resolves
  <2> QED BY <1>1, <1>2, <1>3, <2>1, UsesStay
<1>4. CASE ~(ThisTech \in GatedTechs /\ flags.gate)
  BY <1>1, <1>2, <1>4, UsesStay, HostStays
<1> QED BY <1>3, <1>4

LEMMA PrepareStep ==
  ASSUME ResolverInv, PrepareTech
  PROVE  ResolverInv'
<1> USE DEF ResolverInv, OwnConnection
<1>1. stage = "early" /\ stage' = "install" /\ UNCHANGED <<files, flags, left, uses>>
  BY DEF PrepareTech
<1>2. ThisTech \in Resolved /\ ThisTech' = ThisTech /\ \A t : Source(t)' = Source(t)
  BY <1>1, CurrentTech, SourceStays DEF ThisTech
<1>3. SetsDepsRepo' = SetsDepsRepo
  BY <1>1, <1>2 DEF SetsDepsRepo, NativeYarn
<1>4. CASE ThisTech \in Early
  <2>1. EnsureConnection \/ \E c \in Routes : Connect(c)
    BY <1>4 DEF PrepareTech, Early
  <2>2. /\ connection' # NoConnection /\ connection'.file = Source(ThisTech) /\ OnItsHost(connection)'
        /\ depsRepo' = "none" \/ (SetsDepsRepo /\ depsRepo' = Source(ThisTech))
    BY <1>1, <1>2, <2>1, Resolves
  <2> QED BY <1>1, <1>2, <1>3, <1>4, <2>2, UsesStay
<1>5. CASE ThisTech \notin Early
  <2>0. UNCHANGED <<connection, serverHost, depsRepo>>
    BY <1>5 DEF PrepareTech, Early
  <2>1. UNCHANGED <<connection, depsRepo>> /\ OnItsHost(connection)' = OnItsHost(connection)
    BY <1>1, <2>0, HostStays
  <2>2. depsRepo = "none"
    BY <1>1, <1>5 DEF GatedTechs, Early, SetsDepsRepo, NativeYarn
  <2> QED BY <1>1, <1>2, <1>3, <1>5, <2>1, <2>2, UsesStay
<1> QED BY <1>4, <1>5

LEMMA InstallStep ==
  ASSUME ResolverInv, Install
  PROVE  ResolverInv'
<1> USE DEF ResolverInv, OwnConnection
<1>1. /\ stage = "install" /\ stage' = "probe"
      /\ UNCHANGED <<files, flags, left, serverHost, connection, depsRepo>>
      /\ uses' = uses \cup {Use("install", InstallThrough, InstallThrough.file)}
  BY DEF Install
<1>2. ThisTech \in Resolved /\ ThisTech' = ThisTech /\ \A t : Source(t)' = Source(t)
  BY <1>1, CurrentTech, SourceStays DEF ThisTech
<1>3. SetsDepsRepo' = SetsDepsRepo
  BY <1>1, <1>2 DEF SetsDepsRepo, NativeYarn
<1>4. InstallThrough.file \in {Source(ThisTech), "none"}
  <2>1. CASE ThisTech \in Early
    BY <1>1, <2>1 DEF InstallThrough
  <2>2. CASE ThisTech \notin Early /\ Yaml # {} /\ ~ReadsItsOwn
    <3>1. (CHOOSE c \in Yaml : TRUE) \in Yaml
      BY <2>2
    <3> QED BY <1>1, <2>2, <3>1, YamlSource DEF InstallThrough
  <2>3. CASE ThisTech \notin Early /\ ~(Yaml # {} /\ ~ReadsItsOwn)
    BY <1>1, <2>3 DEF InstallThrough
  <2> QED BY <2>1, <2>2, <2>3
<1>5. InstallThrough.file # "none" => InstallThrough.host = files[InstallThrough.file].host
  <2>1. CASE ThisTech \in Early
    BY <1>1, <2>1 DEF InstallThrough, OnItsHost
  <2>2. CASE ThisTech \notin Early /\ Yaml # {} /\ ~ReadsItsOwn
    <3>1. (CHOOSE c \in Yaml : TRUE) \in Yaml
      BY <2>2
    <3>2. OnItsHost(CHOOSE c \in Yaml : TRUE)
      BY <1>2, <3>1, RouteHost, Zenon
    <3>3. depsRepo = "none"
      BY <1>1, <2>2
    <3>4. InstallThrough = CHOOSE c \in Yaml : TRUE
      BY <2>2, <3>3 DEF InstallThrough
    <3> QED BY <3>2, <3>4 DEF OnItsHost
  <2>3. CASE ThisTech \notin Early /\ ~(Yaml # {} /\ ~ReadsItsOwn)
    BY <1>1, <2>3 DEF InstallThrough
  <2> QED BY <2>1, <2>2, <2>3
<1>6. OwnUses'
  BY <1>1, <1>2, <1>4, <1>5 DEF Use, OwnUses
<1>7. OnItsHost(connection)' = OnItsHost(connection)
  BY <1>1, HostStays
<1> QED BY <1>1, <1>2, <1>3, <1>6, <1>7

LEMMA ProbeStep ==
  ASSUME ResolverInv, ProbeVersions
  PROVE  ResolverInv'
<1> USE DEF ResolverInv, OwnConnection
<1>1. /\ stage = "probe" /\ stage' = "gate" /\ UNCHANGED <<files, flags>>
      /\ connection' = NoConnection /\ depsRepo' = "none" /\ left' = Tail(left)
  BY DEF ProbeVersions
<1>2. ThisTech \in Resolved /\ left' \in Seq(Resolved) /\ \A t : Source(t)' = Source(t)
  BY <1>1, CurrentTech, SourceStays
<1>3. PICK c \in IF connection = NoConnection THEN Routes ELSE {connection} :
         uses' = uses \cup {Use("probe", c, c.file)}
  BY DEF ProbeVersions
<1>4. c.file = Source(ThisTech) /\ c.host = files[c.file].host
  BY <1>1, <1>2, <1>3, RouteSource, RouteHost DEF OnItsHost
<1>5. OwnUses'
  BY <1>1, <1>2, <1>3, <1>4 DEF Use, OwnUses
<1> QED BY <1>1, <1>2, <1>5

LEMMA FailStep ==
  ASSUME ResolverInv, ResolutionFails
  PROVE  ResolverInv'
<1>1. left \in Seq(Resolved) /\ OwnUses
  BY DEF ResolverInv
<1>2. /\ UNCHANGED <<files, flags, uses>>
      /\ left' = Tail(left) \/ left' = <<>>
      /\ stage' = "done" \/ (stage' = "gate" /\ connection' = NoConnection /\ depsRepo' = "none")
  BY DEF ResolutionFails
<1>3. left # <<>>
  BY DEF ResolutionFails, ResolverInv, OwnConnection
<1>4. left' \in Seq(Resolved)
  <2>1. Tail(left) \in Seq(Resolved)
    BY <1>1, <1>3, CurrentTech
  <2>2. <<>> \in Seq(Resolved)
    OBVIOUS
  <2> QED BY <1>2, <2>1, <2>2
<1>5. OwnConnection'
  BY <1>2 DEF OwnConnection
<1> QED BY <1>1, <1>2, <1>4, <1>5, UsesStay DEF ResolverInv

LEMMA ResolverStep ==
  ASSUME Lists \subseteq Seq(Resolved), ResolverInv, [ResolverNext]_resolverVars
  PROVE  ResolverInv'
<1>1. CASE ListDone
  <2>1. \A t : Source(t)' = Source(t)
    BY <1>1, SourceStays DEF ListDone
  <2> QED BY <1>1, <2>1, UsesStay DEF ResolverInv, OwnConnection, ListDone
<1>2. CASE UNCHANGED resolverVars
  <2>1. /\ ThisTech' = ThisTech /\ SetsDepsRepo' = SetsDepsRepo /\ \A t : Source(t)' = Source(t)
        /\ OnItsHost(connection)' = OnItsHost(connection)
    BY <1>2, SourceStays, HostStays DEF resolverVars, ThisTech, SetsDepsRepo, NativeYarn
  <2> QED BY <1>2, <2>1, UsesStay DEF ResolverInv, OwnConnection, resolverVars
<1> QED
  BY <1>1, <1>2, BeginStep, CheckStep, PrepareStep, InstallStep, ProbeStep, FailStep DEF ResolverNext

\* Whatever was audited before it and whatever its files say, a technology is
\* installed from and probed in the repository of its own configuration.
THEOREM RepositoriesAreOwn ==
  ASSUME Lists \subseteq Seq(Resolved)
  PROVE  ResolverSpec => []OwnRepository
<1>1. ResolverInit => ResolverInv
  BY DEF ResolverInit, ResolverInv, OwnConnection, OwnUses
<1>2. ResolverInv /\ [ResolverNext]_resolverVars => ResolverInv'
  BY ResolverStep
<1>3. ResolverInv => OwnRepository
  BY SourceNamed DEF ResolverInv, OwnUses, OwnRepository
<1> QED BY <1>1, <1>2, <1>3, PTL DEF ResolverSpec
=============================================================================
