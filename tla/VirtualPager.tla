---------------------------- MODULE VirtualPager ----------------------------
(***************************************************************************)
(* virtual.Pager as its goroutines see it: the task tokens and the byte    *)
(* budget, reads of pages and windows through the page cache, publications *)
(* and provider refreshes that compete for the next generation, progress   *)
(* reports, and the shared close.                                          *)
(*                                                                         *)
(* One action is one critical section under p.mu (or o.mu), one channel    *)
(* operation, or one piece of code between two of them.  A Context may be  *)
(* cancelled at any moment, and the code looks at it only at some points;  *)
(* an early return for that reason is always possible there, as is one for *)
(* a failing read or provider.  The Session always installs an observer.   *)
(***************************************************************************)
EXTENDS PageLayout

CONSTANTS
    Callers,              \* goroutines of the host
    Calls,                \* of each caller: the kinds of calls it makes
    Closers,              \* goroutines of the host that close the Pager
    Sources,              \* texts a Pager is built for
    Offered,              \* publications hosts and providers come with
    Requests,             \* read requests: kind, index or offset, budget
    MaximumTasks,         \* Options.MaximumTasks
    MaximumInflightBytes, \* Options.MaximumInflightBytes
    CacheBytes,           \* Options.CacheBytes, 0 if disabled
    MaxGeneration,        \* bound standing for math.MaxUint64
    MaxOperations,        \* bound standing for math.MaxUint64
    Samples,              \* texts and
    Publications,         \* publications whose layout is compared with its
    Spans, Budgets        \* reference, through windows of these sizes

ASSUME PagerAssumption ==
    /\ IsFiniteSet(Callers)
    /\ \A source \in Sources : source \in Seq(DOMAIN Width)
    /\ \A pub \in Offered :
          /\ pub.through \in Int
          /\ pub.fragments \in Seq([id : DOMAIN KeyBytes, start : Int, end : Int,
                                   measure : Int])
    /\ \A r \in Requests : /\ r.kind \in {"page", "byte", "fragment", "measure"}
                           /\ r.kind # "page" => ValidBudget(r.budget)
    /\ MaximumTasks \in Nat \ {0} /\ CacheBytes \in Nat
    /\ MaxGeneration \in Nat /\ MaxOperations \in Nat
    /\ MaximumInflightBytes \in Nat /\ MaximumInflightBytes >= WindowLimit.bytes
    /\ \A b \in Budgets : ValidBudget(b)

VARIABLES
    text,        \* the immutable source
    phase,       \* "building", "rebuilding", "serving", or "failed" to build
    state,       \* p.state
    pc, req,     \* of each caller: where it is, and its arguments and locals
    op,          \* of each caller: the progressOperation of its call, to
                 \* which a provider may still report when the call ends
    tasks,       \* tokens in p.tasks
    inflight,    \* p.activeInflightBytes
    cache,       \* p.cacheList, most recently used first; p.cacheBytes is
                 \* the sum of its entries
    nextOp,      \* p.nextOperationID
    closed,      \* p.closed, set together with p.closing
    closer,      \* where finishClose is
    releases,    \* calls of p.release
    author       \* history variable: operation that published a generation

resources == <<tasks, inflight, cache>>
shutdown == <<closed, closer, releases>>
vars == <<text, phase, state, pc, req, op, resources, nextOp, shutdown, author>>

NoReq == [kind |-> "none"]
NoOp == [id |-> 0, stage |-> "none", through |-> 0, count |-> 0,
         published |-> 0, reporting |-> FALSE, broken |-> FALSE]
Goto(c, label) == pc' = [pc EXCEPT ![c] = label]

Init ==
    /\ text \in Sources
    /\ phase = "building"
    /\ state = PagerState(text, 0, Unpublished)
    /\ pc = [c \in Callers \cup Closers |-> "idle"] /\ req = [c \in Callers |-> NoReq]
    /\ op = [c \in Callers |-> NoOp]
    /\ tasks = 0 /\ inflight = 0 /\ cache = <<>>
    /\ nextOp = 0
    /\ closed = FALSE /\ closer = "none" /\ releases = 0
    /\ author = [g \in 1..MaxGeneration |-> 0]

-----------------------------------------------------------------------------
\* Build, Rebuild

\* BuildOwned, for a new Pager or without a provider.
Build ==
    /\ phase = "building"
    /\ phase' = "serving"
    /\ UNCHANGED <<text, state, pc, req, op, resources, nextOp, shutdown, author>>

\* The scan fails: the source is closed again and there is no Pager.
BuildFails ==
    /\ phase = "building"
    /\ phase' = "failed" /\ releases' = releases + 1
    /\ UNCHANGED <<text, state, pc, req, op, resources, nextOp, closed, closer, author>>

\* acquireTask: ErrClosed and ErrBusy leave nothing behind.
Admit == ~closed /\ tasks < MaximumTasks /\ tasks' = tasks + 1

\* finishRebuild refreshes the Pager before anybody else has it.
Rebuild(c) ==
    /\ phase = "building" /\ "rebuild" \in Calls[c] /\ Admit
    /\ phase' = "rebuilding"
    /\ req' = [req EXCEPT ![c] = [kind |-> "rebuild", pub |-> Unpublished,
                                  base |-> 0, next |-> NoReq, ok |-> FALSE]]
    /\ Goto(c, "start")
    /\ UNCHANGED <<text, state, op, inflight, cache, nextOp,
                   shutdown, author>>

-----------------------------------------------------------------------------
\* The end of a task

\* The deferred finish: a token is taken out of p.tasks ...
LeaveTask(c) ==
    /\ pc[c] = "leave"
    /\ tasks' = tasks - 1
    /\ Goto(c, "wake")
    /\ op' = [op EXCEPT ![c] = NoOp]
    /\ req' = [req EXCEPT ![c] =
          IF @.kind = "rebuild" THEN [kind |-> @.kind, ok |-> @.ok] ELSE NoReq]
    /\ UNCHANGED <<text, phase, state, inflight, cache, nextOp, shutdown,
                   author>>

\* Mutant: the closer is not woken.
WakeNobody(c) ==
    /\ pc[c] = "wake"
    /\ Goto(c, IF req[c].kind = "rebuild" /\ ~req[c].ok THEN "discard" ELSE "idle")
    /\ phase' = IF req[c].kind = "rebuild" /\ req[c].ok THEN "serving" ELSE phase
    /\ req' = [req EXCEPT ![c] = NoReq]
    /\ UNCHANGED <<text, state, op, resources, nextOp, shutdown, author>>

\* Mutant: the closer goes on when it is woken, without looking again.
WakeReleases(c) ==
    /\ pc[c] = "wake"
    /\ closer' = IF closer = "parked" THEN "release" ELSE closer
    /\ Goto(c, IF req[c].kind = "rebuild" /\ ~req[c].ok THEN "discard" ELSE "idle")
    /\ phase' = IF req[c].kind = "rebuild" /\ req[c].ok THEN "serving" ELSE phase
    /\ req' = [req EXCEPT ![c] = NoReq]
    /\ UNCHANGED <<text, state, op, resources, nextOp, closed, releases, author>>

\* ... and then p.taskCond is broadcast, under p.mu.  A rebuilt Pager is
\* handed out, or closed if its refresh failed.
Wake(c) ==
    /\ pc[c] = "wake"
    /\ closer' = IF closer = "parked" THEN "check" ELSE closer
    /\ Goto(c, IF req[c].kind = "rebuild" /\ ~req[c].ok THEN "discard" ELSE "idle")
    /\ phase' = IF req[c].kind = "rebuild" /\ req[c].ok THEN "serving" ELSE phase
    /\ req' = [req EXCEPT ![c] = NoReq]
    /\ UNCHANGED <<text, state, op, resources, nextOp, closed, releases, author>>

-----------------------------------------------------------------------------
\* ReadPage, WindowByByte, WindowByFragment, WindowByMeasure

\* A request carries the generation its host last saw.
ReadBegin(c, r, generation) ==
    /\ phase = "serving" /\ "read" \in Calls[c] /\ pc[c] = "idle" /\ Admit
    /\ req' = [req EXCEPT ![c] = [kind |-> "read", request |-> r,
                                  base |-> generation]]
    /\ Goto(c, "capture")
    /\ UNCHANGED <<text, phase, state, op, inflight, cache, nextOp, shutdown,
                   author>>

\* Pages first..last of a request, or a refusal; ReadPage is a range of one.
RangeOf(r) ==
    LET f == state.fragments
        named == {i \in DOMAIN f : r.kind = "fragment" /\ f[i].id = r.id}
        refused == [status |-> "invalid"]
    IN  CASE r.kind = "page" ->
               IF r.index \notin DOMAIN state.pages THEN refused
               ELSE [status |-> "ok", first |-> r.index, last |-> r.index]
          [] r.kind = "byte" ->
               IF r.offset > Length(text) THEN refused
               ELSE WindowByByte(state, Length(text), r.offset, r.before,
                                 r.after, r.budget)
          [] r.kind = "fragment" ->
               IF named = {} THEN refused
               ELSE WindowByFragment(state, Min(named), r.continuation,
                                     r.before, r.after, r.budget)
          [] r.kind = "measure" ->
               IF f = <<>> \/ r.offset > TotalMeasure(f) THEN refused
               ELSE WindowByMeasure(state, r.offset, r.affinity, r.before,
                                    r.after, r.budget)

\* ReadPage reserves its page, a window its whole byte budget.
Reservation(r) ==
    IF r.kind = "page" THEN state.pages[r.index].end - state.pages[r.index].start
    ELSE r.budget.bytes

\* capture: the whole call reads from one state, whatever p.state becomes.
ReadCapture(c) ==
    /\ pc[c] = "capture"
    /\ LET r == req[c].request
           range == RangeOf(r)
       IN  \/ Goto(c, "leave") /\ req' = [req EXCEPT ![c] = NoReq]
           \/ /\ ~closed /\ req[c].base = state.generation
              /\ range.status = "ok"
              /\ req' = [req EXCEPT ![c] =
                    [kind |-> "read", view |-> state, at |-> range.first,
                     last |-> range.last, bytes |-> Reservation(r)]]
              /\ Goto(c, "reserve")
    /\ UNCHANGED <<text, phase, state, op, resources, nextOp, shutdown, author>>

\* Mutant: the budget is compared without what is reserved already.
ReadReserveAlone(c) ==
    /\ pc[c] = "reserve"
    /\ IF ~closed /\ req[c].bytes <= MaximumInflightBytes
       THEN inflight' = inflight + req[c].bytes /\ Goto(c, "lookup") /\ UNCHANGED req
       ELSE Goto(c, "leave") /\ req' = [req EXCEPT ![c] = NoReq] /\ UNCHANGED inflight
    /\ UNCHANGED <<text, phase, state, op, tasks, cache, nextOp, shutdown, author>>

\* reserveInflight
ReadReserve(c) ==
    /\ pc[c] = "reserve"
    /\ IF ~closed /\ req[c].bytes <= MaximumInflightBytes - inflight
       THEN inflight' = inflight + req[c].bytes /\ Goto(c, "lookup") /\ UNCHANGED req
       ELSE Goto(c, "leave") /\ req' = [req EXCEPT ![c] = NoReq] /\ UNCHANGED inflight
    /\ UNCHANGED <<text, phase, state, op, tasks, cache, nextOp, shutdown, author>>

Key(c) == [generation |-> req[c].view.generation, index |-> req[c].at]
PageBytes(c) ==
    LET page == req[c].view.pages[req[c].at] IN page.end - page.start
Advance(c) ==
    IF req[c].at = req[c].last THEN Goto(c, "unreserve") /\ UNCHANGED req
    ELSE Goto(c, "lookup") /\ req' = [req EXCEPT ![c].at = @ + 1]

\* cached: a hit moves the entry to the front of the list.
ReadLookup(c) ==
    /\ pc[c] = "lookup"
    /\ \/ /\ ~closed /\ \E i \in DOMAIN cache : cache[i].key = Key(c)
          /\ LET hit == CHOOSE i \in DOMAIN cache : cache[i].key = Key(c)
             IN  cache' = <<cache[hit]>> \o RemoveAt(cache, hit)
          /\ Advance(c)
       \/ /\ closed \/ \A i \in DOMAIN cache : cache[i].key # Key(c)
          /\ Goto(c, "fill") /\ UNCHANGED <<req, cache>>
       \/ Goto(c, "unreserve") /\ UNCHANGED <<req, cache>>
    /\ UNCHANGED <<text, phase, state, op, tasks, inflight, nextOp,
                   shutdown, author>>

CachedBytes(entries) == FoldSeq(LAMBDA e, sum : e.bytes + sum, 0, entries)

\* Evictions from the back while the budget is exceeded.
Evict(entries) ==
    SubSeq(entries, 1, Max({n \in 0..Len(entries) :
                              CachedBytes(SubSeq(entries, 1, n)) <= CacheBytes}))

\* The early returns of storeCache.
MayStore(view, bytes) ==
    CacheBytes # 0 /\ bytes <= CacheBytes /\ ~closed /\ view = state

\* storeCache
StoreCache(c) ==
    LET hits == {i \in DOMAIN cache : cache[i].key = Key(c)}
    IN  IF ~MayStore(req[c].view, PageBytes(c)) THEN cache
        ELSE IF hits # {} THEN <<cache[Min(hits)]>> \o RemoveAt(cache, Min(hits))
        ELSE Evict(<<[key |-> Key(c), bytes |-> PageBytes(c)]>> \o cache)

\* readPageBytes from the source, without a lock, then storeCache.
ReadFill(c) ==
    /\ pc[c] = "fill"
    /\ \/ Goto(c, "unreserve") /\ UNCHANGED <<req, cache>>
       \/ cache' = StoreCache(c) /\ Advance(c)
    /\ UNCHANGED <<text, phase, state, op, tasks, inflight, nextOp, shutdown,
                   author>>

\* stateStillCurrent decides between the pages and an error, and the deferred
\* releaseInflight follows.
ReadUnreserve(c) ==
    /\ pc[c] = "unreserve"
    /\ inflight' = inflight - req[c].bytes
    /\ Goto(c, "leave") /\ req' = [req EXCEPT ![c] = NoReq]
    /\ UNCHANGED <<text, phase, state, op, tasks, cache, nextOp, shutdown,
                   author>>

-----------------------------------------------------------------------------
\* Publish, Refresh

\* A host publishes what it derived from a generation it saw, or refreshes.
PublishBegin(c, kind, pub, generation) ==
    /\ phase = "serving" /\ kind \in Calls[c] /\ pc[c] = "idle" /\ Admit
    /\ kind = "refresh" => pub = Unpublished /\ generation = 0
    /\ req' = [req EXCEPT ![c] = [kind |-> kind, pub |-> pub, base |-> generation,
                                  next |-> NoReq, ok |-> FALSE]]
    /\ Goto(c, "start")
    /\ UNCHANGED <<text, phase, state, op, inflight, cache, nextOp, shutdown,
                   author>>

\* startProgress: a closed Pager or exhausted identifiers end the call.
StartProgress(c) ==
    /\ pc[c] = "start"
    /\ IF closed \/ nextOp = MaxOperations
       THEN Goto(c, "leave") /\ UNCHANGED <<op, nextOp>>
       ELSE /\ nextOp' = nextOp + 1
            /\ op' = [op EXCEPT ![c] =
                  [NoOp EXCEPT !.id = nextOp + 1, !.stage = "started",
                               !.reporting = req[c].kind # "publish"]]
            /\ Goto(c, IF req[c].kind = "publish" THEN "publish" ELSE "ask")
    /\ UNCHANGED <<text, phase, state, req, resources, shutdown, author>>

\* Refresh reads the request for the provider under p.mu.
AskProvider(c) ==
    /\ pc[c] = "ask"
    /\ req' = [req EXCEPT ![c].base = state.generation]
    /\ Goto(c, "provider")
    /\ UNCHANGED <<text, phase, state, op, resources, nextOp, shutdown, author>>

\* Mutant: a report of a provider that has returned is still accepted.
MayReportLate(o) == o.stage # "none" /\ ~o.broken

MayReport(o) == o.reporting /\ ~o.broken

\* FragmentRequest.Report, from any goroutine of the provider, also after the
\* call of the provider has ended.  A report that goes back breaks the refresh.
Report(c, pub) ==
    /\ MayReport(op[c])
    /\ LET through == pub.through
           count == Len(pub.fragments)
           bad == \/ through < op[c].through \/ through > Length(text)
                  \/ count < op[c].count \/ count > MaximumFragments
       IN  op' = [op EXCEPT ![c] =
                    IF bad THEN [@ EXCEPT !.broken = TRUE]
                    ELSE IF through = @.through /\ count = @.count THEN @
                    ELSE [@ EXCEPT !.stage = "advanced", !.through = through,
                                   !.count = count]]
    /\ UNCHANGED <<text, phase, state, pc, req, resources, nextOp, shutdown,
                   author>>

\* finishProvider
Accepts(o, pub) ==
    ~o.broken /\ pub.through >= o.through /\ Len(pub.fragments) >= o.count

\* The provider returns: finishProvider ends the reports and accepts the
\* result, or the refresh has failed.
ProviderReturn(c) ==
    /\ pc[c] = "provider"
    /\ \/ \E pub \in Offered :
            /\ Accepts(op[c], pub)
            /\ op' = [op EXCEPT ![c].reporting = FALSE,
                                ![c].through = pub.through,
                                ![c].count = Len(pub.fragments)]
            /\ req' = [req EXCEPT ![c].pub = pub]
            /\ Goto(c, "publish")
       \/ /\ op' = [op EXCEPT ![c].reporting = FALSE]
          /\ Goto(c, "finish") /\ UNCHANGED req
    /\ UNCHANGED <<text, phase, state, resources, nextOp, shutdown, author>>

\* publication.BaseGeneration against p.state.generation
CurrentBase(base) == base = state.generation

\* publish up to its second critical section: closed, base and overflow are
\* checked under p.mu; the fragments are validated and the next state is built
\* without it.
PublishCheck(c) ==
    /\ pc[c] = "publish"
    /\ \/ Goto(c, "finish") /\ UNCHANGED req
       \/ /\ ~closed /\ CurrentBase(req[c].base)
          /\ state.generation < MaxGeneration
          /\ ValidPublication(text, req[c].pub)
          /\ req' = [req EXCEPT ![c].next =
                        PagerState(text, state.generation + 1, req[c].pub)]
          /\ Goto(c, "install")
    /\ UNCHANGED <<text, phase, state, op, resources, nextOp, shutdown, author>>

\* Mutant: the generation is not compared again before the swap.
StillBaseUnchecked(next) == TRUE

StillBase(next) == next.generation = state.generation + 1

\* The swap: state, generation and cache change under one lock.
Install(c) ==
    /\ pc[c] = "install"
    /\ IF ~closed /\ StillBase(req[c].next)
       THEN /\ state' = req[c].next
            /\ cache' = <<>>
            /\ author' = [author EXCEPT ![req[c].next.generation] = op[c].id]
            /\ req' = [req EXCEPT ![c].ok = TRUE]
       ELSE UNCHANGED <<state, cache, author, req>>
    /\ Goto(c, "finish")
    /\ UNCHANGED <<text, phase, op, tasks, inflight, nextOp, shutdown>>

\* operation.finish: Completed with what was installed, or Failed.
FinishProgress(c) ==
    /\ pc[c] = "finish"
    /\ op' = [op EXCEPT ![c] =
          IF req[c].ok
          THEN [@ EXCEPT !.stage = "completed", !.reporting = FALSE,
                         !.published = req[c].next.generation,
                         !.through = req[c].pub.through,
                         !.count = Len(req[c].pub.fragments)]
          ELSE [@ EXCEPT !.stage = "failed", !.reporting = FALSE]]
    /\ Goto(c, "leave")
    /\ UNCHANGED <<text, phase, state, req, resources, nextOp, shutdown, author>>

-----------------------------------------------------------------------------
\* CloseContext

\* The first call cancels the tasks' Contexts and starts finishClose.
CloseCall(c) ==
    /\ \/ phase = "serving" /\ c \in Closers /\ pc[c] = "idle"
       \/ pc[c] = "discard"
    /\ closed' = TRUE
    /\ closer' = IF closed THEN closer ELSE "check"
    /\ Goto(c, "closing")
    /\ UNCHANGED <<text, phase, state, req, op, resources, nextOp, releases, author>>

\* A caller's Context expires; the shutdown goes on.
CloseExpire(c) ==
    /\ pc[c] = "closing" /\ phase = "serving"
    /\ Goto(c, "idle")
    /\ UNCHANGED <<text, phase, state, req, op, resources, nextOp, shutdown,
                   author>>

\* <-p.closeDone
CloseReturn(c) ==
    /\ pc[c] = "closing" /\ closer = "done"
    /\ Goto(c, "idle")
    /\ UNCHANGED <<text, phase, state, req, op, resources, nextOp, shutdown,
                   author>>

\* The loop of finishClose under p.mu: taskCond.Wait gives the lock up and
\* parks in one step.
CloserCheck ==
    /\ closer = "check"
    /\ IF tasks = 0 THEN closer' = "release" /\ cache' = <<>>
       ELSE closer' = "parked" /\ UNCHANGED cache
    /\ UNCHANGED <<text, phase, state, pc, req, op, tasks, inflight, nextOp,
                   closed, releases, author>>

\* release, without p.mu; whatever it returns is kept for every caller.
CloserRelease ==
    /\ closer = "release"
    /\ releases' = releases + 1
    /\ closer' = "done"
    /\ UNCHANGED <<text, phase, state, pc, req, op, resources, nextOp, closed,
                   author>>

-----------------------------------------------------------------------------
ReadStep(c) ==
    \/ ReadCapture(c) \/ ReadReserve(c) \/ ReadLookup(c) \/ ReadFill(c)
    \/ ReadUnreserve(c)
PublishStep(c) ==
    \/ StartProgress(c) \/ AskProvider(c) \/ PublishCheck(c) \/ Install(c)
    \/ FinishProgress(c)
TaskStep(c) == ReadStep(c) \/ PublishStep(c) \/ LeaveTask(c) \/ Wake(c)
CloserStep == CloserCheck \/ CloserRelease

Next ==
    \/ Build \/ BuildFails
    \/ \E c \in Callers :
         \/ Rebuild(c)
         \/ \E r \in Requests, g \in 0..state.generation : ReadBegin(c, r, g)
         \/ \E pub \in Offered, g \in 0..state.generation :
               PublishBegin(c, "publish", pub, g)
         \/ PublishBegin(c, "refresh", Unpublished, 0)
         \/ \E pub \in Offered : Report(c, pub)
         \/ ProviderReturn(c)
         \/ TaskStep(c)
    \/ \E c \in Callers \cup Closers :
         CloseCall(c) \/ CloseExpire(c) \/ CloseReturn(c)
    \/ CloserStep

\* Goroutines run on.  A provider is host code and may take for ever, but it
\* must honour the cancellation that closing the Pager brings.  The failed
\* refresh of a rebuild closes the new Pager and waits for it.
RunsOn(c) ==
    \/ TaskStep(c)
    \/ closed /\ ProviderReturn(c)
    \/ pc[c] = "discard" /\ CloseCall(c)

Fairness == WF_vars(CloserStep) /\ \A c \in Callers : WF_vars(RunsOn(c))

Spec == Init /\ [][Next]_vars /\ Fairness

-----------------------------------------------------------------------------
\* Properties

Reading == {"lookup", "fill", "unreserve"}
Admitted == {"capture", "reserve", "start", "ask", "provider", "publish",
             "install", "finish", "leave"} \cup Reading

\* Tokens and reserved bytes are exactly those of the calls under way and stay
\* within their limits; the cache stays within its budget and holds pages of
\* the current generation only, so no room is lost to pages nobody can ask for.
BudgetsExact ==
    /\ tasks = Cardinality({c \in Callers : pc[c] \in Admitted})
    /\ tasks <= MaximumTasks
    /\ inflight = MapThenSumSet(LAMBDA c : req[c].bytes,
                                {c \in Callers : pc[c] \in Reading})
    /\ inflight <= MaximumInflightBytes
    /\ CachedBytes(cache) <= CacheBytes
    /\ \A i \in DOMAIN cache : cache[i].key.generation = state.generation
    /\ \A i, j \in DOMAIN cache : cache[i].key = cache[j].key => i = j

\* The source a Pager owns is released once: when the build fails, or by the
\* shared close after the last admitted task, however many callers close and
\* whenever their Contexts expire.
SourceOutlivesTasks ==
    /\ releases <= 1
    /\ closer \in {"release", "done"} \/ releases = 1 =>
          \A c \in Callers : pc[c] \notin Admitted

\* A generation number names one state for ever: a publication is installed
\* only on top of the very generation its fragments were derived from, and
\* a closed Pager keeps its last one.
PublicationsChain ==
    [][state' # state =>
          /\ state'.generation = state.generation + 1
          /\ ~closed
          /\ \E c \in Callers : /\ pc[c] = "install" /\ pc'[c] # pc[c]
                                /\ req[c].base = state.generation]_vars

\* Within one operation the watermark and the count never go back and nothing
\* follows the last stage, late reports of the provider included; Completed
\* names the generation this operation published, Failed means it has none.
ProgressHonest ==
    [][\A c \in Callers :
          /\ op'[c].id = op[c].id =>
               /\ op'[c].through >= op[c].through /\ op'[c].count >= op[c].count
               /\ op[c].stage \in {"completed", "failed"} => op'[c] = op[c]
          /\ op'[c].stage = "completed" =>
               author'[op'[c].published] = op'[c].id
          /\ op'[c].stage = "failed" =>
               \A g \in 1..MaxGeneration : author'[g] # op'[c].id]_vars

\* Once a Pager is closed its source is released, however many tasks, waiting
\* closers and refreshes are under way; so a rebuild that fails leaks nothing.
CloseEnds ==
    (closed \/ \E c \in Callers : pc[c] = "discard") ~> releases = 1

\* The windows of a state, against their reference.
WindowsExact(s, length) ==
    \A budget \in Budgets, before \in Spans, after \in Spans :
      /\ \A offset \in 0..length :
           ByteWindowExact(s, WindowByByte(s, length, offset, before, after, budget),
                           length, offset, before, after, budget)
      /\ \A i \in DOMAIN s.fragments, k \in 0..1 :
           FragmentWindowExact(s, WindowByFragment(s, i, k, before, after, budget),
                               i, k, before, after, budget)
      /\ s.fragments # <<>> =>
           \A offset \in 0..TotalMeasure(s.fragments), affinity \in {"before", "after"} :
             MeasureWindowExact(s, WindowByMeasure(s, offset, affinity, before,
                                                   after, budget),
                                offset, affinity, before, after, budget)

\* The pages and windows of every sample publication are what they have to be.
LayoutExact ==
    phase = "building" =>
      \A source \in Samples :
        /\ LogicalExact(source, LogicalPages(source))
        /\ \A pub \in Publications :
             ValidPublication(source, pub) =>
               /\ PublishedExact(source, pub, PublishedPages(source, pub))
               /\ WindowsExact(PagerState(source, 1, pub), Length(source))
=============================================================================
