------------------------- MODULE VirtualPagerProofs -------------------------
(***************************************************************************)
(* Proofs about VirtualPager, for any number of callers and closers, any   *)
(* texts, publications and limits: the source outlives every admitted      *)
(* task, generations form a chain whatever competes for the next one,      *)
(* progress reports are honest, and the tokens, reserved bytes and cached  *)
(* pages are accounted for exactly.                                        *)
(***************************************************************************)
EXTENDS VirtualPager, DataInduction, SequenceTheorems, TLAPS

USE DEF resources, shutdown

-----------------------------------------------------------------------------
\* Types

Publishing == {"start", "ask", "provider", "publish", "install", "finish"}
Others == {"idle", "wake", "discard", "closing"}
Hosts == Callers \cup Closers
Pubs == Offered \cup {Unpublished}
States == {PagerState(text, g, pub) : g \in Nat, pub \in Pubs}

PublishRequest ==
    [kind : {"publish", "refresh", "rebuild"}, pub : Pubs, base : Nat,
     next : States \cup {NoReq}, ok : BOOLEAN]
Operation ==
    [id : Nat, stage : {"none", "started", "advanced", "completed", "failed"},
     through : Int, count : Nat, published : Nat, reporting : BOOLEAN,
     broken : BOOLEAN]

\* The requests of the calls that publish.
RequestInv ==
    /\ text \in Sources /\ state.generation \in Nat
    /\ pc \in [Hosts -> Admitted \cup Others]
    /\ DOMAIN req = Callers
    /\ \A c \in Callers : pc[c] \in Publishing => req[c] \in PublishRequest
    /\ \A c \in Callers : pc[c] = "leave" => req[c] = NoReq \/ req[c] \in PublishRequest
    /\ \A c \in Callers : pc[c] = "install" =>
          /\ req[c].next.generation = req[c].base + 1
          /\ req[c].next.generation <= MaxGeneration

-----------------------------------------------------------------------------
\* Tasks and the release of the source

Tasks == {c \in Callers : pc[c] \in Admitted}

TaskInv ==
    /\ tasks = Cardinality(Tasks) /\ tasks <= MaximumTasks
    /\ closer \in {"none", "check", "parked", "release", "done"}
    /\ closed <=> closer # "none"
    /\ closer \in {"release", "done"} => Tasks = {}
    /\ releases = IF closer = "done" \/ phase = "failed" THEN 1 ELSE 0
    /\ phase \in {"building", "failed"} => /\ closer = "none"
                                           /\ \A c \in Hosts : pc[c] = "idle"

-----------------------------------------------------------------------------
\* Operations

\* Where a call is in its progressOperation.
OperationAt(c) ==
    /\ pc[c] \notin Publishing \cup {"leave"} => op[c] = NoOp
    /\ pc[c] = "start" => op[c] = NoOp
    /\ pc[c] = "leave" => op[c] = NoOp \/ op[c].stage \in {"completed", "failed"}
    /\ pc[c] \in Publishing \ {"start"} =>
          op[c].id # 0 /\ op[c].stage \in {"started", "advanced"}
    /\ op[c].reporting => pc[c] \in {"ask", "provider"}
    /\ op[c].id = 0 => op[c] = NoOp
    /\ pc[c] \in {"publish", "install"} \/ (pc[c] = "finish" /\ req[c].ok) =>
          \/ op[c].through = 0 /\ op[c].count = 0
          \/ op[c].through = req[c].pub.through /\ op[c].count = Len(req[c].pub.fragments)
    /\ pc[c] \in Publishing \ {"finish"} => ~req[c].ok
    /\ pc[c] = "install" \/ (pc[c] = "finish" /\ req[c].ok) => req[c].pub.through >= 0

OperationInv ==
    /\ op \in [Callers -> Operation] /\ nextOp \in Nat
    /\ \A c \in Callers : OperationAt(c)

\* Who published what: numbers of operations are not used twice, and an
\* operation owns the one generation it installed, if it installed one.
AuthorAt(c) ==
    /\ op[c].id <= nextOp
    /\ pc[c] = "finish" /\ req[c].ok =>
          /\ req[c].next.generation \in 1..MaxGeneration
          /\ req[c].next.generation <= state.generation
          /\ author[req[c].next.generation] = op[c].id
    /\ op[c].stage = "completed" =>
          /\ op[c].published \in 1..MaxGeneration /\ op[c].published <= state.generation
          /\ author[op[c].published] = op[c].id
    /\ \/ pc[c] \in Publishing \ {"start", "finish"}
       \/ pc[c] = "finish" /\ ~req[c].ok
       \/ op[c].stage = "failed"
       => \A g \in 1..MaxGeneration : author[g] # op[c].id

AuthorInv ==
    /\ author \in [1..MaxGeneration -> 0..nextOp]
    /\ \A c, d \in Callers : op[c].id = op[d].id /\ op[c].id # 0 => c = d
    /\ \A c \in Callers : AuthorAt(c)

-----------------------------------------------------------------------------
\* Steps that only read or close

ReadPhases == {"capture", "reserve", "lookup", "fill", "unreserve"}

\* What hosts and providers come with, and generation 0, is well formed.
Fragment == [id : DOMAIN KeyBytes, start : Int, end : Int, measure : Int]

LEMMA PubType ==
    ASSUME NEW pub \in Pubs
    PROVE  pub.fragments \in Seq(Fragment) /\ pub.through \in Int
<1>1. CASE pub \in Offered
  BY <1>1, PagerAssumption DEF Fragment
<1>2. CASE pub = Unpublished
  <2>1. pub.fragments = <<>> /\ pub.through = 0
    BY <1>2 DEF Unpublished
  <2>. QED  BY <2>1
<1>. QED  BY <1>1, <1>2 DEF Pubs

LEMMA StateGeneration == \A s, g, pub : PagerState(s, g, pub).generation = g
BY DEF PagerState, StateOf

\* What a step of a read leaves alone.
LEMMA ReadFrame ==
    ASSUME NEW c \in Callers, ReadStep(c), DOMAIN req = Callers
    PROVE  /\ pc[c] \in ReadPhases
           /\ \E x \in ReadPhases \cup {"leave"} :
                 pc' = [pc EXCEPT ![c] = x] /\ (x = "leave" => req'[c] = NoReq)
           /\ DOMAIN req' = Callers /\ \A d \in Callers \ {c} : req'[d] = req[d]
           /\ UNCHANGED <<text, phase, state, op, tasks, nextOp, shutdown, author>>
<1>1. CASE ReadCapture(c)
  BY <1>1 DEF ReadCapture, Goto, ReadPhases
<1>2. CASE ReadReserve(c)
  BY <1>2 DEF ReadReserve, Goto, ReadPhases
<1>3. CASE ReadLookup(c)
  BY <1>3 DEF ReadLookup, Advance, Goto, ReadPhases
<1>4. CASE ReadFill(c)
  BY <1>4 DEF ReadFill, Advance, Goto, ReadPhases
<1>5. CASE ReadUnreserve(c)
  BY <1>5 DEF ReadUnreserve, Goto, ReadPhases
<1>. QED  BY <1>1, <1>2, <1>3, <1>4, <1>5 DEF ReadStep

-----------------------------------------------------------------------------
\* Requests

LEMMA RequestInit == Init => RequestInv
BY StateGeneration DEF Init, RequestInv, Publishing, Admitted, Others, Hosts, Reading

\* A call moves on with its request.
LEMMA RequestMove ==
    ASSUME RequestInv, NEW c \in Callers, NEW x \in Admitted \cup Others,
           pc' = [pc EXCEPT ![c] = x], text' = text, state'.generation \in Nat,
           DOMAIN req' = Callers, \A d \in Callers \ {c} : req'[d] = req[d],
           x \in Publishing => req'[c] \in PublishRequest,
           x = "leave" => req'[c] = NoReq \/ req'[c] \in PublishRequest,
           x = "install" => /\ req'[c].next.generation = req'[c].base + 1
                            /\ req'[c].next.generation <= MaxGeneration
    PROVE  RequestInv'
<1>1. PublishRequest' = PublishRequest
  BY DEF PublishRequest, States
<1>2. pc' \in [Hosts -> Admitted \cup Others] /\ pc'[c] = x
      /\ \A d \in Callers \ {c} : pc'[d] = pc[d]
  BY DEF RequestInv, Hosts
<1>. QED  BY <1>1, <1>2 DEF RequestInv

LEMMA RequestStep == RequestInv /\ [Next]_vars => RequestInv'
<1>. SUFFICES ASSUME RequestInv, [Next]_vars PROVE RequestInv'
  OBVIOUS
<1>. USE DEF RequestInv, Publishing, Admitted, Reading, Others, Hosts, Goto
<1>1. CASE Build \/ BuildFails \/ CloserStep \/ UNCHANGED vars
  BY <1>1 DEF Build, BuildFails, CloserStep, CloserCheck, CloserRelease, vars, PublishRequest,
              States
<1>2. ASSUME NEW c \in Hosts, CloseCall(c) \/ CloseExpire(c) \/ CloseReturn(c)
      PROVE  RequestInv'
  BY <1>2 DEF CloseCall, CloseExpire, CloseReturn, PublishRequest, States
<1>3. ASSUME NEW c \in Callers, ReadStep(c) PROVE RequestInv'
  BY <1>3, ReadFrame DEF ReadPhases, PublishRequest, States
<1>4. ASSUME NEW c \in Callers, Rebuild(c) PROVE RequestInv'
  BY <1>4 DEF Rebuild, PublishRequest, States, Pubs
<1>5. ASSUME NEW c \in Callers, NEW r, NEW g, ReadBegin(c, r, g) PROVE RequestInv'
  BY <1>5 DEF ReadBegin, PublishRequest, States
<1>6. ASSUME NEW c \in Callers, NEW pub \in Pubs, NEW g \in Nat,
             PublishBegin(c, "publish", pub, g) \/ PublishBegin(c, "refresh", pub, g)
      PROVE RequestInv'
  <2>1. PICK k \in {"publish", "refresh"} :
          /\ pc' = [pc EXCEPT ![c] = "start"] /\ UNCHANGED <<text, state>>
          /\ req' = [req EXCEPT ![c] = [kind |-> k, pub |-> pub, base |-> g,
                                        next |-> NoReq, ok |-> FALSE]]
    BY <1>6 DEF PublishBegin
  <2>2. req'[c] \in PublishRequest
    BY <2>1 DEF PublishRequest
  <2>. QED  BY <2>1, <2>2, RequestMove
<1>7. ASSUME NEW c \in Callers, NEW pub, Report(c, pub) PROVE RequestInv'
  BY <1>7 DEF Report, PublishRequest, States
<1>8. ASSUME NEW c \in Callers, ProviderReturn(c) PROVE RequestInv'
  <2>0. pc[c] = "provider" /\ UNCHANGED <<text, state>>
    BY <1>8 DEF ProviderReturn
  <2>1. CASE Goto(c, "finish") /\ UNCHANGED req
    BY <2>0, <2>1, RequestMove
  <2>2. CASE \E pub \in Offered : req' = [req EXCEPT ![c].pub = pub] /\ Goto(c, "publish")
    <3>0. PICK pub \in Offered : req' = [req EXCEPT ![c].pub = pub] /\ Goto(c, "publish")
      BY <2>2
    <3>1. req'[c] \in PublishRequest
      BY <2>0, <3>0 DEF PublishRequest, Pubs
    <3>. QED  BY <2>0, <3>0, <3>1, RequestMove
  <2>. QED  BY <1>8, <2>1, <2>2 DEF ProviderReturn
<1>9. ASSUME NEW c \in Callers, StartProgress(c) PROVE RequestInv'
  BY <1>9 DEF StartProgress, PublishRequest, States
<1>10. ASSUME NEW c \in Callers, AskProvider(c) PROVE RequestInv'
  BY <1>10 DEF AskProvider, PublishRequest, States
<1>11. ASSUME NEW c \in Callers, PublishCheck(c) PROVE RequestInv'
  <2>0. pc[c] = "publish" /\ UNCHANGED <<text, state>>
    BY <1>11 DEF PublishCheck
  <2>1. CASE Goto(c, "finish") /\ UNCHANGED req
    BY <2>0, <2>1, RequestMove
  <2>2. CASE /\ req[c].base = state.generation /\ state.generation < MaxGeneration
             /\ req' = [req EXCEPT ![c].next = PagerState(text, state.generation + 1, req[c].pub)]
             /\ Goto(c, "install")
    <3>0. state.generation + 1 \in Nat /\ req[c].pub \in Pubs
      BY <2>0 DEF PublishRequest
    <3>1. PagerState(text, state.generation + 1, req[c].pub) \in States
      BY <3>0 DEF States
    <3>2. /\ req'[c] \in PublishRequest /\ req'[c].base = req[c].base
          /\ req'[c].next = PagerState(text, state.generation + 1, req[c].pub)
      BY <2>0, <2>2, <3>1 DEF PublishRequest
    <3>3. /\ req'[c].next.generation = req'[c].base + 1
          /\ req'[c].next.generation <= MaxGeneration
      BY <2>2, <3>2, StateGeneration, PagerAssumption
    <3>. QED  BY <2>0, <2>2, <3>2, <3>3, RequestMove
  <2>. QED  BY <1>11, <2>1, <2>2 DEF PublishCheck, CurrentBase
<1>12. ASSUME NEW c \in Callers, Install(c) PROVE RequestInv'
  <2>0. pc[c] = "install" /\ text' = text /\ Goto(c, "finish")
    BY <1>12 DEF Install
  <2>1. CASE UNCHANGED <<state, req>>
    BY <2>0, <2>1, RequestMove
  <2>2. CASE state' = req[c].next /\ req' = [req EXCEPT ![c].ok = TRUE]
    <3>1. req'[c] \in PublishRequest
      BY <2>0, <2>2 DEF PublishRequest
    <3>2. state'.generation \in Nat
      BY <2>0, <2>2 DEF PublishRequest
    <3>. QED  BY <2>0, <2>2, <3>1, <3>2, RequestMove
  <2>. QED  BY <1>12, <2>1, <2>2 DEF Install
<1>13. ASSUME NEW c \in Callers, FinishProgress(c) PROVE RequestInv'
  BY <1>13 DEF FinishProgress, PublishRequest, States
<1>14. ASSUME NEW c \in Callers, LeaveTask(c) PROVE RequestInv'
  BY <1>14 DEF LeaveTask, PublishRequest, States
<1>15. ASSUME NEW c \in Callers, Wake(c) PROVE RequestInv'
  BY <1>15 DEF Wake, PublishRequest, States
<1>. QED
  <2>1. ASSUME NEW c \in Callers, NEW pub \in Offered, NEW g \in 0..state.generation,
               PublishBegin(c, "publish", pub, g)
        PROVE  RequestInv'
    BY <2>1, <1>6 DEF Pubs
  <2>2. ASSUME NEW c \in Callers, PublishBegin(c, "refresh", Unpublished, 0)
        PROVE  RequestInv'
    BY <2>2, <1>6 DEF Pubs
  <2>. QED  BY <1>1, <1>2, <1>3, <1>4, <1>5, <1>7, <1>8, <1>9, <1>10, <1>11, <1>12, <1>13,
               <1>14, <1>15, <2>1, <2>2 DEF Next, TaskStep, PublishStep

-----------------------------------------------------------------------------
\* Tokens, and the release of the source

LEMMA FiniteTasks == IsFiniteSet(Tasks) /\ Cardinality(Tasks) \in Nat
<1>1. Tasks \in SUBSET Callers
  BY DEF Tasks
<1>. QED  BY <1>1, PagerAssumption, FS_Subset, FS_CardinalityType

\* A call comes, goes on, or ends.
LEMMA TaskMove ==
    ASSUME RequestInv, NEW c \in Hosts, NEW x, pc' = [pc EXCEPT ![c] = x]
    PROVE  /\ pc[c] \in Admitted /\ x \in Admitted => Tasks' = Tasks
           /\ pc[c] \notin Admitted /\ x \notin Admitted => Tasks' = Tasks
           /\ c \in Callers /\ pc[c] \notin Admitted /\ x \in Admitted =>
                Cardinality(Tasks') = Cardinality(Tasks) + 1
           /\ c \in Callers /\ pc[c] \in Admitted /\ x \notin Admitted =>
                Cardinality(Tasks') = Cardinality(Tasks) - 1 /\ c \in Tasks
<1>1. /\ pc'[c] = x /\ \A d \in Callers \ {c} : pc'[d] = pc[d]
  BY DEF RequestInv, Hosts
<1>2. (pc[c] \in Admitted <=> x \in Admitted) => Tasks' = Tasks
  BY <1>1 DEF Tasks
<1>3. ASSUME c \in Callers, pc[c] \notin Admitted, x \in Admitted
      PROVE  Cardinality(Tasks') = Cardinality(Tasks) + 1
  <2>1. c \notin Tasks /\ Tasks' = Tasks \cup {c}
    BY <1>1, <1>3 DEF Tasks
  <2>. QED  BY <2>1, FiniteTasks, FS_AddElement
<1>4. ASSUME c \in Callers, pc[c] \in Admitted, x \notin Admitted
      PROVE  Cardinality(Tasks') = Cardinality(Tasks) - 1 /\ c \in Tasks
  <2>1. c \in Tasks /\ Tasks' = Tasks \ {c}
    BY <1>1, <1>4 DEF Tasks
  <2>. QED  BY <2>1, FiniteTasks, FS_RemoveElement
<1>. QED  BY <1>2, <1>3, <1>4

LEMMA TaskInit == Init => TaskInv
<1>. SUFFICES ASSUME Init PROVE TaskInv
  OBVIOUS
<1>1. Tasks = {}
  BY DEF Init, Tasks, Admitted, Reading
<1>2. Cardinality({}) = 0
  BY FS_EmptySet
<1>. QED  BY <1>1, <1>2, PagerAssumption DEF Init, TaskInv, Hosts

LEMMA TaskInvStep == RequestInv /\ TaskInv /\ [Next]_vars => TaskInv'
<1>. SUFFICES ASSUME RequestInv, TaskInv, [Next]_vars PROVE TaskInv'
  OBVIOUS
<1>. USE DEF Goto
<1>0. "idle" \notin Admitted /\ "wake" \notin Admitted /\ "discard" \notin Admitted
      /\ "closing" \notin Admitted /\ ReadPhases \cup Publishing \cup {"leave"} \subseteq Admitted
  BY DEF Admitted, Reading, ReadPhases, Publishing
\* The steps of an admitted call.
<1>1. ASSUME NEW c \in Callers, NEW x \in Admitted, pc[c] \in Admitted,
             pc' = [pc EXCEPT ![c] = x], UNCHANGED <<phase, tasks, closer, closed, releases>>
      PROVE  TaskInv'
  <2>1. c \in Hosts /\ Tasks' = Tasks
    BY <1>1, TaskMove DEF Hosts
  <2>2. phase \notin {"building", "failed"}
    BY <1>0, <1>1, <2>1 DEF TaskInv
  <2>. QED  BY <1>1, <2>1, <2>2 DEF TaskInv
<1>2. ASSUME NEW c \in Callers, ReadStep(c) PROVE TaskInv'
  <2>1. pc[c] \in Admitted /\ \E x \in Admitted : pc' = [pc EXCEPT ![c] = x]
    BY <1>0, <1>2, ReadFrame DEF RequestInv
  <2>2. UNCHANGED <<phase, tasks, closer, closed, releases>>
    BY <1>2, ReadFrame DEF RequestInv
  <2>. QED  BY <1>1, <2>1, <2>2
<1>3. ASSUME NEW c \in Callers, PublishStep(c) \/ ProviderReturn(c) PROVE TaskInv'
  <2>1. pc[c] \in Publishing
    BY <1>3 DEF PublishStep, StartProgress, AskProvider, PublishCheck, Install, FinishProgress,
                ProviderReturn, Publishing
  <2>2. \E x \in Publishing \cup {"leave"} : pc' = [pc EXCEPT ![c] = x]
    BY <1>3 DEF PublishStep, StartProgress, AskProvider, PublishCheck, Install, FinishProgress,
                ProviderReturn, Publishing
  <2>3. UNCHANGED <<phase, tasks, closer, closed, releases>>
    BY <1>3 DEF PublishStep, StartProgress, AskProvider, PublishCheck, Install, FinishProgress,
                ProviderReturn
  <2>. QED  BY <1>0, <1>1, <2>1, <2>2, <2>3
\* A new call needs a token of an open Pager.
<1>4. ASSUME NEW c \in Callers, NEW x \in {"start", "capture"}, pc[c] = "idle", Admit,
             pc' = [pc EXCEPT ![c] = x], UNCHANGED <<closer, closed, releases>>,
             phase' \notin {"building", "failed"}, phase # "failed"
      PROVE  TaskInv'
  <2>1. c \in Hosts /\ x \in Admitted /\ pc[c] \notin Admitted
    BY <1>0, <1>4 DEF Hosts, ReadPhases, Publishing
  <2>2. Cardinality(Tasks') = Cardinality(Tasks) + 1
    BY <1>4, <2>1, TaskMove
  <2>3. tasks' = tasks + 1 /\ tasks < MaximumTasks /\ closer = "none"
    BY <1>4 DEF Admit, TaskInv
  <2>. QED  BY <1>4, <2>2, <2>3, FiniteTasks, PagerAssumption DEF TaskInv
<1>5. ASSUME NEW c \in Callers, Rebuild(c) PROVE TaskInv'
  BY <1>4, <1>5 DEF Rebuild, TaskInv, Hosts
<1>6. ASSUME NEW c \in Callers, NEW r, NEW g, ReadBegin(c, r, g) PROVE TaskInv'
  BY <1>4, <1>6 DEF ReadBegin
<1>7. ASSUME NEW c \in Callers, NEW k, NEW pub, NEW g, PublishBegin(c, k, pub, g) PROVE TaskInv'
  BY <1>4, <1>7 DEF PublishBegin
<1>8. ASSUME NEW c \in Callers, LeaveTask(c) PROVE TaskInv'
  <2>1. /\ c \in Hosts /\ pc[c] \in Admitted /\ pc' = [pc EXCEPT ![c] = "wake"]
        /\ tasks' = tasks - 1 /\ UNCHANGED <<phase, closer, closed, releases>>
    BY <1>0, <1>8 DEF LeaveTask, Hosts
  <2>2. Cardinality(Tasks') = Cardinality(Tasks) - 1 /\ c \in Tasks
    BY <1>0, <2>1, TaskMove
  <2>3. phase \notin {"building", "failed"} /\ closer \notin {"release", "done"}
    BY <1>0, <2>1, <2>2 DEF TaskInv
  <2>. QED  BY <2>1, <2>2, <2>3, FiniteTasks, PagerAssumption DEF TaskInv
<1>9. ASSUME NEW c \in Callers, Wake(c) PROVE TaskInv'
  <2>1. /\ c \in Hosts /\ pc[c] = "wake" /\ tasks' = tasks /\ UNCHANGED <<closed, releases>>
        /\ \E x \in {"discard", "idle"} : pc' = [pc EXCEPT ![c] = x]
        /\ phase' \in {phase, "serving"}
        /\ closer' = IF closer = "parked" THEN "check" ELSE closer
    BY <1>9 DEF Wake, Hosts
  <2>2. Tasks' = Tasks
    BY <1>0, <2>1, TaskMove
  <2>3. phase \notin {"building", "failed"}
    BY <2>1 DEF TaskInv
  <2>. QED  BY <2>1, <2>2, <2>3 DEF TaskInv
<1>10. ASSUME NEW c \in Hosts, CloseCall(c) \/ CloseExpire(c) \/ CloseReturn(c) PROVE TaskInv'
  <2>1. /\ pc[c] \in {"idle", "discard", "closing"} /\ (pc[c] = "idle" => phase = "serving")
        /\ UNCHANGED <<tasks, phase, releases>>
        /\ \E x \in {"closing", "idle"} : pc' = [pc EXCEPT ![c] = x]
    BY <1>10 DEF CloseCall, CloseExpire, CloseReturn
  <2>2. Tasks' = Tasks
    BY <1>0, <2>1, TaskMove
  <2>3. phase \notin {"building", "failed"}
    BY <2>1 DEF TaskInv
  <2>4. \/ UNCHANGED <<closer, closed>>
        \/ closed' = TRUE /\ closer' = IF closed THEN closer ELSE "check"
    BY <1>10 DEF CloseCall, CloseExpire, CloseReturn
  <2>. QED  BY <2>1, <2>2, <2>3, <2>4 DEF TaskInv
<1>11. CASE CloserStep
  <2>1. pc' = pc /\ tasks' = tasks /\ phase' = phase /\ closed' = closed /\ Tasks' = Tasks
    BY <1>11 DEF CloserStep, CloserCheck, CloserRelease, Tasks
  <2>2. tasks = 0 => Tasks = {}
    BY FiniteTasks, FS_EmptySet DEF TaskInv
  <2>. QED  BY <1>11, <2>1, <2>2 DEF CloserStep, CloserCheck, CloserRelease, TaskInv
<1>12. CASE Build \/ BuildFails
  <2>1. /\ phase = "building" /\ UNCHANGED <<pc, tasks, closer, closed>>
        /\ \/ phase' = "serving" /\ releases' = releases
           \/ phase' = "failed" /\ releases' = releases + 1
    BY <1>12 DEF Build, BuildFails
  <2>2. Tasks' = Tasks
    BY <2>1 DEF Tasks
  <2>. QED  BY <2>1, <2>2 DEF TaskInv
<1>13. CASE (\E c \in Callers : \E pub \in Offered : Report(c, pub)) \/ UNCHANGED vars
  <2>1. UNCHANGED <<pc, tasks, closer, closed, phase, releases>>
    BY <1>13 DEF Report, vars
  <2>2. Tasks' = Tasks
    BY <2>1 DEF Tasks
  <2>. QED  BY <2>1, <2>2 DEF TaskInv
<1>. QED  BY <1>2, <1>3, <1>5, <1>6, <1>7, <1>8, <1>9, <1>10, <1>11, <1>12, <1>13
          DEF Next, TaskStep, Hosts

-----------------------------------------------------------------------------
\* Operations step by step

\* A step of c that leaves the other calls alone.
LEMMA OperationMove ==
    ASSUME OperationInv, NEW c \in Callers,
           \A d \in Callers \ {c} : pc'[d] = pc[d] /\ req'[d] = req[d] /\ op'[d] = op[d],
           op' \in [Callers -> Operation], nextOp' \in Nat, OperationAt(c)'
    PROVE  OperationInv'
<1>1. ASSUME NEW d \in Callers \ {c} PROVE OperationAt(d)'
  BY <1>1 DEF OperationInv, OperationAt
<1>. QED  BY <1>1 DEF OperationInv

LEMMA OperationInit == Init => OperationInv
<1>1. NoOp \in Operation
  BY DEF NoOp, Operation
<1>. QED  BY <1>1 DEF Init, OperationInv, OperationAt, Publishing, NoOp

\* Outside of a publication there is no operation.
LEMMA OperationIdle ==
    ASSUME RequestInv, OperationInv, NEW c \in Callers, NEW x \in ReadPhases \cup Others \cup {"leave"},
           pc[c] \in ReadPhases \cup Others, pc' = [pc EXCEPT ![c] = x],
           UNCHANGED <<op, nextOp>>,
           \A d \in Callers \ {c} : req'[d] = req[d]
    PROVE  OperationInv'
<1>1. op[c] = NoOp /\ pc'[c] = x /\ \A d \in Callers \ {c} : pc'[d] = pc[d]
  BY DEF OperationInv, OperationAt, RequestInv, Hosts, ReadPhases, Others, Publishing
<1>2. OperationAt(c)'
  BY <1>1 DEF OperationAt, ReadPhases, Others, Publishing, NoOp
<1>. QED  BY <1>1, <1>2, OperationMove DEF OperationInv

LEMMA OperationStep ==
    RequestInv /\ TaskInv /\ OperationInv /\ AuthorInv /\ [Next]_vars => OperationInv'
<1>. SUFFICES ASSUME RequestInv, TaskInv, OperationInv, AuthorInv, [Next]_vars PROVE OperationInv'
  OBVIOUS
<1>. USE DEF Goto
<1>1. ASSUME NEW c \in Callers, ReadStep(c) PROVE OperationInv'
  BY <1>1, ReadFrame, OperationIdle DEF RequestInv
<1>2. ASSUME NEW c \in Callers, NEW r, NEW g, ReadBegin(c, r, g) PROVE OperationInv'
  BY <1>2, OperationIdle DEF ReadBegin, ReadPhases, Others, RequestInv
<1>3. ASSUME NEW c \in Callers, Wake(c) PROVE OperationInv'
  BY <1>3, OperationIdle DEF Wake, Others, RequestInv
<1>4. ASSUME NEW c \in Hosts, CloseCall(c) \/ CloseExpire(c) \/ CloseReturn(c)
      PROVE  OperationInv'
  <2>1. /\ pc[c] \in Others /\ UNCHANGED <<req, op, nextOp>>
        /\ \E x \in Others : pc' = [pc EXCEPT ![c] = x]
    BY <1>4 DEF CloseCall, CloseExpire, CloseReturn, Others
  <2>2. CASE c \in Callers
    BY <2>1, <2>2, OperationIdle
  <2>3. CASE c \notin Callers
    BY <2>1, <2>3 DEF OperationInv, OperationAt, RequestInv, Hosts
  <2>. QED  BY <2>2, <2>3
<1>5. CASE Build \/ BuildFails \/ CloserStep \/ UNCHANGED vars
  <2>1. UNCHANGED <<pc, req, op, nextOp>>
    BY <1>5 DEF Build, BuildFails, CloserStep, CloserCheck, CloserRelease, vars
  <2>. QED  BY <2>1 DEF OperationInv, OperationAt
\* A publication begins.
<1>6. ASSUME NEW c \in Callers, pc[c] = "idle", UNCHANGED <<op, nextOp>>, pc' = [pc EXCEPT ![c] = "start"],
             NEW q, q.ok = FALSE, req' = [req EXCEPT ![c] = q]
      PROVE  OperationInv'
  <2>1. /\ op[c] = NoOp /\ pc'[c] = "start" /\ ~req'[c].ok
        /\ \A d \in Callers \ {c} : pc'[d] = pc[d] /\ req'[d] = req[d]
    BY <1>6 DEF OperationInv, OperationAt, RequestInv, Hosts, Publishing
  <2>2. OperationAt(c)'
    BY <1>6, <2>1 DEF OperationAt, Publishing, NoOp
  <2>. QED  BY <1>6, <2>1, <2>2, OperationMove DEF OperationInv
<1>7. ASSUME NEW c \in Callers, Rebuild(c) PROVE OperationInv'
  <2>1. pc[c] = "idle"
    BY <1>7 DEF Rebuild, TaskInv, Hosts
  <2>. QED  BY <1>6, <1>7, <2>1 DEF Rebuild
<1>8. ASSUME NEW c \in Callers, NEW k, NEW pub, NEW g, PublishBegin(c, k, pub, g)
      PROVE  OperationInv'
  BY <1>6, <1>8 DEF PublishBegin
\* The publication under way.
<1>9. ASSUME NEW c \in Callers, StartProgress(c) PROVE OperationInv'
  <2>0. /\ pc[c] = "start" /\ op[c] = NoOp /\ UNCHANGED req /\ nextOp \in Nat /\ ~req[c].ok
    BY <1>9 DEF StartProgress, OperationInv, OperationAt, Publishing
  <2>1. CASE Goto(c, "leave") /\ UNCHANGED <<op, nextOp>>
    <3>1. /\ pc'[c] = "leave" /\ \A d \in Callers \ {c} : pc'[d] = pc[d]
      BY <2>1 DEF RequestInv, Hosts
    <3>2. OperationAt(c)'
      BY <2>0, <2>1, <3>1 DEF OperationAt, Publishing, NoOp
    <3>. QED  BY <2>0, <2>1, <3>1, <3>2, OperationMove DEF OperationInv
  <2>2. ASSUME NEW b \in BOOLEAN, NEW x \in {"ask", "publish"}, b => x = "ask",
               nextOp' = nextOp + 1, Goto(c, x),
               op' = [op EXCEPT ![c] = [NoOp EXCEPT !.id = nextOp + 1, !.stage = "started",
                                                    !.reporting = b]]
        PROVE  OperationInv'
    <3>1. /\ pc'[c] = x /\ \A d \in Callers \ {c} : pc'[d] = pc[d]
      BY <2>2 DEF RequestInv, Hosts
    <3>2. op'[c] = [id |-> nextOp + 1, stage |-> "started", through |-> 0, count |-> 0,
                    published |-> 0, reporting |-> b, broken |-> FALSE]
      BY <2>2 DEF NoOp, OperationInv
    <3>3. op'[c] \in Operation
      BY <2>0, <3>2 DEF Operation
    <3>4. /\ op'[c].id # 0 /\ op'[c].stage = "started" /\ op'[c].through = 0 /\ op'[c].count = 0
      BY <2>0, <3>2
    <3>6. op'[c].reporting = b
      BY <3>2
    <3>7. op'[c].reporting => pc'[c] = "ask"
      BY <2>2, <3>1, <3>6, Zenon
    <3>5. OperationAt(c)'
      BY <2>0, <2>2, <3>1, <3>4, <3>7 DEF OperationAt, Publishing
    <3>. QED  BY <2>0, <2>2, <3>1, <3>3, <3>5, OperationMove DEF OperationInv
  <2>3. CASE req[c].kind = "publish" /\ ~(Goto(c, "leave") /\ UNCHANGED <<op, nextOp>>)
    BY <1>9, <2>2, <2>3 DEF StartProgress
  <2>4. CASE req[c].kind # "publish" /\ ~(Goto(c, "leave") /\ UNCHANGED <<op, nextOp>>)
    BY <1>9, <2>2, <2>4 DEF StartProgress
  <2>. QED  BY <2>1, <2>3, <2>4
<1>10. ASSUME NEW c \in Callers, AskProvider(c) PROVE OperationInv'
  <2>1. /\ pc[c] = "ask" /\ pc'[c] = "provider" /\ req'[c].ok = req[c].ok
        /\ \A d \in Callers \ {c} : pc'[d] = pc[d] /\ req'[d] = req[d]
        /\ UNCHANGED <<op, nextOp>>
    BY <1>10 DEF AskProvider, RequestInv, PublishRequest, Hosts, Publishing
  <2>2. OperationAt(c)'
    BY <2>1 DEF OperationInv, OperationAt, Publishing
  <2>. QED  BY <2>1, <2>2, OperationMove DEF OperationInv
<1>11. ASSUME NEW c \in Callers, NEW pub \in Offered, Report(c, pub) PROVE OperationInv'
  <2>0. /\ op[c].reporting /\ UNCHANGED <<pc, req, nextOp>>
        /\ op[c] \in Operation /\ OperationAt(c)
    BY <1>11 DEF Report, MayReport, OperationInv
  <2>1. \/ op' = [op EXCEPT ![c] = [@ EXCEPT !.broken = TRUE]]
        \/ op' = op
        \/ op' = [op EXCEPT ![c] = [@ EXCEPT !.stage = "advanced", !.through = pub.through,
                                             !.count = Len(pub.fragments)]]
    BY <1>11 DEF Report, OperationInv
  <2>2. op'[c] \in Operation /\ op'[c].id = op[c].id /\ op'[c].reporting = op[c].reporting
        /\ op'[c].stage \in {op[c].stage, "advanced"}
    <3>1. pub.through \in Int /\ Len(pub.fragments) \in Nat
      BY PagerAssumption
    <3>2. CASE op' = [op EXCEPT ![c] = [@ EXCEPT !.broken = TRUE]]
      BY <2>0, <3>2 DEF Operation, OperationInv
    <3>3. CASE op' = [op EXCEPT ![c] = [@ EXCEPT !.stage = "advanced",
                          !.through = pub.through, !.count = Len(pub.fragments)]]
      BY <2>0, <3>1, <3>3 DEF Operation, OperationInv
    <3>. QED  BY <2>0, <2>1, <3>2, <3>3
  <2>3. OperationAt(c)'
    BY <2>0, <2>2 DEF OperationAt, Publishing, NoOp
  <2>. QED  BY <2>0, <2>1, <2>2, <2>3, OperationMove DEF OperationInv
<1>12. ASSUME NEW c \in Callers, ProviderReturn(c) PROVE OperationInv'
  <2>0. /\ pc[c] = "provider" /\ UNCHANGED nextOp /\ op[c] \in Operation /\ OperationAt(c)
        /\ req[c] \in PublishRequest
    BY <1>12 DEF ProviderReturn, OperationInv, RequestInv, Publishing
  <2>1. CASE /\ op' = [op EXCEPT ![c].reporting = FALSE] /\ Goto(c, "finish") /\ UNCHANGED req
    <3>1. /\ op'[c] \in Operation /\ op'[c].id = op[c].id /\ op'[c].stage = op[c].stage
          /\ op'[c].reporting = FALSE /\ pc'[c] = "finish"
          /\ \A d \in Callers \ {c} : pc'[d] = pc[d] /\ op'[d] = op[d]
      BY <2>0, <2>1 DEF Operation, OperationInv, RequestInv, Hosts
    <3>2. OperationAt(c)'
      BY <2>0, <2>1, <3>1 DEF OperationAt, Publishing
    <3>. QED  BY <2>0, <2>1, <3>1, <3>2, OperationMove DEF OperationInv
  <2>2. ASSUME NEW pub \in Offered,
               op' = [op EXCEPT ![c].reporting = FALSE, ![c].through = pub.through,
                                ![c].count = Len(pub.fragments)],
               req' = [req EXCEPT ![c].pub = pub], Goto(c, "publish")
        PROVE  OperationInv'
    <3>1. /\ op'[c] \in Operation /\ op'[c].id = op[c].id /\ op'[c].stage = op[c].stage
          /\ op'[c].reporting = FALSE /\ op'[c].through = pub.through
          /\ op'[c].count = Len(pub.fragments)
          /\ \A d \in Callers \ {c} : op'[d] = op[d]
      <4>1. pub.through \in Int /\ Len(pub.fragments) \in Nat
        BY <2>2, PubType, LenProperties DEF Pubs
      <4>. QED  BY <2>0, <2>2, <4>1 DEF Operation, OperationInv
    <3>2. /\ pc'[c] = "publish" /\ req'[c].pub = pub /\ req'[c].ok = req[c].ok
          /\ \A d \in Callers \ {c} : pc'[d] = pc[d] /\ req'[d] = req[d]
      BY <2>0, <2>2 DEF RequestInv, Hosts, PublishRequest
    <3>3. OperationAt(c)'
      BY <2>0, <3>1, <3>2 DEF OperationAt, Publishing
    <3>. QED  BY <2>0, <2>2, <3>1, <3>2, <3>3, OperationMove DEF OperationInv
  <2>. QED  BY <1>12, <2>1, <2>2 DEF ProviderReturn
<1>13. ASSUME NEW c \in Callers, PublishCheck(c) PROVE OperationInv'
  <2>0. /\ pc[c] = "publish" /\ UNCHANGED <<op, nextOp>> /\ OperationAt(c)
        /\ req[c] \in PublishRequest
    BY <1>13 DEF PublishCheck, OperationInv, RequestInv, Publishing
  <2>1. CASE Goto(c, "finish") /\ UNCHANGED req
    <3>1. /\ pc'[c] = "finish" /\ \A d \in Callers \ {c} : pc'[d] = pc[d]
      BY <2>1 DEF RequestInv, Hosts
    <3>2. OperationAt(c)'
      BY <2>0, <2>1, <3>1 DEF OperationAt, Publishing
    <3>. QED  BY <2>0, <2>1, <3>1, <3>2, OperationMove DEF OperationInv
  <2>2. CASE /\ ValidPublication(text, req[c].pub) /\ Goto(c, "install")
             /\ req' = [req EXCEPT ![c].next =
                           PagerState(text, state.generation + 1, req[c].pub)]
    <3>1. /\ pc'[c] = "install" /\ req'[c].pub = req[c].pub /\ req'[c].ok = req[c].ok
          /\ \A d \in Callers \ {c} : pc'[d] = pc[d] /\ req'[d] = req[d]
      BY <2>0, <2>2 DEF RequestInv, Hosts, PublishRequest
    <3>2. req[c].pub.through >= 0
      BY <2>2 DEF ValidPublication, ValidFragments
    <3>3. OperationAt(c)'
      BY <2>0, <3>1, <3>2 DEF OperationAt, Publishing
    <3>. QED  BY <2>0, <3>1, <3>3, OperationMove DEF OperationInv
  <2>. QED  BY <1>13, <2>1, <2>2 DEF PublishCheck
<1>14. ASSUME NEW c \in Callers, Install(c) PROVE OperationInv'
  <2>0. /\ pc[c] = "install" /\ UNCHANGED <<op, nextOp>> /\ OperationAt(c)
        /\ req[c] \in PublishRequest /\ pc'[c] = "finish"
        /\ \A d \in Callers \ {c} : pc'[d] = pc[d]
    BY <1>14 DEF Install, OperationInv, RequestInv, Publishing, Hosts
  <2>1. /\ req'[c].pub = req[c].pub /\ \A d \in Callers \ {c} : req'[d] = req[d]
    BY <1>14, <2>0 DEF Install, RequestInv, PublishRequest
  <2>2. OperationAt(c)'
    BY <2>0, <2>1 DEF OperationAt, Publishing
  <2>. QED  BY <2>0, <2>1, <2>2, OperationMove DEF OperationInv
<1>15. ASSUME NEW c \in Callers, FinishProgress(c) PROVE OperationInv'
  <2>0. /\ pc[c] = "finish" /\ UNCHANGED <<req, nextOp>> /\ OperationAt(c)
        /\ req[c] \in PublishRequest /\ op[c] \in Operation /\ pc'[c] = "leave"
        /\ \A d \in Callers \ {c} : pc'[d] = pc[d]
    BY <1>15 DEF FinishProgress, OperationInv, RequestInv, Publishing, Hosts
  <2>1. CASE req[c].ok
    <3>1. op' = [op EXCEPT ![c] = [@ EXCEPT !.stage = "completed", !.reporting = FALSE,
                         !.published = req[c].next.generation,
                         !.through = req[c].pub.through,
                         !.count = Len(req[c].pub.fragments)]]
      BY <1>15, <2>1 DEF FinishProgress, OperationInv
    <3>2. req[c].next.generation \in Nat
      BY <2>0, <2>1, PagerAssumption DEF AuthorInv, AuthorAt
    <3>3. req[c].pub.through \in Int /\ Len(req[c].pub.fragments) \in Nat
      BY <2>0, PagerAssumption DEF PublishRequest, Pubs, Unpublished
    <3>4. op'[c] \in Operation /\ op'[c].id = op[c].id /\ op'[c].stage = "completed"
          /\ op'[c].reporting = FALSE /\ \A d \in Callers \ {c} : op'[d] = op[d]
      BY <2>0, <3>1, <3>2, <3>3 DEF Operation, OperationInv
    <3>5. OperationAt(c)'
      BY <2>0, <3>4 DEF OperationAt, Publishing
    <3>. QED  BY <2>0, <3>1, <3>4, <3>5, OperationMove DEF OperationInv
  <2>2. CASE ~req[c].ok
    <3>1. op' = [op EXCEPT ![c] = [@ EXCEPT !.stage = "failed", !.reporting = FALSE]]
      BY <1>15, <2>2 DEF FinishProgress, OperationInv
    <3>2. op'[c] \in Operation /\ op'[c].id = op[c].id /\ op'[c].stage = "failed"
          /\ op'[c].reporting = FALSE /\ \A d \in Callers \ {c} : op'[d] = op[d]
      BY <2>0, <3>1 DEF Operation, OperationInv
    <3>3. OperationAt(c)'
      BY <2>0, <3>2 DEF OperationAt, Publishing
    <3>. QED  BY <2>0, <3>1, <3>2, <3>3, OperationMove DEF OperationInv
  <2>. QED  BY <2>1, <2>2
<1>16. ASSUME NEW c \in Callers, LeaveTask(c) PROVE OperationInv'
  <2>1. /\ pc'[c] = "wake" /\ op'[c] = NoOp /\ UNCHANGED nextOp /\ NoOp \in Operation
        /\ \A d \in Callers \ {c} : pc'[d] = pc[d] /\ req'[d] = req[d] /\ op'[d] = op[d]
    BY <1>16 DEF LeaveTask, OperationInv, RequestInv, Hosts, NoOp, Operation
  <2>2. OperationAt(c)'
    BY <2>1 DEF OperationAt, Publishing, NoOp
  <2>3. op' \in [Callers -> Operation]
    BY <1>16, <2>1 DEF LeaveTask, OperationInv
  <2>. QED  BY <2>1, <2>2, <2>3, OperationMove DEF OperationInv
<1>. QED  BY <1>1, <1>2, <1>3, <1>4, <1>5, <1>7, <1>8, <1>9, <1>10, <1>11, <1>12, <1>13,
             <1>14, <1>15, <1>16
          DEF Next, TaskStep, PublishStep, Hosts
-----------------------------------------------------------------------------
\* Authors step by step

\* A step of c that installs nothing and leaves the other calls alone.
LEMMA AuthorMove ==
    ASSUME AuthorInv, NEW c \in Callers,
           \A d \in Callers \ {c} : pc'[d] = pc[d] /\ req'[d] = req[d] /\ op'[d] = op[d],
           UNCHANGED <<author, nextOp, state>>, op'[c].id \in {op[c].id, 0}, AuthorAt(c)'
    PROVE  AuthorInv'
<1>1. ASSUME NEW d \in Callers \ {c} PROVE AuthorAt(d)'
  BY <1>1 DEF AuthorInv, AuthorAt
<1>2. ASSUME NEW d \in Callers, NEW e \in Callers, op'[d].id = op'[e].id, op'[d].id # 0
      PROVE  d = e
  BY <1>2 DEF AuthorInv
<1>. QED  BY <1>1, <1>2 DEF AuthorInv

\* A call without an operation is the author of nothing.
LEMMA AuthorIdle ==
    ASSUME AuthorInv, OperationInv, NEW c \in Callers,
           \A d \in Callers \ {c} : pc'[d] = pc[d] /\ req'[d] = req[d] /\ op'[d] = op[d],
           UNCHANGED <<author, nextOp, state>>,
           op'[c] = NoOp, pc'[c] \notin Publishing \ {"start"}
    PROVE  AuthorInv'
<1>1. AuthorAt(c)'
  BY DEF AuthorAt, NoOp, Publishing, OperationInv
<1>. QED  BY <1>1, AuthorMove DEF NoOp

LEMMA AuthorInit == Init => AuthorInv
BY PagerAssumption DEF Init, AuthorInv, AuthorAt, Publishing, NoOp

LEMMA AuthorStep ==
    RequestInv /\ TaskInv /\ OperationInv /\ AuthorInv /\ [Next]_vars => AuthorInv'
<1>. SUFFICES ASSUME RequestInv, TaskInv, OperationInv, AuthorInv, [Next]_vars PROVE AuthorInv'
  OBVIOUS
<1>. USE DEF Goto
\* Steps of calls that have no operation yet, or no more.
<1>1. ASSUME NEW c \in Callers, NEW x \in ReadPhases \cup Others \cup {"start", "leave"},
             pc[c] \in ReadPhases \cup Others, pc' = [pc EXCEPT ![c] = x],
             UNCHANGED <<author, nextOp, state, op>>, \A d \in Callers \ {c} : req'[d] = req[d]
      PROVE  AuthorInv'
  <2>1. op[c] = NoOp /\ pc'[c] = x /\ \A d \in Callers \ {c} : pc'[d] = pc[d]
    BY <1>1 DEF OperationInv, OperationAt, RequestInv, Hosts, ReadPhases, Others, Publishing
  <2>. QED  BY <1>1, <2>1, AuthorIdle DEF ReadPhases, Others, Publishing
<1>2. ASSUME NEW c \in Callers, ReadStep(c) PROVE AuthorInv'
  BY <1>1, <1>2, ReadFrame DEF RequestInv
<1>3. ASSUME NEW c \in Callers, NEW r, NEW g, ReadBegin(c, r, g) PROVE AuthorInv'
  BY <1>1, <1>3 DEF ReadBegin, ReadPhases, Others, RequestInv
<1>4. ASSUME NEW c \in Callers, Wake(c) PROVE AuthorInv'
  BY <1>1, <1>4 DEF Wake, Others, RequestInv
<1>5. ASSUME NEW c \in Callers, Rebuild(c) PROVE AuthorInv'
  <2>1. pc[c] = "idle"
    BY <1>5 DEF Rebuild, TaskInv, Hosts
  <2>. QED  BY <1>1, <1>5, <2>1 DEF Rebuild, Others, RequestInv
<1>6. ASSUME NEW c \in Callers, NEW k, NEW pub, NEW g, PublishBegin(c, k, pub, g)
      PROVE  AuthorInv'
  BY <1>1, <1>6 DEF PublishBegin, Others, RequestInv
<1>7. ASSUME NEW c \in Hosts, CloseCall(c) \/ CloseExpire(c) \/ CloseReturn(c)
      PROVE  AuthorInv'
  <2>1. /\ pc[c] \in Others /\ UNCHANGED <<req, op, nextOp, author, state>>
        /\ \E x \in Others : pc' = [pc EXCEPT ![c] = x]
    BY <1>7 DEF CloseCall, CloseExpire, CloseReturn, Others
  <2>2. CASE c \in Callers
    BY <1>1, <2>1, <2>2
  <2>3. CASE c \notin Callers
    BY <2>1, <2>3 DEF AuthorInv, AuthorAt, RequestInv, Hosts
  <2>. QED  BY <2>2, <2>3
<1>8. CASE Build \/ BuildFails \/ CloserStep \/ UNCHANGED vars
  <2>1. UNCHANGED <<pc, req, op, nextOp, author, state>>
    BY <1>8 DEF Build, BuildFails, CloserStep, CloserCheck, CloserRelease, vars
  <2>. QED  BY <2>1 DEF AuthorInv, AuthorAt
<1>9. ASSUME NEW c \in Callers, LeaveTask(c) PROVE AuthorInv'
  <2>1. /\ pc'[c] = "wake" /\ op'[c] = NoOp /\ UNCHANGED <<nextOp, author, state>>
        /\ \A d \in Callers \ {c} : pc'[d] = pc[d] /\ req'[d] = req[d] /\ op'[d] = op[d]
    BY <1>9 DEF LeaveTask, OperationInv, RequestInv, Hosts
  <2>. QED  BY <2>1, AuthorIdle DEF Publishing
\* A new operation has a number nobody had.
<1>10. ASSUME NEW c \in Callers, StartProgress(c) PROVE AuthorInv'
  <2>0. /\ pc[c] = "start" /\ op[c] = NoOp /\ UNCHANGED <<req, author, state>> /\ nextOp \in Nat
    BY <1>10 DEF StartProgress, OperationInv, OperationAt, Publishing
  <2>1. CASE Goto(c, "leave") /\ UNCHANGED <<op, nextOp>>
    <3>1. /\ pc'[c] = "leave" /\ \A d \in Callers \ {c} : pc'[d] = pc[d]
      BY <2>1 DEF RequestInv, Hosts
    <3>. QED  BY <2>0, <2>1, <3>1, AuthorIdle DEF Publishing
  <2>2. ASSUME nextOp' = nextOp + 1, NEW b, NEW x \in {"ask", "publish"}, Goto(c, x),
               op' = [op EXCEPT ![c] = [NoOp EXCEPT !.id = nextOp + 1, !.stage = "started",
                                                    !.reporting = b]]
        PROVE  AuthorInv'
    <3>1. /\ op'[c].id = nextOp + 1 /\ op'[c].stage = "started" /\ pc'[c] = x
          /\ \A d \in Callers \ {c} : op'[d] = op[d] /\ pc'[d] = pc[d] /\ req'[d] = req[d]
      BY <2>0, <2>2 DEF NoOp, OperationInv, RequestInv, Hosts
    <3>2. \A d \in Callers : op[d].id \in Nat /\ op[d].id <= nextOp
      BY DEF AuthorInv, AuthorAt, OperationInv, Operation
    <3>3. \A g \in 1..MaxGeneration : author[g] \in Nat /\ author[g] <= nextOp
      BY <2>0 DEF AuthorInv
    <3>4. AuthorAt(c)'
      BY <2>0, <2>2, <3>1, <3>3 DEF AuthorAt, Publishing
    <3>5. ASSUME NEW d \in Callers \ {c} PROVE AuthorAt(d)'
      BY <2>0, <2>2, <3>1, <3>2, <3>5 DEF AuthorInv, AuthorAt
    <3>6. \A d, e \in Callers : op'[d].id = op'[e].id /\ op'[d].id # 0 => d = e
      BY <2>0, <3>1, <3>2 DEF AuthorInv
    <3>7. author' \in [1..MaxGeneration -> 0..nextOp']
      BY <2>0, <2>2 DEF AuthorInv
    <3>. QED  BY <3>4, <3>5, <3>6, <3>7 DEF AuthorInv
  <2>3. CASE req[c].kind = "publish" /\ ~(Goto(c, "leave") /\ UNCHANGED <<op, nextOp>>)
    BY <1>10, <2>2, <2>3 DEF StartProgress
  <2>4. CASE req[c].kind # "publish" /\ ~(Goto(c, "leave") /\ UNCHANGED <<op, nextOp>>)
    BY <1>10, <2>2, <2>4 DEF StartProgress
  <2>. QED  BY <2>1, <2>3, <2>4
\* The operation goes on and nothing is installed.
<1>11. ASSUME NEW c \in Callers, UNCHANGED <<author, nextOp, state>>,
              pc[c] \in Publishing \ {"start", "finish"},
              \/ pc'[c] \in Publishing \ {"start", "finish"}
              \/ pc'[c] = "finish" /\ ~req'[c].ok,
              op'[c].id = op[c].id, op'[c].stage \in {"started", "advanced"},
              \A d \in Callers \ {c} : pc'[d] = pc[d] /\ req'[d] = req[d] /\ op'[d] = op[d]
       PROVE  AuthorInv'
  <2>1. AuthorAt(c)'
    BY <1>11 DEF AuthorInv, AuthorAt, Publishing
  <2>. QED  BY <1>11, <2>1, AuthorMove
<1>12. ASSUME NEW c \in Callers, AskProvider(c) PROVE AuthorInv'
  <2>1. /\ pc[c] = "ask" /\ pc'[c] = "provider" /\ OperationAt(c)
        /\ \A d \in Callers \ {c} : pc'[d] = pc[d] /\ req'[d] = req[d]
        /\ UNCHANGED <<op, nextOp, author, state>>
    BY <1>12 DEF AskProvider, RequestInv, Hosts, OperationInv
  <2>. QED  BY <1>11, <2>1 DEF Publishing, OperationAt
<1>13. ASSUME NEW c \in Callers, NEW pub \in Offered, Report(c, pub) PROVE AuthorInv'
  <2>0. /\ op[c].reporting /\ UNCHANGED <<pc, req, nextOp, author, state>>
        /\ op[c] \in Operation /\ OperationAt(c)
    BY <1>13 DEF Report, MayReport, OperationInv
  <2>1. \/ op' = [op EXCEPT ![c] = [@ EXCEPT !.broken = TRUE]]
        \/ op' = op
        \/ op' = [op EXCEPT ![c] = [@ EXCEPT !.stage = "advanced", !.through = pub.through,
                                             !.count = Len(pub.fragments)]]
    BY <1>13 DEF Report, OperationInv
  <2>2. /\ op'[c].id = op[c].id /\ op'[c].stage \in {op[c].stage, "advanced"}
        /\ \A d \in Callers \ {c} : op'[d] = op[d]
    BY <2>0, <2>1, ZenonT(40) DEF Operation, OperationInv
  <2>3. pc[c] \in {"ask", "provider"} /\ op[c].stage \in {"started", "advanced"}
    BY <2>0 DEF OperationAt, Publishing
  <2>. QED  BY <1>11, <2>0, <2>2, <2>3 DEF Publishing
<1>14. ASSUME NEW c \in Callers, ProviderReturn(c) PROVE AuthorInv'
  <2>0. /\ pc[c] = "provider" /\ UNCHANGED <<nextOp, author, state>> /\ op[c] \in Operation
        /\ op[c].stage \in {"started", "advanced"} /\ ~req[c].ok
    BY <1>14 DEF ProviderReturn, OperationInv, OperationAt, Publishing
  <2>1. /\ op'[c].id = op[c].id /\ op'[c].stage = op[c].stage
        /\ \A d \in Callers \ {c} : op'[d] = op[d]
    <3>1. CASE op' = [op EXCEPT ![c].reporting = FALSE]
      BY <2>0, <3>1 DEF OperationInv, Operation
    <3>2. ASSUME NEW pub, op' = [op EXCEPT ![c].reporting = FALSE, ![c].through = pub.through,
                                           ![c].count = Len(pub.fragments)]
          PROVE  /\ op'[c].id = op[c].id /\ op'[c].stage = op[c].stage
                 /\ \A d \in Callers \ {c} : op'[d] = op[d]
      BY <2>0, <3>2 DEF OperationInv, Operation
    <3>. QED  BY <1>14, <3>1, <3>2 DEF ProviderReturn
  <2>2. /\ pc'[c] = "publish" \/ (pc'[c] = "finish" /\ UNCHANGED req)
        /\ \A d \in Callers \ {c} : pc'[d] = pc[d] /\ req'[d] = req[d]
    BY <1>14 DEF ProviderReturn, RequestInv, Hosts
  <2>. QED  BY <1>11, <2>0, <2>1, <2>2 DEF Publishing
<1>15. ASSUME NEW c \in Callers, PublishCheck(c) PROVE AuthorInv'
  <2>0. /\ pc[c] = "publish" /\ UNCHANGED <<nextOp, author, state, op>>
        /\ op[c].stage \in {"started", "advanced"} /\ ~req[c].ok
    BY <1>15 DEF PublishCheck, OperationInv, OperationAt, Publishing
  <2>1. /\ pc'[c] = "install" \/ (pc'[c] = "finish" /\ UNCHANGED req)
        /\ \A d \in Callers \ {c} : pc'[d] = pc[d] /\ req'[d] = req[d]
    BY <1>15 DEF PublishCheck, RequestInv, Hosts
  <2>. QED  BY <1>11, <2>0, <2>1 DEF Publishing
\* The swap: the new generation is nobody's yet.
<1>16. ASSUME NEW c \in Callers, Install(c) PROVE AuthorInv'
  <2>0. /\ pc[c] = "install" /\ UNCHANGED <<nextOp, op>> /\ pc'[c] = "finish"
        /\ op[c].stage \in {"started", "advanced"} /\ ~req[c].ok /\ op[c].id # 0
        /\ op[c].id \in Nat /\ op[c].id <= nextOp
        /\ \A g \in 1..MaxGeneration : author[g] # op[c].id
        /\ \A d \in Callers \ {c} : pc'[d] = pc[d]
    BY <1>16 DEF Install, OperationInv, OperationAt, Operation, Publishing, RequestInv, Hosts,
                 AuthorInv, AuthorAt
  <2>1. CASE UNCHANGED <<state, cache, author, req>>
    BY <1>11, <2>0, <2>1 DEF Publishing
  <2>2. CASE /\ StillBase(req[c].next) /\ state' = req[c].next
             /\ author' = [author EXCEPT ![req[c].next.generation] = op[c].id]
             /\ req' = [req EXCEPT ![c].ok = TRUE]
    <3>. DEFINE n == req[c].next.generation
    <3>1. /\ n \in 1..MaxGeneration /\ n = state.generation + 1 /\ state'.generation = n
          /\ state.generation \in Nat /\ MaxGeneration \in Nat
      BY <2>0, <2>2, PagerAssumption DEF StillBase, RequestInv
    <3>2. /\ author'[n] = op[c].id
          /\ \A g \in 1..MaxGeneration : g # n => author'[g] = author[g]
          /\ author' \in [1..MaxGeneration -> 0..nextOp]
      BY <2>0, <2>2, <3>1 DEF AuthorInv, OperationInv
    <3>3. /\ req'[c].ok = TRUE /\ req'[c].next = req[c].next
          /\ \A d \in Callers \ {c} : req'[d] = req[d]
      BY <2>0, <2>2 DEF RequestInv, PublishRequest, Publishing
    <3>4. AuthorAt(c)'
      BY <2>0, <3>1, <3>2, <3>3 DEF AuthorAt, Publishing
    <3>5. ASSUME NEW d \in Callers \ {c} PROVE AuthorAt(d)'
      <4>1. op[d].id # op[c].id /\ AuthorAt(d) /\ op[d] \in Operation
        BY <2>0 DEF AuthorInv, OperationInv
      <4>2. op[d].stage = "completed" => /\ op[d].published # n
                                         /\ op[d].published <= state'.generation
        BY <3>1, <4>1 DEF AuthorAt
      <4>3. pc[d] = "finish" /\ req[d].ok => /\ req[d].next.generation # n
                                             /\ req[d].next.generation <= state'.generation
        BY <3>1, <4>1 DEF AuthorAt
      <4>. QED  BY <2>0, <3>2, <3>3, <4>1, <4>2, <4>3 DEF AuthorAt
    <3>. QED  BY <2>0, <3>2, <3>4, <3>5 DEF AuthorInv
  <2>. QED  BY <1>16, <2>1, <2>2 DEF Install
<1>17. ASSUME NEW c \in Callers, FinishProgress(c) PROVE AuthorInv'
  <2>0. /\ pc[c] = "finish" /\ UNCHANGED <<req, nextOp, author, state>> /\ AuthorAt(c)
        /\ op[c] \in Operation /\ pc'[c] = "leave"
        /\ \A d \in Callers \ {c} : pc'[d] = pc[d] /\ op'[d] = op[d]
    BY <1>17 DEF FinishProgress, OperationInv, RequestInv, Hosts, AuthorInv
  <2>1. CASE req[c].ok
    <3>1. /\ op'[c].id = op[c].id /\ op'[c].stage = "completed"
          /\ op'[c].published = req[c].next.generation
      BY <1>17, <2>0, <2>1 DEF FinishProgress, OperationInv, Operation
    <3>2. AuthorAt(c)'
      BY <2>0, <2>1, <3>1 DEF AuthorAt, Publishing
    <3>. QED  BY <2>0, <3>1, <3>2, AuthorMove
  <2>2. CASE ~req[c].ok
    <3>1. op'[c].id = op[c].id /\ op'[c].stage = "failed"
      BY <1>17, <2>0, <2>2 DEF FinishProgress, OperationInv, Operation
    <3>2. AuthorAt(c)'
      BY <2>0, <2>2, <3>1 DEF AuthorAt, Publishing
    <3>. QED  BY <2>0, <3>1, <3>2, AuthorMove
  <2>. QED  BY <2>1, <2>2
<1>. QED  BY <1>2, <1>3, <1>4, <1>5, <1>6, <1>7, <1>8, <1>9, <1>10, <1>12, <1>13, <1>14,
             <1>15, <1>16, <1>17
          DEF Next, TaskStep, PublishStep, Hosts
-----------------------------------------------------------------------------
\* Theorems

Inv == RequestInv /\ TaskInv /\ OperationInv /\ AuthorInv

\* What every reachable state of the Pager satisfies.
LEMMA Invariance == Spec => []Inv
<1>1. Init => Inv
  BY RequestInit, TaskInit, OperationInit, AuthorInit DEF Inv
<1>2. Inv /\ [Next]_vars => Inv'
  BY RequestStep, TaskInvStep, OperationStep, AuthorStep DEF Inv
<1>. QED  BY <1>1, <1>2, PTL DEF Spec

\* The source a Pager owns is released at most once, and never while a task
\* admitted by acquireTask is under way.
THEOREM SourceReleasedLast == Spec => []SourceOutlivesTasks
<1>1. Inv => SourceOutlivesTasks
  <2>. SUFFICES ASSUME Inv PROVE SourceOutlivesTasks
    OBVIOUS
  <2>1. CASE phase = "failed"
    BY <2>1 DEF Inv, TaskInv, SourceOutlivesTasks, Admitted, Reading, Hosts
  <2>2. CASE phase # "failed"
    BY <2>2 DEF Inv, TaskInv, SourceOutlivesTasks, Tasks
  <2>. QED  BY <2>1, <2>2
<1>. QED  BY <1>1, Invariance, PTL

\* publish installs a state only on top of the generation its fragments were
\* derived from, and never on a closed Pager.
THEOREM GenerationsChain == Spec => PublicationsChain
<1>. DEFINE A == state' # state =>
                   /\ state'.generation = state.generation + 1 /\ ~closed
                   /\ \E c \in Callers : /\ pc[c] = "install" /\ pc'[c] # pc[c]
                                         /\ req[c].base = state.generation
<1>1. Inv /\ [Next]_vars => [A]_vars
  <2>. SUFFICES ASSUME Inv, Next, state' # state PROVE A
    BY SMTT(40)
  <2>1. PICK c \in Callers : Install(c)
    BY ReadFrame, ZenonT(40) DEF Next, TaskStep, PublishStep, CloserStep, Inv, RequestInv, Build, BuildFails,
           Rebuild, ReadBegin, PublishBegin, Report, ProviderReturn, StartProgress, AskProvider,
           PublishCheck, FinishProgress, LeaveTask, Wake, CloseCall, CloseExpire, CloseReturn,
           CloserCheck, CloserRelease
  <2>2. /\ pc[c] = "install" /\ ~closed /\ state' = req[c].next
        /\ req[c].next.generation = state.generation + 1 /\ pc'[c] = "finish"
    BY <2>1 DEF Install, StillBase, Goto, Inv, RequestInv, Hosts
  <2>3. req[c].base = state.generation
    BY <2>2 DEF Inv, RequestInv, PublishRequest, Publishing
  <2>. QED  BY <2>2, <2>3
<1>. QED  BY <1>1, Invariance, PTL DEF Spec, PublicationsChain

\* Progress of an operation is monotone and ends with its last stage, late
\* reports of its provider included; Completed and Failed tell the truth about
\* what was published.
THEOREM ReportsAreHonest == Spec => ProgressHonest
<1>. DEFINE Grows(c) == op'[c].id = op[c].id =>
                          /\ op'[c].through >= op[c].through /\ op'[c].count >= op[c].count
                          /\ op[c].stage \in {"completed", "failed"} => op'[c] = op[c]
            A == \A c \in Callers :
                   /\ Grows(c)
                   /\ op'[c].stage = "completed" => author'[op'[c].published] = op'[c].id
                   /\ op'[c].stage = "failed" =>
                        \A g \in 1..MaxGeneration : author'[g] # op'[c].id
<1>1. ASSUME Inv, Inv', Next, NEW c \in Callers PROVE Grows(c)
  <2>0. /\ op[c] \in Operation /\ op[c].through \in Int /\ op[c].count \in Nat /\ OperationAt(c)
        /\ op \in [Callers -> Operation]
    BY <1>1 DEF Inv, OperationInv, Operation
  <2>1. CASE op'[c] = op[c]
    BY <2>0, <2>1
  <2>2. CASE op'[c] # op[c]
    <3>1. \/ StartProgress(c) \/ LeaveTask(c) \/ (\E pub \in Offered : Report(c, pub))
          \/ ProviderReturn(c) \/ FinishProgress(c)
      <4>. DEFINE Changes(d) == \/ StartProgress(d) \/ LeaveTask(d)
                                \/ (\E pub \in Offered : Report(d, pub))
                                \/ ProviderReturn(d) \/ FinishProgress(d)
      <4>1. ASSUME NEW d \in Callers, TaskStep(d), op' # op PROVE Changes(d)
        BY <1>1, <4>1, ReadFrame
           DEF TaskStep, PublishStep, Inv, RequestInv, AskProvider, PublishCheck, Install, Wake
      <4>2. PICK d \in Callers : Changes(d)
        BY <1>1, <2>2, <4>1
           DEF Next, CloserStep, Build, BuildFails, Rebuild, ReadBegin, PublishBegin,
               CloseCall, CloseExpire, CloseReturn, CloserCheck, CloserRelease
      <4>3. d # c => op'[c] = op[c]
        BY <2>0, <4>2 DEF StartProgress, LeaveTask, Report, ProviderReturn, FinishProgress
      <4>. QED  BY <2>2, <4>2, <4>3
    <3>2. CASE StartProgress(c)
      <4>1. op[c].id = 0
        BY <2>0, <3>2 DEF StartProgress, OperationAt, NoOp
      <4>2. op'[c].id # 0
        <5>1. op' = [op EXCEPT ![c] = [NoOp EXCEPT !.id = nextOp + 1, !.stage = "started",
                                               !.reporting = req[c].kind # "publish"]]
          BY <2>2, <3>2 DEF StartProgress
        <5>2. op'[c].id = nextOp + 1
          BY <2>0, <5>1 DEF NoOp
        <5>. QED  BY <1>1, <5>2 DEF Inv, OperationInv
      <4>. QED  BY <4>1, <4>2
    <3>3. CASE LeaveTask(c)
      <4>1. op'[c] = NoOp
        BY <2>0, <3>3 DEF LeaveTask
      <4>. QED  BY <2>0, <2>2, <4>1 DEF OperationAt, NoOp
    <3>4. CASE \E pub \in Offered : Report(c, pub)
      <4>0. PICK pub \in Offered : Report(c, pub)
        BY <3>4
      <4>1. op[c].stage \notin {"completed", "failed"}
        BY <2>0, <4>0 DEF Report, MayReport, OperationAt, Publishing
      <4>2. \/ op'[c] = [op[c] EXCEPT !.broken = TRUE]
            \/ /\ pub.through >= op[c].through /\ Len(pub.fragments) >= op[c].count
               /\ op'[c] = [op[c] EXCEPT !.stage = "advanced", !.through = pub.through,
                                         !.count = Len(pub.fragments)]
        <5>1. pub.through \in Int /\ Len(pub.fragments) \in Nat
          BY PagerAssumption
        <5>. QED  BY <2>0, <2>2, <4>0, <5>1 DEF Report
      <4>3. op'[c].through >= op[c].through /\ op'[c].count >= op[c].count
        <5>1. CASE op'[c] = [op[c] EXCEPT !.broken = TRUE]
          BY <2>0, <5>1 DEF Operation
        <5>2. ASSUME pub.through >= op[c].through, Len(pub.fragments) >= op[c].count,
                     op'[c] = [op[c] EXCEPT !.stage = "advanced", !.through = pub.through,
                                            !.count = Len(pub.fragments)]
              PROVE  op'[c].through >= op[c].through /\ op'[c].count >= op[c].count
          BY <2>0, <5>2 DEF Operation
        <5>. QED  BY <4>2, <5>1, <5>2
      <4>. QED  BY <4>1, <4>3
    <3>5. CASE ProviderReturn(c)
      <4>1. op[c].stage \notin {"completed", "failed"}
        BY <2>0, <3>5 DEF ProviderReturn, OperationAt, Publishing
      <4>2. CASE op' = [op EXCEPT ![c].reporting = FALSE]
        BY <2>0, <4>1, <4>2 DEF Operation
      <4>3. ASSUME NEW pub \in Offered, Accepts(op[c], pub),
                   op' = [op EXCEPT ![c].reporting = FALSE, ![c].through = pub.through,
                                    ![c].count = Len(pub.fragments)]
            PROVE  Grows(c)
        BY <2>0, <4>1, <4>3 DEF Operation, Accepts
      <4>. QED  BY <3>5, <4>2, <4>3 DEF ProviderReturn
    <3>6. CASE FinishProgress(c)
      <4>0. pc[c] = "finish" /\ req[c] \in PublishRequest
        BY <1>1, <3>6 DEF FinishProgress, Inv, RequestInv, Publishing
      <4>1. op[c].stage \notin {"completed", "failed"}
        BY <2>0, <4>0 DEF OperationAt, Publishing
      <4>2. CASE req[c].ok
        <5>1. op'[c].through = req[c].pub.through /\ op'[c].count = Len(req[c].pub.fragments)
          BY <2>0, <3>6, <4>2 DEF FinishProgress, Operation
        <5>2. req[c].pub.through \in Int /\ Len(req[c].pub.fragments) \in Nat
          BY <4>0, PagerAssumption DEF PublishRequest, Pubs, Unpublished
        <5>3. req[c].pub.through >= op[c].through /\ Len(req[c].pub.fragments) >= op[c].count
          BY <2>0, <4>0, <4>2, <5>2 DEF OperationAt
        <5>. QED  BY <4>1, <5>1, <5>3
      <4>3. CASE ~req[c].ok
        <5>1. op'[c].through = op[c].through /\ op'[c].count = op[c].count
          BY <2>0, <3>6, <4>3 DEF FinishProgress, Operation
        <5>. QED  BY <2>0, <4>1, <5>1
      <4>. QED  BY <4>2, <4>3
    <3>. QED  BY <3>1, <3>2, <3>3, <3>4, <3>5, <3>6
  <2>. QED  BY <2>1, <2>2
<1>2. ASSUME Inv, Inv', [Next]_vars PROVE [A]_vars
  <2>. SUFFICES ASSUME Next PROVE A
    BY <1>2
  <2>1. \A c \in Callers : AuthorAt(c)'
    BY <1>2 DEF Inv, AuthorInv
  <2>. QED  BY <1>1, <1>2, <2>1 DEF AuthorAt
<1>. QED  BY <1>2, Invariance, PTL DEF Spec, ProgressHonest

-----------------------------------------------------------------------------
\* Sums of bytes

\* What the budgets add up: the bytes of the members of S.
Bytes(r, S) == MapThenSumSet(LAMBDA x : r[x].bytes, S)
Sized(r, S) == IsFiniteSet(S) /\ \A x \in S : r[x].bytes \in Int

\* The body of the recursion that sums bytes.
BytesBody(r, S, g) ==
    [s \in SUBSET S |-> IF s = {} THEN 0
                        ELSE LET x == CHOOSE x \in s : TRUE IN r[x].bytes + g[s \ {x}]]

\* What the recursion computes is a sum.
LEMMA BytesAreSums ==
    ASSUME NEW r, NEW S, Sized(r, S)
    PROVE  \E g : IsSum(g, S, [x \in S |-> r[x].bytes]) /\ Bytes(r, S) = g[S]
<1>. DEFINE f == [x \in S |-> r[x].bytes]
            pick == [s \in (SUBSET S) \ {{}} |-> CHOOSE x \in s : TRUE]
            step == [p \in S \X Int |-> f[p[1]] + p[2]]
            sum == CHOOSE g : g = BytesBody(r, S, g)
<1>1. f \in [S -> Int] /\ \A x \in S : f[x] = r[x].bytes
  BY DEF Sized
<1>2. ASSUME NEW s \in (SUBSET S) \ {{}}
      PROVE  pick[s] = (CHOOSE x \in s : TRUE) /\ pick[s] \in s
  OBVIOUS
<1>3. pick \in Picks(S)
  <2>1. pick \in [(SUBSET S) \ {{}} -> S]
    BY <1>2
  <2>. HIDE DEF pick
  <2>. QED  BY <1>2, <2>1 DEF Picks
<1>4. /\ step \in [S \X Int -> Int]
      /\ \A x \in S, n \in Int : step[<<x, n>>] = f[x] + n
  <2>. HIDE DEF f
  <2>. QED  BY <1>1
<1>. HIDE DEF f, pick, step
<1>5. PICK u \in [SUBSET S -> Int] : IsFold(u, S, 0, pick, step)
  <2>1. IsFiniteSet(S) /\ 0 \in Int
    BY DEF Sized
  <2>. QED  BY <1>3, <1>4, <2>1, FoldExists
<1>6. u = BytesBody(r, S, u)
  <2>1. ASSUME NEW s \in SUBSET S PROVE u[s] = BytesBody(r, S, u)[s]
    <3>1. CASE s = {}
      BY <1>5, <3>1 DEF IsFold, BytesBody
    <3>2. CASE s # {}
      <4>1. PICK x : x = CHOOSE y \in s : TRUE
        OBVIOUS
      <4>2. x \in s /\ pick[s] = x
        BY <1>2, <3>2, <4>1
      <4>3. u[s] = step[<<x, u[s \ {x}]>>]
        BY <1>5, <3>2, <4>2 DEF IsFold
      <4>4. s \ {x} \in SUBSET S /\ u[s \ {x}] \in Int
        BY <1>5
      <4>5. u[s] = r[x].bytes + u[s \ {x}]
        BY <1>1, <1>4, <4>2, <4>3, <4>4
      <4>6. BytesBody(r, S, u)[s] = r[x].bytes + u[s \ {x}]
        BY <3>2, <4>1 DEF BytesBody
      <4>. QED  BY <4>5, <4>6
    <3>. QED  BY <3>1, <3>2
  <2>2. DOMAIN u = SUBSET S /\ DOMAIN BytesBody(r, S, u) = SUBSET S
    BY DEF BytesBody
  <2>. QED  BY <2>1, <2>2 DEF BytesBody
<1>7. sum = BytesBody(r, S, sum)
  BY <1>6
<1>8. Bytes(r, S) = sum[S]
  BY DEF Bytes, MapThenSumSet, MapThenFoldSet, BytesBody
<1>. HIDE DEF sum
<1>9. ASSUME NEW s \in (SUBSET S) \ {{}}
      PROVE  pick[s] \in S /\ sum[s] = f[pick[s]] + sum[s \ {pick[s]}]
  <2>1. pick[s] \in S
    BY <1>2
  <2>2. sum[s] = r[pick[s]].bytes + sum[s \ {pick[s]}]
    BY <1>2, <1>7 DEF BytesBody
  <2>. QED  BY <1>1, <2>1, <2>2
<1>10. sum[{}] = 0
  BY <1>7 DEF BytesBody
<1>11. sum \in [SUBSET S -> Int]
  <2>. DEFINE Done == {n \in Nat : \A s \in SUBSET S : Cardinality(s) <= n => sum[s] \in Int}
  <2>1. 0 \in Done
    <3>. SUFFICES ASSUME NEW s \in SUBSET S, Cardinality(s) <= 0 PROVE sum[s] \in Int
      OBVIOUS
    <3>1. s = {}
      BY SubsetSizes DEF Sized
    <3>. QED  BY <1>10, <3>1
  <2>2. ASSUME NEW n \in Nat, n \in Done PROVE n + 1 \in Done
    <3>. SUFFICES ASSUME NEW s \in SUBSET S, Cardinality(s) <= n + 1 PROVE sum[s] \in Int
      OBVIOUS
    <3>0. CASE s = {}
      BY <1>10, <3>0
    <3>. SUFFICES ASSUME s # {} PROVE sum[s] \in Int
      BY <3>0
    <3>1. pick[s] \in s /\ f[pick[s]] \in Int /\ s \ {pick[s]} \in SUBSET S
      BY <1>1, <1>2
    <3>2. Cardinality(s \ {pick[s]}) <= n
      <4>1. Cardinality(s) \in Nat /\ Cardinality(s \ {pick[s]}) = Cardinality(s) - 1
        BY <3>1, SubsetSizes DEF Sized
      <4>. QED  BY <4>1
    <3>3. sum[s \ {pick[s]}] \in Int
      BY <2>2, <3>1, <3>2
    <3>4. sum[s] = f[pick[s]] + sum[s \ {pick[s]}]
      BY <1>9
    <3>. QED  BY <3>1, <3>3, <3>4
  <2>3. \A n \in Nat : n \in Done
    <3>. HIDE DEF Done
    <3>. QED  BY <2>1, <2>2, SetInduction
  <2>4. ASSUME NEW s \in SUBSET S PROVE sum[s] \in Int
    <3>1. Cardinality(s) \in Nat /\ Cardinality(s) <= Cardinality(s)
      BY SubsetSizes DEF Sized
    <3>. QED  BY <2>3, <3>1
  <2>. QED  BY <1>7, <2>4 DEF BytesBody
<1>12. IsSum(sum, S, f)
  BY <1>1, <1>3, <1>9, <1>10, <1>11, FoldIsSum DEF Sized
<1>. QED  BY <1>8, <1>12 DEF f

\* CachedBytes is the same sum, over the places of a sequence.
LEMMA CachedIsSum == \A entries : CachedBytes(entries) = Bytes(entries, DOMAIN entries)
BY DEF CachedBytes, Bytes, FoldSeq, FoldFunction, FoldFunctionOnSet, MapThenSumSet, MapThenFoldSet

\* A sum of bytes is a number, and of nothing it is 0.
LEMMA BytesInt == ASSUME NEW r, NEW S, Sized(r, S) PROVE Bytes(r, S) \in Int
<1>1. PICK g : IsSum(g, S, [x \in S |-> r[x].bytes]) /\ Bytes(r, S) = g[S]
  BY BytesAreSums
<1>. QED  BY <1>1 DEF IsSum

LEMMA BytesEmpty == \A r : Bytes(r, {}) = 0
<1>. SUFFICES ASSUME NEW r PROVE Bytes(r, {}) = 0
  OBVIOUS
<1>1. Sized(r, {})
  BY FS_EmptySet DEF Sized
<1>2. PICK g : IsSum(g, {}, [x \in {} |-> r[x].bytes]) /\ Bytes(r, {}) = g[{}]
  BY <1>1, BytesAreSums
<1>. QED  BY <1>2 DEF IsSum

\* Terms that correspond one to one give the same sum.
Matches(b, r, S, q, R) ==
    /\ b \in [S -> R]
    /\ \A x, y \in S : b[x] = b[y] => x = y
    /\ \A z \in R : \E x \in S : b[x] = z
    /\ \A x \in S : r[x].bytes = q[b[x]].bytes

LEMMA BytesReindex ==
    ASSUME NEW r, NEW S, Sized(r, S), NEW q, NEW R, Sized(q, R),
           NEW b, Matches(b, r, S, q, R)
    PROVE  Bytes(r, S) = Bytes(q, R)
<1>. DEFINE f == [x \in S |-> r[x].bytes]
            e == [x \in R |-> q[x].bytes]
<1>1. PICK g : IsSum(g, S, f) /\ Bytes(r, S) = g[S]
  BY BytesAreSums
<1>2. PICK h : IsSum(h, R, e) /\ Bytes(q, R) = h[R]
  BY BytesAreSums
<1>3. \A x \in S : f[x] = e[b[x]]
  BY DEF Matches
<1>. HIDE DEF f, e
<1>4. g[S] = h[R]
  BY <1>1, <1>2, <1>3, SumReindex DEF Sized, Matches
<1>. QED  BY <1>1, <1>2, <1>4

\* The sum only looks at the terms.
LEMMA BytesSame ==
    ASSUME NEW r, NEW q, NEW S, Sized(r, S), \A x \in S : r[x].bytes = q[x].bytes
    PROVE  Sized(q, S) /\ Bytes(r, S) = Bytes(q, S)
<1>. DEFINE b == [x \in S |-> x]
<1>1. Sized(q, S)
  BY DEF Sized
<1>2. b \in [S -> S] /\ \A x \in S : b[x] = x
  OBVIOUS
<1>. HIDE DEF b
<1>3. Matches(b, r, S, q, S)
  BY <1>2 DEF Matches
<1>. QED  BY <1>1, <1>3, BytesReindex

\* Any term may be taken out of the sum.
LEMMA BytesSplit ==
    ASSUME NEW r, NEW S, Sized(r, S), NEW z \in S
    PROVE  /\ Sized(r, S \ {z})
           /\ Bytes(r, S) = r[z].bytes + Bytes(r, S \ {z})
<1>. DEFINE f == [x \in S |-> r[x].bytes]
            R == S \ {z}
            e == [x \in R |-> r[x].bytes]
            b == [x \in R |-> x]
<1>1. Sized(r, R)
  BY FS_Subset DEF Sized
<1>2. PICK g : IsSum(g, S, f) /\ Bytes(r, S) = g[S]
  BY BytesAreSums
<1>3. PICK h : IsSum(h, R, e) /\ Bytes(r, R) = h[R]
  BY <1>1, BytesAreSums
<1>4. f[z] = r[z].bytes /\ (\A x \in R : f[x] = e[b[x]]) /\ b \in [R -> R]
      /\ \A x \in R : b[x] = x
  OBVIOUS
<1>5. R \in SUBSET S /\ z \notin R
  OBVIOUS
<1>6. g[S] = f[z] + g[R]
  <2>. HIDE DEF f
  <2>. QED  BY <1>2 DEF IsSum
<1>. DEFINE k == [s \in SUBSET R |-> g[s]]
<1>. HIDE DEF f, e, b, R
<1>7. k[R] = g[R]
  OBVIOUS
<1>8. IsSum(k, R, f)
  <2>1. k \in [SUBSET R -> Int] /\ k[{}] = 0
    BY <1>2, <1>5 DEF IsSum
  <2>2. ASSUME NEW s \in SUBSET R, NEW x \in s PROVE k[s] = f[x] + k[s \ {x}]
    <3>1. s \in SUBSET S /\ s \ {x} \in SUBSET R
      BY <1>5
    <3>2. g[s] = f[x] + g[s \ {x}]
      BY <1>2, <3>1 DEF IsSum
    <3>. QED  BY <3>1, <3>2
  <2>. HIDE DEF k
  <2>. QED  BY <2>1, <2>2 DEF IsSum
<1>. HIDE DEF k
<1>9. k[R] = h[R]
  BY <1>1, <1>3, <1>4, <1>8, SumReindex DEF Sized
<1>10. Bytes(r, S) = r[z].bytes + Bytes(r, R)
  BY <1>2, <1>3, <1>4, <1>6, <1>7, <1>9
<1>. QED  BY <1>1, <1>10 DEF R

-----------------------------------------------------------------------------
\* Least and greatest numbers

\* Max and Min of a set of numbers between two bounds.
LEMMA MaxIs ==
    ASSUME NEW a \in Int, NEW b \in Int, NEW D \in SUBSET (a..b), D # {}
    PROVE  Max(D) \in D /\ \A y \in D : Max(D) >= y
<1>1. IsFiniteSet(a..b)
  BY FS_Interval
<1>2. IsFiniteSet(D)
  BY <1>1, FS_Subset
<1>3. D \in SUBSET Int
  OBVIOUS
<1>4. \E m \in D : \A y \in D : m >= y
  BY <1>2, <1>3, GreatestOf
<1>. QED  BY <1>4 DEF Max

LEMMA MinIs ==
    ASSUME NEW D \in SUBSET Nat, D # {}
    PROVE  Min(D) \in D /\ \A y \in D : Min(D) <= y
<1>1. \E m \in D : \A y \in D : m <= y
  BY LeastOf
<1>. QED  BY <1>1 DEF Min

-----------------------------------------------------------------------------
\* The cache list

Entry == [key : [generation : Nat, index : Nat], bytes : Int]

\* The bytes of a list can be summed.
LEMMA SeqSized ==
    ASSUME NEW entries \in Seq(Entry)
    PROVE  /\ DOMAIN entries = 1..Len(entries) /\ Len(entries) \in Nat
           /\ Sized(entries, 1..Len(entries))
           /\ CachedBytes(entries) = Bytes(entries, 1..Len(entries))
           /\ \A i \in 1..Len(entries) : entries[i] \in Entry
<1>1. DOMAIN entries = 1..Len(entries) /\ Len(entries) \in Nat
      /\ \A i \in 1..Len(entries) : entries[i] \in Entry
  OBVIOUS
<1>2. \A i \in 1..Len(entries) : entries[i].bytes \in Int
  BY <1>1 DEF Entry
<1>3. IsFiniteSet(1..Len(entries))
  BY <1>1, FS_Interval
<1>. QED  BY <1>1, <1>2, <1>3, CachedIsSum DEF Sized

\* A list in another order.
Permutes(moved, entries) ==
    /\ moved \in Seq(Entry) /\ Len(moved) = Len(entries)
    /\ \E b \in [1..Len(entries) -> 1..Len(entries)] :
         /\ \A i, j \in 1..Len(entries) : b[i] = b[j] => i = j
         /\ \A k \in 1..Len(entries) : \E i \in 1..Len(entries) : b[i] = k
         /\ \A i \in 1..Len(entries) : moved[i] = entries[b[i]]

\* A hit moves an entry to the front, and the others keep their order.
LEMMA MoveToFront ==
    ASSUME NEW entries \in Seq(Entry), NEW hit \in DOMAIN entries
    PROVE  Permutes(<<entries[hit]>> \o RemoveAt(entries, hit), entries)
<1>. DEFINE n == Len(entries)
            left == SubSeq(entries, 1, hit - 1)
            right == SubSeq(entries, hit + 1, n)
            rest == left \o right
            moved == <<entries[hit]>> \o rest
            b == [i \in 1..n |-> IF i = 1 THEN hit ELSE IF i <= hit THEN i - 1 ELSE i]
<1>1. n \in Nat /\ hit \in 1..n /\ \A i \in 1..n : entries[i] \in Entry
  BY SeqSized
<1>2. /\ left \in Seq(Entry) /\ Len(left) = hit - 1
      /\ \A i \in 1..(hit - 1) : left[i] = entries[i]
  <2>. HIDE DEF n
  <2>. QED  BY <1>1, SubSeqProperties
<1>3. /\ right \in Seq(Entry) /\ Len(right) = n - hit
      /\ \A i \in 1..(n - hit) : right[i] = entries[hit + i]
  <2>. HIDE DEF n
  <2>. QED  BY <1>1, SubSeqProperties
<1>4. RemoveAt(entries, hit) = rest
  BY DEF RemoveAt
<1>. HIDE DEF n, left, right
<1>5. /\ rest \in Seq(Entry) /\ Len(rest) = n - 1
      /\ \A i \in 1..(n - 1) : rest[i] = entries[IF i <= hit - 1 THEN i ELSE i + 1]
  <2>1. rest \in Seq(Entry) /\ Len(rest) = n - 1
    <3>1. rest \in Seq(Entry) /\ Len(rest) = Len(left) + Len(right)
      BY <1>2, <1>3, ConcatProperties
    <3>2. (hit - 1) + (n - hit) = n - 1
      BY <1>1
    <3>. QED  BY <1>2, <1>3, <3>1, <3>2
  <2>2. ASSUME NEW i \in 1..(n - 1)
        PROVE  rest[i] = entries[IF i <= hit - 1 THEN i ELSE i + 1]
    <3>1. rest[i] = IF i <= hit - 1 THEN left[i] ELSE right[i - (hit - 1)]
      <4>1. i \in 1..(Len(left) + Len(right))
        BY <1>1, <1>2, <1>3
      <4>2. rest[i] = IF i <= Len(left) THEN left[i] ELSE right[i - Len(left)]
        BY <1>2, <1>3, <4>1, ConcatProperties
      <4>. QED  BY <1>2, <4>2
    <3>2. CASE i <= hit - 1
      BY <1>1, <1>2, <3>1, <3>2
    <3>3. CASE ~(i <= hit - 1)
      <4>1. i - (hit - 1) \in 1..(n - hit) /\ hit + (i - (hit - 1)) = i + 1
        BY <1>1, <3>3
      <4>. QED  BY <1>3, <3>1, <3>3, <4>1
    <3>. QED  BY <3>2, <3>3
  <2>. QED  BY <2>1, <2>2
<1>. HIDE DEF rest
<1>6. /\ <<entries[hit]>> \in Seq(Entry) /\ Len(<<entries[hit]>>) = 1
      /\ <<entries[hit]>>[1] = entries[hit]
  BY <1>1
<1>7. /\ moved \in Seq(Entry) /\ Len(moved) = n
      /\ \A i \in 1..n : moved[i] = IF i = 1 THEN entries[hit] ELSE rest[i - 1]
  <2>1. moved \in Seq(Entry) /\ Len(moved) = n
    BY <1>1, <1>5, <1>6, ConcatProperties
  <2>2. ASSUME NEW i \in 1..n PROVE moved[i] = IF i = 1 THEN entries[hit] ELSE rest[i - 1]
    <3>0. i \in 1..(Len(<<entries[hit]>>) + Len(rest))
      BY <1>1, <1>5, <1>6
    <3>1. moved[i] = IF i <= 1 THEN <<entries[hit]>>[i] ELSE rest[i - 1]
      BY <1>5, <1>6, <3>0, ConcatProperties
    <3>2. CASE i = 1
      BY <1>6, <3>1, <3>2
    <3>3. CASE i # 1
      <4>1. ~(i <= 1)
        BY <1>1, <3>3
      <4>. QED  BY <3>1, <3>3, <4>1
    <3>. QED  BY <3>2, <3>3
  <2>. QED  BY <2>1, <2>2
<1>. HIDE DEF moved
<1>8. b \in [1..n -> 1..n]
  BY <1>1
<1>9. \A i, j \in 1..n : b[i] = b[j] => i = j
  BY <1>1
<1>10. ASSUME NEW k \in 1..n PROVE \E i \in 1..n : b[i] = k
  <2>1. CASE k = hit
    BY <1>1, <2>1
  <2>2. CASE k < hit
    <3>1. k + 1 \in 1..n /\ b[k + 1] = k
      BY <1>1, <2>2
    <3>. QED  BY <3>1
  <2>3. CASE k > hit
    BY <1>1, <2>3
  <2>. QED  BY <1>1, <2>1, <2>2, <2>3
<1>11. ASSUME NEW i \in 1..n PROVE moved[i] = entries[b[i]]
  <2>1. CASE i = 1
    BY <1>1, <1>7, <2>1
  <2>2. CASE i # 1
    <3>1. i - 1 \in 1..(n - 1) /\ (i - 1) + 1 = i
      BY <1>1, <2>2
    <3>2. moved[i] = entries[IF i - 1 <= hit - 1 THEN i - 1 ELSE (i - 1) + 1]
      BY <1>5, <1>7, <2>2, <3>1
    <3>3. b[i] = IF i - 1 <= hit - 1 THEN i - 1 ELSE (i - 1) + 1
      BY <1>1, <2>2
    <3>. QED  BY <3>2, <3>3
  <2>. QED  BY <2>1, <2>2
<1>. HIDE DEF b
<1>12. Permutes(moved, entries)
  BY <1>7, <1>8, <1>9, <1>10, <1>11 DEF Permutes, n
<1>. QED  BY <1>4, <1>12 DEF moved

\* Pages of one generation, each at most once.
KeysOK(entries, g) ==
    /\ entries \in Seq(Entry)
    /\ \A i \in DOMAIN entries : entries[i].key.generation = g
    /\ \A i, j \in DOMAIN entries : entries[i].key = entries[j].key => i = j
CacheOK(entries, g) == KeysOK(entries, g) /\ CachedBytes(entries) <= CacheBytes

LEMMA EmptyCache == \A g : CacheOK(<<>>, g)
<1>1. <<>> \in Seq(Entry) /\ DOMAIN <<>> = {}
  OBVIOUS
<1>2. CachedBytes(<<>>) = 0
  BY <1>1, CachedIsSum, BytesEmpty
<1>. QED  BY <1>1, <1>2, PagerAssumption DEF CacheOK, KeysOK

\* Moving an entry changes neither the keys nor the bytes of the list.
LEMMA MovedCache ==
    ASSUME NEW entries, NEW g, CacheOK(entries, g), NEW hit \in DOMAIN entries
    PROVE  CacheOK(<<entries[hit]>> \o RemoveAt(entries, hit), g)
<1>. DEFINE moved == <<entries[hit]>> \o RemoveAt(entries, hit)
            n == Len(entries)
<1>0. entries \in Seq(Entry)
  BY DEF CacheOK, KeysOK
<1>1. Permutes(moved, entries)
  BY <1>0, MoveToFront
<1>. HIDE DEF moved
<1>2. PICK b \in [1..n -> 1..n] :
        /\ \A i, j \in 1..n : b[i] = b[j] => i = j
        /\ \A k \in 1..n : \E i \in 1..n : b[i] = k
        /\ \A i \in 1..n : moved[i] = entries[b[i]]
  BY <1>1 DEF Permutes
<1>3. moved \in Seq(Entry) /\ Len(moved) = n /\ DOMAIN moved = 1..n /\ DOMAIN entries = 1..n
  BY <1>0, <1>1, SeqSized DEF Permutes
<1>4. CachedBytes(moved) = CachedBytes(entries)
  <2>1. /\ Sized(moved, 1..n) /\ Sized(entries, 1..n)
        /\ CachedBytes(moved) = Bytes(moved, 1..n) /\ CachedBytes(entries) = Bytes(entries, 1..n)
    BY <1>0, <1>3, SeqSized
  <2>2. \A i \in 1..n : moved[i].bytes = entries[b[i]].bytes
    BY <1>2
  <2>3. Bytes(moved, 1..n) = Bytes(entries, 1..n)
    <3>1. Matches(b, moved, 1..n, entries, 1..n)
      BY <1>2, <2>2 DEF Matches
    <3>. QED  BY <2>1, <3>1, BytesReindex
  <2>. QED  BY <2>1, <2>3
<1>5. ASSUME NEW i \in 1..n, NEW j \in 1..n
      PROVE  /\ moved[i].key.generation = g
             /\ moved[i].key = moved[j].key => i = j
  <2>1. b[i] \in 1..n /\ b[j] \in 1..n /\ moved[i] = entries[b[i]] /\ moved[j] = entries[b[j]]
    BY <1>2
  <2>2. entries[b[i]].key.generation = g
        /\ (entries[b[i]].key = entries[b[j]].key => b[i] = b[j])
    BY <1>3, <2>1 DEF CacheOK, KeysOK
  <2>. QED  BY <1>2, <2>1, <2>2
<1>6. KeysOK(moved, g)
  BY <1>3, <1>5 DEF KeysOK
<1>7. CachedBytes(moved) <= CacheBytes
  BY <1>4 DEF CacheOK
<1>8. CacheOK(moved, g)
  BY <1>6, <1>7 DEF CacheOK
<1>. QED  BY <1>8 DEF moved

\* A page that is not in the list may be put in front of it.
LEMMA PushedKeys ==
    ASSUME NEW entries, NEW g, KeysOK(entries, g), NEW e \in Entry, e.key.generation = g,
           \A i \in DOMAIN entries : entries[i].key # e.key
    PROVE  KeysOK(<<e>> \o entries, g)
<1>. DEFINE pushed == <<e>> \o entries
            n == Len(entries)
<1>0. entries \in Seq(Entry) /\ n \in Nat /\ DOMAIN entries = 1..n
  BY DEF KeysOK
<1>. HIDE DEF n
<1>1. /\ pushed \in Seq(Entry) /\ DOMAIN pushed = 1..(n + 1) /\ pushed[1] = e
      /\ \A i \in 2..(n + 1) : i - 1 \in 1..n /\ pushed[i] = entries[i - 1]
  BY <1>0 DEF n
<1>. HIDE DEF pushed
<1>2. ASSUME NEW i \in 1..(n + 1) PROVE pushed[i].key.generation = g
  <2>1. CASE i = 1
    BY <1>1, <2>1
  <2>2. CASE i # 1
    <3>1. i \in 2..(n + 1)
      BY <1>0, <2>2
    <3>2. i - 1 \in DOMAIN entries /\ pushed[i] = entries[i - 1]
      BY <1>0, <1>1, <3>1
    <3>3. entries[i - 1].key.generation = g
      BY <3>2 DEF KeysOK
    <3>. QED  BY <3>2, <3>3
  <2>. QED  BY <2>1, <2>2
<1>3. ASSUME NEW i \in 1..(n + 1), NEW j \in 1..(n + 1), pushed[i].key = pushed[j].key
      PROVE  i = j
  <2>1. \A k \in 1..(n + 1) : k = 1 \/ k \in 2..(n + 1)
    BY <1>0
  <2>2. \A k \in 2..(n + 1) : pushed[k].key # pushed[1].key
    BY <1>0, <1>1
  <2>3. CASE i \in 2..(n + 1) /\ j \in 2..(n + 1)
    <3>1. /\ i - 1 \in 1..n /\ j - 1 \in 1..n
          /\ pushed[i] = entries[i - 1] /\ pushed[j] = entries[j - 1]
      BY <1>1, <2>3
    <3>2. i - 1 = j - 1
      BY <1>0, <1>3, <3>1 DEF KeysOK
    <3>. QED  BY <1>0, <3>2
  <2>. QED  BY <1>3, <2>1, <2>2, <2>3
<1>4. KeysOK(pushed, g)
  BY <1>1, <1>2, <1>3 DEF KeysOK
<1>. QED  BY <1>4 DEF pushed

\* Evictions leave a prefix within the budget: the empty one always fits.
LEMMA EvictedCache ==
    ASSUME NEW entries, NEW g, KeysOK(entries, g)
    PROVE  CacheOK(Evict(entries), g)
<1>. DEFINE n == Len(entries)
            Fits == {m \in 0..n : CachedBytes(SubSeq(entries, 1, m)) <= CacheBytes}
            k == Max(Fits)
            kept == SubSeq(entries, 1, k)
<1>0. entries \in Seq(Entry) /\ n \in Nat /\ DOMAIN entries = 1..n
  BY DEF KeysOK
<1>1. 0 \in Fits
  <2>1. SubSeq(entries, 1, 0) = <<>>
    BY SubSeqEmpty
  <2>2. CachedBytes(<<>>) <= CacheBytes
    BY EmptyCache DEF CacheOK
  <2>3. CachedBytes(SubSeq(entries, 1, 0)) <= CacheBytes
    BY <2>1, <2>2, Zenon
  <2>4. 0 \in 0..n
    BY <1>0
  <2>. QED  BY <2>3, <2>4
<1>2. k \in Fits
  <2>1. Fits \in SUBSET (0..n) /\ Fits # {}
    BY <1>1
  <2>2. 0 \in Int /\ n \in Int
    BY <1>0
  <2>. HIDE DEF Fits, n
  <2>. QED  BY <2>1, <2>2, MaxIs
<1>3. k \in 0..n /\ CachedBytes(kept) <= CacheBytes
  BY <1>2
<1>4. Evict(entries) = kept
  BY DEF Evict
<1>. HIDE DEF k, n
<1>5. \A i \in 1..k : i \in 1..n /\ entries[i] \in Entry
  BY <1>0, <1>3 DEF n
<1>6. /\ kept \in Seq(Entry) /\ DOMAIN kept = 1..k
      /\ \A i \in 1..k : kept[i] = entries[i]
  <2>1. k \in Int /\ 1 \in Int
    BY <1>0, <1>3
  <2>2. /\ kept \in Seq(Entry) /\ Len(kept) = IF 1 <= k THEN k - 1 + 1 ELSE 0
        /\ \A i \in 1..(k - 1 + 1) : kept[i] = entries[1 + i - 1]
    BY <1>5, <2>1, SubSeqProperties
  <2>3. k - 1 + 1 = k /\ (~(1 <= k) => k = 0) /\ \A i \in 1..k : 1 + i - 1 = i
    BY <1>0, <1>3
  <2>. QED  BY <2>2, <2>3
<1>. HIDE DEF kept
<1>7. KeysOK(kept, g)
  BY <1>0, <1>5, <1>6 DEF KeysOK
<1>. QED  BY <1>3, <1>4, <1>7 DEF CacheOK

-----------------------------------------------------------------------------
\* The pages of a state

\* The offsets of the runes are numbers.
LEMMA StartsInt ==
    ASSUME NEW s \in Sources
    PROVE  /\ Len(s) \in Nat /\ Length(s) \in Int
           /\ \A k \in 0..Len(s) : Starts(s)[k] \in Int
<1>. DEFINE n == Len(s)
            step == [p \in (1..n) \X Int |-> p[2] + Width[s[p[1]]]]
            Body(g) == [k \in 0..n |-> IF k = 0 THEN 0 ELSE g[k - 1] + Width[s[k]]]
            starts == CHOOSE g : g = Body(g)
<1>1. n \in Nat /\ \A k \in 1..n : Width[s[k]] \in Int
  <2>1. s \in Seq(DOMAIN Width) /\ \A k \in DOMAIN Width : Width[k] \in Int
    BY PagerAssumption, LayoutAssumption
  <2>2. \A k \in 1..n : s[k] \in DOMAIN Width
    BY <2>1
  <2>. QED  BY <2>1, <2>2
<1>2. step \in [(1..n) \X Int -> Int] /\ \A k \in 1..n, x \in Int : step[<<k, x>>] = x + Width[s[k]]
  <2>. HIDE DEF n
  <2>. QED  BY <1>1
<1>. HIDE DEF n, step
<1>3. PICK u \in [0..n -> Int] : IsChain(u, n, 0, step)
  <2>1. 0 \in Int
    OBVIOUS
  <2>. QED  BY <1>1, <1>2, <2>1, ChainExists
<1>4. u = Body(u)
  <2>1. ASSUME NEW k \in 0..n PROVE u[k] = Body(u)[k]
    <3>1. CASE k = 0
      BY <1>3, <3>1 DEF IsChain
    <3>2. CASE k # 0
      <4>1. k \in 1..n /\ k - 1 \in 0..n
        BY <1>1, <3>2
      <4>2. u[k - 1] \in Int /\ u[k] = step[<<k, u[k - 1]>>]
        BY <1>3, <4>1 DEF IsChain
      <4>. QED  BY <1>2, <3>2, <4>1, <4>2
    <3>. QED  BY <3>1, <3>2
  <2>. QED  BY <1>3, <2>1
<1>5. starts = Body(starts)
  <2>. HIDE DEF Body
  <2>. QED  BY <1>4
<1>6. Starts(s) = starts
  BY DEF Starts, n
<1>. HIDE DEF starts
<1>7. starts[0] = 0 /\ \A k \in 1..n : starts[k] = starts[k - 1] + Width[s[k]]
  <2>1. starts[0] = Body(starts)[0] /\ \A k \in 1..n : starts[k] = Body(starts)[k]
    <3>. HIDE DEF Body
    <3>. QED  BY <1>5
  <2>2. 0 \in 0..n /\ \A k \in 1..n : k \in 0..n /\ k # 0
    BY <1>1
  <2>. QED  BY <2>1, <2>2
<1>. DEFINE Done == {k \in Nat : k <= n => starts[k] \in Int}
<1>8. 0 \in Done
  BY <1>7
<1>9. ASSUME NEW k \in Nat, k \in Done PROVE k + 1 \in Done
  <2>. SUFFICES ASSUME k + 1 <= n PROVE starts[k + 1] \in Int
    OBVIOUS
  <2>1. k + 1 \in 1..n /\ (k + 1) - 1 = k /\ starts[k] \in Int
    BY <1>1, <1>9
  <2>2. starts[k + 1] = starts[k] + Width[s[k + 1]]
    BY <1>7, <2>1
  <2>. QED  BY <1>1, <2>1, <2>2
<1>10. \A k \in Nat : k \in Done
  <2>. HIDE DEF Done
  <2>. QED  BY <1>8, <1>9, SetInduction
<1>11. \A k \in 0..n : starts[k] \in Int
  BY <1>1, <1>10
<1>. QED  BY <1>1, <1>6, <1>11 DEF Length, n

\* What the scan of buildLogicalPages keeps.
LogicalPage ==
    [start : Int, end : Int, startLine : Int, endLine : Int, continuesFrom : BOOLEAN,
     continuesTo : BOOLEAN, endsWithLF : BOOLEAN]
Scans == [pages : Seq(LogicalPage), start : Int, startLine : Int, line : Int, lf : BOOLEAN]

LEMMA AppendType ==
    ASSUME NEW scan \in Scans, NEW length, NEW end \in Int, NEW line \in Int, NEW lf \in BOOLEAN
    PROVE  AppendPage(scan, length, end, line, lf) \in Scans
<1>. DEFINE from == /\ scan.start > 0 /\ scan.pages # <<>>
                    /\ ~scan.pages[Len(scan.pages)].endsWithLF
            page == [start |-> scan.start, end |-> end,
                     startLine |-> scan.startLine, endLine |-> line,
                     continuesFrom |-> from,
                     continuesTo |-> end < length /\ ~lf,
                     endsWithLF |-> lf]
<1>1. from \in BOOLEAN /\ (end < length /\ ~lf) \in BOOLEAN
  OBVIOUS
<1>2. page \in LogicalPage
  <2>. HIDE DEF from
  <2>. QED  BY <1>1 DEF LogicalPage, Scans
<1>3. AppendPage(scan, length, end, line, lf) =
        [scan EXCEPT !.pages = Append(scan.pages, page), !.start = end, !.startLine = line]
  BY DEF AppendPage
<1>. HIDE DEF page
<1>4. Append(scan.pages, page) \in Seq(LogicalPage)
  BY <1>2 DEF Scans
<1>. QED  BY <1>3, <1>4 DEF Scans

LEMMA RuneType ==
    ASSUME NEW s \in Sources, NEW scan \in Scans, NEW k \in 1..Len(s)
    PROVE  ScanRune(s, scan, k) \in Scans
<1>. DEFINE end == Starts(s)[k]
            lf == s[k] = LineFeed
            cut == IF end - scan.start > MaximumPageBytes
                   THEN AppendPage(scan, Length(s), Starts(s)[k - 1], scan.line, scan.lf)
                   ELSE scan
            read == [cut EXCEPT !.line = @ + (IF lf THEN 1 ELSE 0), !.lf = lf]
<1>1. end \in Int /\ Starts(s)[k - 1] \in Int /\ lf \in BOOLEAN
  <2>1. k \in 0..Len(s) /\ k - 1 \in 0..Len(s)
    BY StartsInt
  <2>. QED  BY <2>1, StartsInt
<1>2. cut \in Scans
  <2>1. scan.line \in Int /\ scan.lf \in BOOLEAN
    BY DEF Scans
  <2>. QED  BY <1>1, <2>1, AppendType
<1>3. ScanRune(s, scan, k) = CutBehind(read, Length(s), end)
  BY DEF ScanRune
<1>. HIDE DEF end, lf, cut
<1>4. read \in Scans
  <2>1. PICK x \in Int : x = cut.line + (IF lf THEN 1 ELSE 0)
    BY <1>2 DEF Scans
  <2>2. read = [cut EXCEPT !.line = x, !.lf = lf]
    BY <2>1, Zenon
  <2>. HIDE DEF read
  <2>. QED  BY <1>1, <1>2, <2>2 DEF Scans
<1>. HIDE DEF read
<1>5. AppendPage(read, Length(s), end, read.line, TRUE) \in Scans
  <2>1. read.line \in Int
    BY <1>4 DEF Scans
  <2>. QED  BY <1>1, <1>4, <2>1, AppendType
<1>. QED  BY <1>3, <1>4, <1>5 DEF CutBehind

\* So the scan ends with a sequence of pages.
LEMMA LogicalType == ASSUME NEW s \in Sources PROVE LogicalPages(s) \in Seq(LogicalPage)
<1>. DEFINE n == Len(s)
            empty == [pages |-> <<>>, start |-> 0, startLine |-> 0, line |-> 0, lf |-> FALSE]
            step == [p \in (1..n) \X Scans |-> ScanRune(s, p[2], p[1])]
            Body(g) == [k \in 0..n |-> IF k = 0 THEN empty ELSE ScanRune(s, g[k - 1], k)]
            scan == CHOOSE g : g = Body(g)
<1>1. n \in Nat /\ Length(s) \in Int
  BY StartsInt
<1>2. empty \in Scans
  BY DEF Scans
<1>3. /\ step \in [(1..n) \X Scans -> Scans]
      /\ \A k \in 1..n, x \in Scans : step[<<k, x>>] = ScanRune(s, x, k)
  BY RuneType
<1>. HIDE DEF empty, step
<1>4. PICK u \in [0..n -> Scans] : IsChain(u, n, empty, step)
  <2>. HIDE DEF n
  <2>. QED  BY <1>1, <1>2, <1>3, ChainExists
<1>5. u = Body(u)
  <2>1. ASSUME NEW k \in 0..n PROVE u[k] = Body(u)[k]
    <3>1. CASE k = 0
      BY <1>4, <3>1 DEF IsChain
    <3>2. CASE k # 0
      <4>1. k \in 1..n /\ k - 1 \in 0..n
        BY <1>1, <3>2
      <4>2. u[k - 1] \in Scans /\ u[k] = step[<<k, u[k - 1]>>]
        BY <1>4, <4>1 DEF IsChain
      <4>. QED  BY <1>3, <3>2, <4>1, <4>2
    <3>. QED  BY <3>1, <3>2
  <2>. QED  BY <1>4, <2>1
<1>6. scan = Body(scan)
  <2>. HIDE DEF Body
  <2>. QED  BY <1>5
<1>7. LogicalPages(s) = ScanEnd(scan[n], Length(s))
  BY DEF LogicalPages, empty
<1>. HIDE DEF scan
<1>8. scan[0] = empty /\ \A k \in 1..n : scan[k] = ScanRune(s, scan[k - 1], k)
  <2>1. scan[0] = Body(scan)[0] /\ \A k \in 1..n : scan[k] = Body(scan)[k]
    <3>. HIDE DEF Body
    <3>. QED  BY <1>6
  <2>2. 0 \in 0..n /\ \A k \in 1..n : k \in 0..n /\ k # 0
    BY <1>1
  <2>. QED  BY <2>1, <2>2
<1>. DEFINE Done == {k \in Nat : k <= n => scan[k] \in Scans}
<1>9. 0 \in Done
  BY <1>2, <1>8
<1>10. ASSUME NEW k \in Nat, k \in Done PROVE k + 1 \in Done
  <2>. SUFFICES ASSUME k + 1 <= n PROVE scan[k + 1] \in Scans
    OBVIOUS
  <2>1. k + 1 \in 1..n /\ (k + 1) - 1 = k /\ scan[k] \in Scans
    BY <1>1, <1>10
  <2>2. scan[k + 1] = ScanRune(s, scan[k], k + 1)
    BY <1>8, <2>1
  <2>. QED  BY <2>1, <2>2, RuneType
<1>11. \A k \in Nat : k \in Done
  <2>. HIDE DEF Done
  <2>. QED  BY <1>9, <1>10, SetInduction
<1>12. scan[n] \in Scans
  BY <1>1, <1>11
<1>13. ASSUME NEW last \in Scans PROVE ScanEnd(last, Length(s)) \in Seq(LogicalPage)
  <2>1. AppendPage(last, Length(s), Length(s), last.line, last.lf) \in Scans
    <3>1. last.line \in Int /\ last.lf \in BOOLEAN
      BY DEF Scans
    <3>. QED  BY <1>1, <3>1, AppendType
  <2>2. AppendPage(last, Length(s), Length(s), last.line, last.lf).pages \in Seq(LogicalPage)
        /\ last.pages \in Seq(LogicalPage)
    BY <2>1 DEF Scans
  <2>3. [start |-> 0, end |-> 0, startLine |-> 0, endLine |-> 0, continuesFrom |-> FALSE,
         continuesTo |-> FALSE, endsWithLF |-> FALSE] \in LogicalPage
    BY DEF LogicalPage
  <2>. QED  BY <2>2, <2>3 DEF ScanEnd
<1>. QED  BY <1>7, <1>12, <1>13

\* The offsets buildPublishedPages sorts are finitely many numbers.
LEMMA BoundariesFinite ==
    ASSUME NEW s \in Sources, NEW pub \in Pubs
    PROVE  /\ IsFiniteSet(Boundaries(s, pub)) /\ 0 \in Boundaries(s, pub)
           /\ Boundaries(s, pub) \in SUBSET Int
<1>. DEFINE logical == LogicalPages(s)
            f == pub.fragments
            ends == {p.end : p \in Range(logical)}
            extra == UNION {{x.start, x.end} : x \in Range(f)}
            through == IF pub.through > 0 /\ pub.through < Length(s) THEN {pub.through} ELSE {}
<1>1. Boundaries(s, pub) = ({0} \cup ends) \cup (extra \cup through)
  <2>1. ExtraOffsets(s, pub) = extra \cup through
    BY DEF ExtraOffsets
  <2>. HIDE DEF ends, extra, through
  <2>2. Boundaries(s, pub) = {0} \cup ends \cup ExtraOffsets(s, pub)
    BY DEF Boundaries, ends
  <2>. QED  BY <2>1, <2>2
<1>2. IsFiniteSet(ends) /\ ends \in SUBSET Int
  <2>1. logical \in Seq(LogicalPage)
    BY LogicalType
  <2>. HIDE DEF logical
  <2>. DEFINE n == Len(logical)
             g == [i \in 1..n |-> logical[i].end]
  <2>2. n \in Nat /\ DOMAIN logical = 1..n /\ \A i \in 1..n : logical[i].end \in Int
    <3>1. n \in Nat /\ DOMAIN logical = 1..n /\ \A i \in 1..n : logical[i] \in LogicalPage
      BY <2>1, LenProperties
    <3>. QED  BY <3>1 DEF LogicalPage
  <2>. HIDE DEF n
  <2>3. ends = {g[i] : i \in 1..n}
    BY <2>2 DEF Range
  <2>4. DOMAIN g = 1..n /\ g = [i \in 1..n |-> g[i]] /\ \A i \in 1..n : g[i] \in Int
    BY <2>2
  <2>. HIDE DEF g, ends
  <2>. QED  BY <2>2, <2>3, <2>4, FiniteValues
<1>3. IsFiniteSet(extra) /\ extra \in SUBSET Int
  <2>1. f \in Seq(Fragment)
    BY PubType
  <2>. HIDE DEF f
  <2>. DEFINE n == Len(f)
             g == [i \in 1..n |-> f[i].start]
             h == [i \in 1..n |-> f[i].end]
  <2>2. n \in Nat /\ DOMAIN f = 1..n /\ \A i \in 1..n : f[i].start \in Int /\ f[i].end \in Int
    <3>1. n \in Nat /\ DOMAIN f = 1..n /\ \A i \in 1..n : f[i] \in Fragment
      BY <2>1, LenProperties
    <3>. QED  BY <3>1 DEF Fragment
  <2>. HIDE DEF n
  <2>3. extra = {g[i] : i \in 1..n} \cup {h[i] : i \in 1..n}
    BY <2>2 DEF Range
  <2>4. /\ DOMAIN g = 1..n /\ g = [i \in 1..n |-> g[i]] /\ \A i \in 1..n : g[i] \in Int
        /\ DOMAIN h = 1..n /\ h = [i \in 1..n |-> h[i]] /\ \A i \in 1..n : h[i] \in Int
    BY <2>2
  <2>. HIDE DEF g, h, extra
  <2>5. IsFiniteSet({g[i] : i \in 1..n}) /\ IsFiniteSet({h[i] : i \in 1..n})
    BY <2>2, <2>4, FiniteValues
  <2>6. IsFiniteSet(extra)
    BY <2>3, <2>5, FS_Union
  <2>. QED  BY <2>3, <2>4, <2>6
<1>4. IsFiniteSet(through) /\ through \in SUBSET Int
  BY PubType, FS_EmptySet, FS_Singleton
<1>5. IsFiniteSet({0})
  BY FS_Singleton
<1>. HIDE DEF ends, extra, through
<1>6. IsFiniteSet({0} \cup ends) /\ IsFiniteSet(extra \cup through)
  BY <1>2, <1>3, <1>4, <1>5, FS_Union
<1>7. IsFiniteSet(({0} \cup ends) \cup (extra \cup through))
  BY <1>6, FS_Union
<1>. QED  BY <1>1, <1>2, <1>3, <1>4, <1>7

\* sort.Slice and compactOffsets give a growing sequence.
LEMMA SortedGrows ==
    ASSUME NEW D, IsFiniteSet(D), D \in SUBSET Int, D # {}
    PROVE  /\ Len(Sorted(D)) \in Nat \ {0}
           /\ \A i \in 1..Len(Sorted(D)) : Sorted(D)[i] \in Int
           /\ \A i \in 1..(Len(Sorted(D)) - 1) : Sorted(D)[i] < Sorted(D)[i + 1]
<1>. DEFINE n == Cardinality(D)
            cuts == Sorted(D)
<1>0. cuts = [i \in 1..n |-> CHOOSE x \in D : Cardinality(Below(D, x)) = i - 1]
  BY DEF Sorted, Below
<1>. HIDE DEF cuts
<1>1. n \in Nat \ {0}
  BY SubsetSizes
<1>2. ASSUME NEW i \in 1..n PROVE cuts[i] \in D /\ Cardinality(Below(D, cuts[i])) = i - 1
  <2>1. \E x \in D : Cardinality(Below(D, x)) = i - 1
    BY RankExists
  <2>2. cuts[i] = CHOOSE x \in D : Cardinality(Below(D, x)) = i - 1
    BY <1>0
  <2>. QED  BY <2>1, <2>2
<1>3. Len(cuts) = n
  <2>1. cuts \in [1..n -> D]
    BY <1>0, <1>2
  <2>2. cuts \in Seq(D)
    BY <1>1, <2>1, SeqDef
  <2>. QED  BY <1>1, <2>1, <2>2
<1>. HIDE DEF n
<1>4. ASSUME NEW i \in 1..(n - 1) PROVE cuts[i] < cuts[i + 1]
  <2>1. i \in 1..n /\ i + 1 \in 1..n
    BY <1>1
  <2>2. /\ cuts[i] \in Int /\ cuts[i + 1] \in Int
        /\ Cardinality(Below(D, cuts[i])) = i - 1 /\ Cardinality(Below(D, cuts[i + 1])) = i
    <3>1. (i + 1) - 1 = i
      BY <1>1
    <3>2. /\ cuts[i] \in D /\ cuts[i + 1] \in D
          /\ Cardinality(Below(D, cuts[i])) = i - 1
          /\ Cardinality(Below(D, cuts[i + 1])) = (i + 1) - 1
      BY <1>2, <2>1
    <3>. QED  BY <3>1, <3>2
  <2>3. ASSUME ~(cuts[i] < cuts[i + 1]) PROVE FALSE
    <3>1. Below(D, cuts[i + 1]) \in SUBSET Below(D, cuts[i])
      <4>1. \A y \in D : y < cuts[i + 1] => y < cuts[i]
        <5>1. \A y \in D : y \in Int
          OBVIOUS
        <5>. QED  BY <2>2, <2>3, <5>1
      <4>. QED  BY <4>1 DEF Below
    <3>2. IsFiniteSet(Below(D, cuts[i]))
      BY FS_Subset DEF Below
    <3>3. Cardinality(Below(D, cuts[i + 1])) <= Cardinality(Below(D, cuts[i]))
      BY <3>1, <3>2, FS_Subset
    <3>. QED  BY <1>1, <2>2, <3>3
  <2>. QED  BY <2>3
<1>5. \A i \in 1..n : cuts[i] \in Int
  BY <1>2
<1>6. Len(cuts) \in Nat \ {0} /\ (\A i \in 1..Len(cuts) : cuts[i] \in Int)
      /\ \A i \in 1..(Len(cuts) - 1) : cuts[i] < cuts[i + 1]
  BY <1>1, <1>3, <1>4, <1>5
<1>. QED  BY <1>6 DEF cuts

\* Pages cut the text into pieces that do not run backwards.
PagesOK(pages) ==
    /\ Len(pages) \in Nat /\ DOMAIN pages = 1..Len(pages)
    /\ \A i \in 1..Len(pages) : /\ pages[i].start \in Int /\ pages[i].end \in Int
                                /\ pages[i].start <= pages[i].end

\* So the pages of every publication are well formed, valid or not.
LEMMA PublishedOK ==
    ASSUME NEW s \in Sources, NEW pub \in Pubs
    PROVE  PagesOK(PublishedPages(s, pub))
<1>. DEFINE pages == PublishedPages(s, pub)
            cuts == Sorted(Boundaries(s, pub))
            m == Len(cuts) - 1
<1>1. /\ Len(cuts) \in Nat \ {0} /\ \A i \in 1..Len(cuts) : cuts[i] \in Int
      /\ \A i \in 1..m : cuts[i] < cuts[i + 1]
  <2>1. Boundaries(s, pub) # {}
    BY BoundariesFinite
  <2>. QED  BY <2>1, BoundariesFinite, SortedGrows
<1>. HIDE DEF cuts
<1>2. m \in Nat /\ \A i \in 1..m : /\ cuts[i] \in Int /\ cuts[i + 1] \in Int
                                   /\ cuts[i] <= cuts[i + 1]
  <2>1. m \in Nat /\ \A i \in 1..m : i \in 1..Len(cuts) /\ i + 1 \in 1..Len(cuts)
    BY <1>1
  <2>2. \A i \in 1..m : cuts[i] \in Int /\ cuts[i + 1] \in Int
    BY <1>1, <2>1
  <2>. QED  BY <1>1, <2>1, <2>2
<1>3. CASE Length(s) = 0
  <2>. DEFINE p == [start |-> 0, end |-> 0, startLine |-> 0, endLine |-> 0,
                   continuesFrom |-> FALSE, continuesTo |-> FALSE, fragment |-> 0,
                   indexed |-> pub.complete, continuation |-> 0, continuations |-> 0]
  <2>0. pages = <<p>>
    BY <1>3 DEF PublishedPages, PagesBetween
  <2>1. pages = <<p>> /\ p.start = 0 /\ p.end = 0
    BY <2>0
  <2>. HIDE DEF pages, p
  <2>2. Len(pages) = 1 /\ DOMAIN pages = 1..1 /\ pages[1] = p
    BY <2>1
  <2>3. PagesOK(pages)
    BY <2>1, <2>2 DEF PagesOK
  <2>. QED  BY <2>3 DEF pages
<1>4. CASE Length(s) # 0
  <2>1. /\ DOMAIN pages = 1..m /\ pages = [i \in 1..m |-> pages[i]]
        /\ \A i \in 1..m : pages[i].start = cuts[i] /\ pages[i].end = cuts[i + 1]
    BY <1>4 DEF PublishedPages, PagesBetween, cuts
  <2>. HIDE DEF pages, m
  <2>2. Len(pages) = m
    <3>1. pages \in [1..m -> {pages[i] : i \in 1..m}]
      BY <2>1
    <3>2. pages \in Seq({pages[i] : i \in 1..m})
      BY <1>2, <3>1, SeqDef
    <3>. QED  BY <1>2, <2>1, <3>2
  <2>3. PagesOK(pages)
    BY <1>2, <2>1, <2>2 DEF PagesOK
  <2>. QED  BY <2>3 DEF pages
<1>. QED  BY <1>3, <1>4

LEMMA StatePages ==
    ASSUME NEW s \in Sources, NEW pub \in Pubs, NEW g
    PROVE  PagesOK(PagerState(s, g, pub).pages)
<1>1. PagerState(s, g, pub).pages = PublishedPages(s, pub)
  BY DEF PagerState, StateOf
<1>. QED  BY <1>1, PublishedOK

-----------------------------------------------------------------------------
\* Ranges and reservations

\* What a request is granted are pages of the state.
RangeOK(range, pages) ==
    range.status = "ok" => /\ range.first \in 1..Len(pages) /\ range.last \in 1..Len(pages)
                           /\ range.first <= range.last

\* A window is grown from an anchor among the pages, and stays among them.
LEMMA WindowOK ==
    ASSUME NEW st, PagesOK(st.pages), NEW anchor, NEW from, NEW to, NEW budget
    PROVE  RangeOK(WindowRange(st, anchor, from, to, budget), st.pages)
<1>. DEFINE n == Len(st.pages)
            Back(f) == \A i \in f..(anchor - 1) :
                          FitsPage(st, i, budget, Usage(st, i + 1, anchor))
            Firsts == {f \in from..anchor : Back(f)}
            first == Min(Firsts)
            Ahead(l) == \A i \in (anchor + 1)..l :
                           FitsPage(st, i, budget, Usage(st, first, i - 1))
            Lasts == {l \in anchor..to : Ahead(l)}
            last == Max(Lasts)
            w == WindowRange(st, anchor, from, to, budget)
            Bad == \/ anchor \notin DOMAIN st.pages \/ from \notin 1..anchor
                   \/ to \notin anchor..n
<1>1. w = IF Bad THEN [status |-> "invalid"]
          ELSE IF ~FitsPage(st, anchor, budget, Usage(st, 1, 0)) THEN [status |-> "exceeded"]
          ELSE [status |-> "ok", first |-> first, last |-> last,
                truncatedBefore |-> first > from, truncatedAfter |-> last < to]
  BY DEF WindowRange
<1>. HIDE DEF w
<1>2. SUFFICES ASSUME w.status = "ok"
               PROVE  w.first \in 1..n /\ w.last \in 1..n /\ w.first <= w.last
  BY DEF RangeOK, w
<1>3. ~Bad /\ w.first = first /\ w.last = last
  <2>. HIDE DEF Bad, first, last
  <2>. QED  BY <1>1, <1>2
<1>4. n \in Nat /\ anchor \in 1..n /\ from \in 1..anchor /\ to \in anchor..n
  BY <1>3 DEF PagesOK
<1>5. first \in from..anchor
  <2>1. anchor \in Firsts
    BY <1>4
  <2>2. Firsts \in SUBSET Nat /\ Firsts # {}
    <3>. HIDE DEF Back
    <3>1. Firsts \in SUBSET (from..anchor)
      OBVIOUS
    <3>2. from..anchor \in SUBSET Nat
      BY <1>4
    <3>. QED  BY <2>1, <3>1, <3>2
  <2>3. first \in Firsts
    <3>. HIDE DEF Firsts
    <3>. QED  BY <2>2, MinIs
  <2>. QED  BY <2>3
<1>6. last \in anchor..to
  <2>. HIDE DEF first
  <2>1. anchor \in Lasts
    BY <1>4
  <2>2. Lasts \in SUBSET (anchor..to) /\ Lasts # {}
    <3>. HIDE DEF Ahead
    <3>. QED  BY <2>1
  <2>3. anchor \in Int /\ to \in Int
    BY <1>4
  <2>4. last \in Lasts
    <3>. HIDE DEF Lasts
    <3>. QED  BY <2>2, <2>3, MaxIs
  <2>. QED  BY <2>4
<1>. HIDE DEF first, last, n
<1>. QED  BY <1>3, <1>4, <1>5, <1>6

\* A request that is granted reserves a number of bytes.
LEMMA RequestRange ==
    ASSUME PagesOK(state.pages), NEW r \in Requests, RangeOf(r).status = "ok"
    PROVE  /\ RangeOK(RangeOf(r), state.pages)
           /\ Reservation(r) \in Nat
<1>1. r.kind \in {"page", "byte", "fragment", "measure"}
      /\ (r.kind # "page" => ValidBudget(r.budget))
  BY PagerAssumption
<1>2. CASE r.kind = "page"
  <2>1. RangeOf(r) = IF r.index \notin DOMAIN state.pages THEN [status |-> "invalid"]
                     ELSE [status |-> "ok", first |-> r.index, last |-> r.index]
    BY <1>2 DEF RangeOf
  <2>2. r.index \in 1..Len(state.pages) /\ RangeOf(r).first = r.index /\ RangeOf(r).last = r.index
    BY <2>1 DEF PagesOK
  <2>3. Reservation(r) = state.pages[r.index].end - state.pages[r.index].start
    BY <1>2 DEF Reservation
  <2>4. Reservation(r) \in Nat
    <3>1. PICK a \in Int, b \in Int : /\ a = state.pages[r.index].start
                                      /\ b = state.pages[r.index].end /\ a <= b
      BY <2>2 DEF PagesOK
    <3>. QED  BY <2>3, <3>1
  <2>. QED  BY <2>2, <2>4 DEF RangeOK, PagesOK
<1>3. CASE r.kind # "page"
  <2>1. Reservation(r) \in Nat
    <3>1. DOMAIN WindowLimit = {"bytes", "pages", "fragments", "measure"}
          /\ WindowLimit["bytes"] \in Nat
      BY LayoutAssumption
    <3>2. r.budget["bytes"] \in 1..WindowLimit["bytes"]
      BY <1>1, <1>3, <3>1 DEF ValidBudget
    <3>. QED  BY <1>3, <3>1, <3>2 DEF Reservation
  <2>2. CASE r.kind = "byte"
    <3>1. RangeOf(r) = IF r.offset > Length(text) THEN [status |-> "invalid"]
                       ELSE WindowByByte(state, Length(text), r.offset, r.before, r.after, r.budget)
      BY <2>2 DEF RangeOf
    <3>2. RangeOK(WindowByByte(state, Length(text), r.offset, r.before, r.after, r.budget),
                  state.pages)
      BY WindowOK DEF WindowByByte
    <3>. QED  BY <2>1, <3>1, <3>2
  <2>3. CASE r.kind = "fragment"
    <3>. DEFINE named == {i \in DOMAIN state.fragments : r.kind = "fragment" /\ state.fragments[i].id = r.id}
    <3>1. RangeOf(r) = IF named = {} THEN [status |-> "invalid"]
                       ELSE WindowByFragment(state, Min(named), r.continuation,
                                             r.before, r.after, r.budget)
      BY <2>3 DEF RangeOf
    <3>. HIDE DEF named
    <3>2. RangeOK(WindowByFragment(state, Min(named), r.continuation, r.before, r.after, r.budget),
                  state.pages)
      BY WindowOK DEF WindowByFragment, RangeOK
    <3>. QED  BY <2>1, <3>1, <3>2
  <2>4. CASE r.kind = "measure"
    <3>1. RangeOf(r) = IF state.fragments = <<>> \/ r.offset > TotalMeasure(state.fragments)
                       THEN [status |-> "invalid"]
                       ELSE WindowByMeasure(state, r.offset, r.affinity, r.before,
                                            r.after, r.budget)
      BY <2>4 DEF RangeOf
    <3>2. RangeOK(WindowByMeasure(state, r.offset, r.affinity, r.before, r.after, r.budget),
                  state.pages)
      BY WindowOK DEF WindowByMeasure
    <3>. QED  BY <2>1, <3>1, <3>2
  <2>. QED  BY <1>1, <1>3, <2>2, <2>3, <2>4
<1>. QED  BY <1>2, <1>3

-----------------------------------------------------------------------------
\* The budgets

Held == {"reserve"} \cup Reading
Readers == {c \in Callers : pc[c] \in Reading}

\* A read knows its request, then the state and the pages it reads from.
ReadAt(c) ==
    /\ pc[c] = "capture" => req[c].request \in Requests
    /\ pc[c] \in Held =>
          /\ DOMAIN req[c] = {"kind", "view", "at", "last", "bytes"}
          /\ req[c].bytes \in Nat
          /\ req[c].view.generation \in Nat /\ PagesOK(req[c].view.pages)
          /\ req[c].at \in 1..Len(req[c].view.pages)
          /\ req[c].last \in 1..Len(req[c].view.pages) /\ req[c].at <= req[c].last
    /\ pc[c] = "install" => PagesOK(req[c].next.pages)

BudgetInv ==
    /\ PagesOK(state.pages) /\ CacheOK(cache, state.generation)
    /\ \A c \in Callers : ReadAt(c)
    /\ inflight = Bytes(req, Readers) /\ inflight \in Int
    /\ inflight <= MaximumInflightBytes

LEMMA ReadersSized ==
    ASSUME \A c \in Callers : ReadAt(c)
    PROVE  Sized(req, Readers)
<1>1. IsFiniteSet(Readers)
  BY PagerAssumption, FS_Subset DEF Readers
<1>2. \A c \in Readers : req[c].bytes \in Int
  BY DEF Readers, ReadAt, Held
<1>. QED  BY <1>1, <1>2 DEF Sized

LEMMA BudgetInit == Init => BudgetInv
<1>. SUFFICES ASSUME Init PROVE BudgetInv
  OBVIOUS
<1>1. Readers = {} /\ \A c \in Callers : ReadAt(c)
  BY DEF Init, Readers, Reading, ReadAt, Held
<1>2. PagesOK(state.pages)
  BY StatePages DEF Init, Pubs
<1>3. CacheOK(cache, state.generation)
  BY EmptyCache DEF Init
<1>4. Bytes(req, Readers) = 0 /\ inflight = 0
  BY <1>1, BytesEmpty DEF Init
<1>. QED  BY <1>1, <1>2, <1>3, <1>4, PagerAssumption DEF BudgetInv

\* The reads under way stay the same.
LEMMA SameReaders ==
    ASSUME BudgetInv, Readers' = Readers,
           \A d \in Readers : req'[d].bytes = req[d].bytes
    PROVE  inflight = Bytes(req, Readers)'
<1>1. Sized(req, Readers)
  BY ReadersSized DEF BudgetInv
<1>2. Bytes(req, Readers) = Bytes(req', Readers)
  BY <1>1, BytesSame
<1>3. Bytes(req, Readers)' = Bytes(req', Readers')
  OBVIOUS
<1>. QED  BY <1>2, <1>3 DEF BudgetInv

\* A step of one call that is not a read keeps the invariant.
LEMMA BudgetMove ==
    ASSUME BudgetInv, NEW c \in Callers,
           \A d \in Callers \ {c} : pc'[d] = pc[d] /\ req'[d] = req[d],
           pc[c] \notin Reading, pc'[c] \notin Reading, ReadAt(c)',
           inflight' = inflight, PagesOK(state.pages)', CacheOK(cache, state.generation)'
    PROVE  BudgetInv'
<1>1. Readers' = Readers /\ \A d \in Readers : req'[d] = req[d]
  BY DEF Readers
<1>2. inflight' = Bytes(req, Readers)'
  BY <1>1, SameReaders
<1>3. \A d \in Callers : ReadAt(d)'
  BY DEF BudgetInv, ReadAt
<1>. QED  BY <1>2, <1>3 DEF BudgetInv

\* So does a step of a host whose call holds nothing.
LEMMA BudgetIdle ==
    ASSUME BudgetInv, RequestInv, NEW c \in Hosts, NEW x, pc' = [pc EXCEPT ![c] = x],
           pc[c] \notin Reading, x \notin Held \cup {"capture", "install"},
           UNCHANGED <<req, inflight, state, cache>>
    PROVE  BudgetInv'
<1>1. pc'[c] = x /\ \A d \in Hosts \ {c} : pc'[d] = pc[d]
  BY DEF RequestInv
<1>2. CASE c \in Callers
  <2>1. ReadAt(c)'
    BY <1>1 DEF ReadAt, Held
  <2>2. \A d \in Callers \ {c} : pc'[d] = pc[d] /\ req'[d] = req[d]
    BY <1>1 DEF Hosts
  <2>3. pc'[c] \notin Reading /\ PagesOK(state.pages)' /\ CacheOK(cache, state.generation)'
    BY <1>1 DEF Held, BudgetInv
  <2>. QED  BY <1>2, <2>1, <2>2, <2>3, BudgetMove
<1>3. CASE c \notin Callers
  <2>1. \A d \in Callers : pc'[d] = pc[d]
    BY <1>1, <1>3 DEF Hosts
  <2>2. Readers' = Readers /\ \A d \in Callers : ReadAt(d)'
    BY <2>1 DEF Readers, ReadAt, BudgetInv
  <2>3. inflight' = Bytes(req, Readers)'
    BY <2>2, SameReaders
  <2>. QED  BY <2>2, <2>3 DEF BudgetInv
<1>. QED  BY <1>2, <1>3

\* Nobody moves.
LEMMA BudgetStill ==
    ASSUME BudgetInv, UNCHANGED <<pc, req, inflight, state>>, cache' \in {cache, <<>>}
    PROVE  BudgetInv'
<1>1. Readers' = Readers /\ \A d \in Callers : ReadAt(d)'
  BY DEF Readers, ReadAt, BudgetInv
<1>2. inflight' = Bytes(req, Readers)'
  BY <1>1, SameReaders
<1>3. CacheOK(cache', state'.generation)
  BY EmptyCache DEF BudgetInv
<1>. QED  BY <1>1, <1>2, <1>3 DEF BudgetInv

\* A call that publishes moves on.
LEMMA BudgetPublish ==
    ASSUME BudgetInv, RequestInv, NEW c \in Callers, NEW x, pc' = [pc EXCEPT ![c] = x],
           pc[c] \notin Reading, x \notin Held \cup {"capture", "install"},
           DOMAIN req' = Callers, \A d \in Callers \ {c} : req'[d] = req[d],
           UNCHANGED <<inflight, state, cache>>
    PROVE  BudgetInv'
<1>1. pc'[c] = x /\ \A d \in Callers \ {c} : pc'[d] = pc[d] /\ req'[d] = req[d]
  BY DEF RequestInv, Hosts
<1>2. ReadAt(c)'
  BY <1>1 DEF ReadAt, Held
<1>3. pc'[c] \notin Reading /\ PagesOK(state.pages)' /\ CacheOK(cache, state.generation)'
  BY <1>1 DEF Held, BudgetInv
<1>. QED  BY <1>1, <1>2, <1>3, BudgetMove

LEMMA InstallBudget ==
    ASSUME BudgetInv, RequestInv, NEW c \in Callers, Install(c)
    PROVE  BudgetInv'
<1>1. pc[c] = "install" /\ pc' = [pc EXCEPT ![c] = "finish"] /\ inflight' = inflight
  BY DEF Install, Goto
<1>2. CASE UNCHANGED <<state, cache, req>>
  BY <1>1, <1>2, BudgetPublish DEF Reading, Held, RequestInv
<1>3. CASE /\ state' = req[c].next /\ cache' = <<>> /\ req' = [req EXCEPT ![c].ok = TRUE]
  <2>1. /\ pc'[c] = "finish" /\ \A d \in Callers \ {c} : pc'[d] = pc[d] /\ req'[d] = req[d]
    BY <1>1, <1>3 DEF RequestInv, Hosts
  <2>2. ReadAt(c)'
    BY <2>1 DEF ReadAt, Held, Reading
  <2>3. PagesOK(state.pages)'
    BY <1>1, <1>3 DEF BudgetInv, ReadAt
  <2>4. CacheOK(cache, state.generation)'
    BY <1>3, EmptyCache
  <2>5. pc[c] \notin Reading /\ pc'[c] \notin Reading
    BY <1>1, <2>1 DEF Reading
  <2>. QED  BY <1>1, <2>1, <2>2, <2>3, <2>4, <2>5, BudgetMove
<1>. QED  BY <1>2, <1>3 DEF Install

LEMMA CheckBudget ==
    ASSUME BudgetInv, RequestInv, NEW c \in Callers, PublishCheck(c)
    PROVE  BudgetInv'
<1>1. pc[c] = "publish" /\ UNCHANGED <<inflight, state, cache>>
  BY DEF PublishCheck
<1>2. CASE Goto(c, "finish") /\ UNCHANGED req
  BY <1>1, <1>2, BudgetPublish DEF Reading, Held, RequestInv, Goto
<1>3. CASE /\ req' = [req EXCEPT ![c].next = PagerState(text, state.generation + 1, req[c].pub)]
           /\ Goto(c, "install")
  <2>1. /\ pc'[c] = "install" /\ \A d \in Callers \ {c} : pc'[d] = pc[d] /\ req'[d] = req[d]
    BY <1>3 DEF RequestInv, Hosts, Goto
  <2>2. text \in Sources /\ req[c].pub \in Pubs /\ "next" \in DOMAIN req[c]
    BY <1>1 DEF RequestInv, Publishing, PublishRequest
  <2>3. req'[c].next = PagerState(text, state.generation + 1, req[c].pub)
    BY <1>3, <2>2 DEF RequestInv
  <2>4. PagesOK(req'[c].next.pages)
    BY <2>2, <2>3, StatePages
  <2>5. ReadAt(c)'
    BY <2>1, <2>4 DEF ReadAt, Held, Reading
  <2>6. PagesOK(state.pages)' /\ CacheOK(cache, state.generation)'
    BY <1>1 DEF BudgetInv
  <2>7. pc[c] \notin Reading /\ pc'[c] \notin Reading
    BY <1>1, <2>1 DEF Reading
  <2>. QED  BY <1>1, <2>1, <2>5, <2>6, <2>7, BudgetMove
<1>. QED  BY <1>2, <1>3 DEF PublishCheck

LEMMA CaptureBudget ==
    ASSUME BudgetInv, RequestInv, NEW c \in Callers, ReadCapture(c)
    PROVE  BudgetInv'
<1>1. pc[c] = "capture" /\ UNCHANGED <<inflight, state, cache>>
  BY DEF ReadCapture
<1>2. CASE Goto(c, "leave") /\ req' = [req EXCEPT ![c] = NoReq]
  BY <1>1, <1>2, BudgetPublish DEF Reading, Held, RequestInv, Goto
<1>. DEFINE r == req[c].request
            range == RangeOf(r)
<1>3. CASE /\ range.status = "ok"
           /\ req' = [req EXCEPT ![c] = [kind |-> "read", view |-> state, at |-> range.first,
                                         last |-> range.last, bytes |-> Reservation(r)]]
           /\ Goto(c, "reserve")
  <2>1. /\ pc'[c] = "reserve" /\ \A d \in Callers \ {c} : pc'[d] = pc[d] /\ req'[d] = req[d]
    BY <1>3 DEF RequestInv, Hosts, Goto
  <2>2. /\ DOMAIN req'[c] = {"kind", "view", "at", "last", "bytes"}
        /\ req'[c].view = state /\ req'[c].at = range.first /\ req'[c].last = range.last
        /\ req'[c].bytes = Reservation(r)
    BY <1>3 DEF RequestInv
  <2>3. PagesOK(state.pages) /\ r \in Requests
    BY <1>1 DEF BudgetInv, ReadAt
  <2>. HIDE DEF r
  <2>4. RangeOK(range, state.pages) /\ Reservation(r) \in Nat
    BY <1>3, <2>3, RequestRange
  <2>. HIDE DEF range
  <2>5. ReadAt(c)'
    BY <1>3, <2>1, <2>2, <2>3, <2>4 DEF ReadAt, Held, Reading, RangeOK, RequestInv
  <2>6. PagesOK(state.pages)' /\ CacheOK(cache, state.generation)'
    BY <1>1 DEF BudgetInv
  <2>7. pc[c] \notin Reading /\ pc'[c] \notin Reading
    BY <1>1, <2>1 DEF Reading
  <2>. QED  BY <1>1, <2>1, <2>5, <2>6, <2>7, BudgetMove
<1>. QED  BY <1>2, <1>3 DEF ReadCapture

LEMMA ReserveBudget ==
    ASSUME BudgetInv, RequestInv, NEW c \in Callers, ReadReserve(c)
    PROVE  BudgetInv'
<1>1. pc[c] = "reserve" /\ UNCHANGED <<state, cache>>
  BY DEF ReadReserve
<1>2. CASE Goto(c, "leave") /\ req' = [req EXCEPT ![c] = NoReq] /\ UNCHANGED inflight
  BY <1>1, <1>2, BudgetPublish DEF Reading, Held, RequestInv, Goto
<1>3. CASE /\ req[c].bytes <= MaximumInflightBytes - inflight
           /\ inflight' = inflight + req[c].bytes /\ Goto(c, "lookup") /\ UNCHANGED req
  <2>1. /\ pc'[c] = "lookup" /\ \A d \in Callers \ {c} : pc'[d] = pc[d]
    BY <1>3 DEF RequestInv, Hosts, Goto
  <2>2. \A d \in Callers : ReadAt(d)'
    <3>1. ASSUME NEW d \in Callers PROVE ReadAt(d)'
      <4>1. CASE d = c
        BY <1>1, <1>3, <2>1, <4>1 DEF BudgetInv, ReadAt, Held, Reading
      <4>2. CASE d # c
        BY <1>3, <2>1, <4>2 DEF BudgetInv, ReadAt
      <4>. QED  BY <4>1, <4>2
    <3>. QED  BY <3>1
  <2>3. c \in Readers' /\ Readers' \ {c} = Readers
    BY <1>1, <2>1 DEF Readers, Reading
  <2>4. Sized(req', Readers')
    <3>1. IsFiniteSet(Readers')
      BY PagerAssumption, FS_Subset DEF Readers
    <3>2. \A d \in Readers' : req'[d].bytes \in Int
      BY <2>2 DEF Readers, ReadAt, Held
    <3>. QED  BY <3>1, <3>2 DEF Sized
  <2>5. Bytes(req', Readers') = req'[c].bytes + Bytes(req', Readers' \ {c})
    BY <2>3, <2>4, BytesSplit
  <2>6. Bytes(req', Readers') = req[c].bytes + Bytes(req, Readers)
    BY <1>3, <2>3, <2>5
  <2>7. Bytes(req, Readers)' = Bytes(req', Readers')
    OBVIOUS
  <2>8. req[c].bytes \in Int /\ inflight \in Int /\ inflight = Bytes(req, Readers)
    BY <1>1 DEF BudgetInv, ReadAt, Held
  <2>9. /\ inflight' = Bytes(req, Readers)' /\ inflight' \in Int
        /\ inflight' <= MaximumInflightBytes
    BY <1>3, <2>6, <2>7, <2>8, PagerAssumption
  <2>. QED  BY <1>1, <2>2, <2>9 DEF BudgetInv
<1>. QED  BY <1>2, <1>3 DEF ReadReserve

LEMMA UnreserveBudget ==
    ASSUME BudgetInv, RequestInv, NEW c \in Callers, ReadUnreserve(c)
    PROVE  BudgetInv'
<1>1. /\ pc[c] = "unreserve" /\ inflight' = inflight - req[c].bytes /\ UNCHANGED <<state, cache>>
      /\ Goto(c, "leave") /\ req' = [req EXCEPT ![c] = NoReq]
  BY DEF ReadUnreserve
<1>2. /\ pc'[c] = "leave" /\ \A d \in Callers \ {c} : pc'[d] = pc[d] /\ req'[d] = req[d]
  BY <1>1 DEF RequestInv, Hosts, Goto
<1>3. \A d \in Callers : ReadAt(d)'
  <2>1. ASSUME NEW d \in Callers PROVE ReadAt(d)'
    <3>1. CASE d = c
      BY <1>2, <3>1 DEF ReadAt, Held, Reading
    <3>2. CASE d # c
      BY <1>2, <3>2 DEF BudgetInv, ReadAt
    <3>. QED  BY <3>1, <3>2
  <2>. QED  BY <2>1
<1>4. c \in Readers /\ Readers' = Readers \ {c} /\ c \notin Readers'
  BY <1>1, <1>2 DEF Readers, Reading
<1>5. /\ Sized(req, Readers')
      /\ Bytes(req, Readers) = req[c].bytes + Bytes(req, Readers')
  <2>1. Sized(req, Readers)
    BY ReadersSized DEF BudgetInv
  <2>. QED  BY <1>4, <2>1, BytesSplit
<1>6. Bytes(req, Readers') = Bytes(req', Readers')
  <2>1. \A d \in Readers' : req[d].bytes = req'[d].bytes
    BY <1>2, <1>4 DEF Readers
  <2>. QED  BY <1>5, <2>1, BytesSame
<1>7. Bytes(req, Readers)' = Bytes(req', Readers')
  OBVIOUS
<1>8. Bytes(req, Readers') \in Int
  BY <1>5, BytesInt
<1>9. req[c].bytes \in Nat /\ inflight = Bytes(req, Readers) /\ inflight <= MaximumInflightBytes
  BY <1>1 DEF BudgetInv, ReadAt, Held, Reading
<1>10. /\ inflight' = Bytes(req, Readers)' /\ inflight' \in Int
       /\ inflight' <= MaximumInflightBytes
  BY <1>1, <1>5, <1>6, <1>7, <1>8, <1>9, PagerAssumption
<1>. QED  BY <1>1, <1>3, <1>10 DEF BudgetInv

\* A read that holds its bytes moves on.
LEMMA ReadOn ==
    ASSUME BudgetInv, RequestInv, NEW c \in Callers, NEW x \in Reading, pc[c] \in Reading,
           pc' = [pc EXCEPT ![c] = x], UNCHANGED <<state, inflight>>,
           \/ req' = req
           \/ req[c].at # req[c].last /\ req' = [req EXCEPT ![c].at = @ + 1],
           CacheOK(cache', state'.generation)
    PROVE  BudgetInv'
<1>1. /\ pc'[c] = x /\ \A d \in Callers \ {c} : pc'[d] = pc[d] /\ req'[d] = req[d]
  BY DEF RequestInv, Hosts
<1>2. /\ DOMAIN req'[c] = {"kind", "view", "at", "last", "bytes"}
      /\ req'[c].bytes = req[c].bytes /\ req'[c].view = req[c].view
      /\ req'[c].last = req[c].last
      /\ req'[c].at = req[c].at \/ (req[c].at # req[c].last /\ req'[c].at = req[c].at + 1)
  <2>1. DOMAIN req[c] = {"kind", "view", "at", "last", "bytes"} /\ DOMAIN req = Callers
    BY DEF BudgetInv, ReadAt, Held, RequestInv
  <2>. QED  BY <2>1
<1>3. ReadAt(c)'
  <2>1. ReadAt(c) /\ pc[c] \in Held
    BY DEF BudgetInv, Held
  <2>2. pc'[c] # "capture" /\ pc'[c] # "install"
    BY <1>1 DEF Reading
  <2>3. PICK n \in Nat, a \in Nat, b \in Nat :
          /\ n = Len(req[c].view.pages) /\ a = req[c].at /\ b = req[c].last
          /\ a \in 1..n /\ b \in 1..n /\ a <= b
    BY <2>1 DEF ReadAt, PagesOK
  <2>4. req'[c].at \in 1..n /\ req'[c].last \in 1..n /\ req'[c].at <= req'[c].last
    BY <1>2, <2>3
  <2>. QED  BY <1>2, <2>1, <2>2, <2>3, <2>4 DEF ReadAt
<1>4. \A d \in Callers : ReadAt(d)'
  BY <1>1, <1>3 DEF BudgetInv, ReadAt
<1>5. Readers' = Readers
  BY <1>1 DEF Readers
<1>6. \A d \in Readers : req'[d].bytes = req[d].bytes
  BY <1>1, <1>2 DEF Readers
<1>7. inflight' = Bytes(req, Readers)'
  BY <1>5, <1>6, SameReaders
<1>. QED  BY <1>4, <1>7 DEF BudgetInv

LEMMA AdvanceBudget ==
    ASSUME BudgetInv, RequestInv, NEW c \in Callers, pc[c] \in Reading, Advance(c),
           UNCHANGED <<state, inflight>>, CacheOK(cache', state'.generation)
    PROVE  BudgetInv'
<1>1. "unreserve" \in Reading /\ "lookup" \in Reading
  BY DEF Reading
<1>2. CASE Goto(c, "unreserve") /\ UNCHANGED req
  BY <1>1, <1>2, ReadOn DEF Goto
<1>3. CASE req[c].at # req[c].last /\ Goto(c, "lookup") /\ req' = [req EXCEPT ![c].at = @ + 1]
  BY <1>1, <1>3, ReadOn DEF Goto
<1>. QED  BY <1>2, <1>3 DEF Advance

LEMMA LookupBudget ==
    ASSUME BudgetInv, RequestInv, NEW c \in Callers, ReadLookup(c)
    PROVE  BudgetInv'
<1>1. pc[c] \in Reading /\ UNCHANGED <<state, inflight>>
  BY DEF ReadLookup, Reading
<1>2. CASE Advance(c) /\ \E hit \in DOMAIN cache :
                            cache' = <<cache[hit]>> \o RemoveAt(cache, hit)
  <2>1. PICK hit \in DOMAIN cache : cache' = <<cache[hit]>> \o RemoveAt(cache, hit)
    BY <1>2
  <2>2. CacheOK(cache', state'.generation)
    BY <1>1, <2>1, MovedCache DEF BudgetInv
  <2>. QED  BY <1>1, <1>2, <2>2, AdvanceBudget
<1>3. CASE (Goto(c, "fill") \/ Goto(c, "unreserve")) /\ UNCHANGED <<req, cache>>
  <2>1. CacheOK(cache', state'.generation)
    BY <1>1, <1>3 DEF BudgetInv
  <2>2. PICK x \in Reading : pc' = [pc EXCEPT ![c] = x]
    BY <1>3 DEF Goto, Reading
  <2>. QED  BY <1>1, <1>3, <2>1, <2>2, ReadOn
<1>. QED  BY <1>2, <1>3 DEF ReadLookup

\* storeCache
LEMMA StoredCache ==
    ASSUME BudgetInv, NEW c \in Callers, pc[c] = "fill"
    PROVE  CacheOK(StoreCache(c), state.generation)
<1>. DEFINE hits == {i \in DOMAIN cache : cache[i].key = Key(c)}
            e == [key |-> Key(c), bytes |-> PageBytes(c)]
<1>0. CacheOK(cache, state.generation)
  BY DEF BudgetInv
<1>1. CASE ~MayStore(req[c].view, PageBytes(c))
  BY <1>0, <1>1 DEF StoreCache
<1>2. CASE MayStore(req[c].view, PageBytes(c)) /\ hits # {}
  <2>1. hits \in SUBSET Nat
    <3>1. DOMAIN cache = 1..Len(cache) /\ Len(cache) \in Nat
      BY <1>0, SeqSized DEF CacheOK, KeysOK
    <3>. QED  BY <3>1
  <2>2. Min(hits) \in hits
    <3>. HIDE DEF hits
    <3>. QED  BY <1>2, <2>1, MinIs
  <2>3. StoreCache(c) = <<cache[Min(hits)]>> \o RemoveAt(cache, Min(hits))
    BY <1>2 DEF StoreCache
  <2>4. Min(hits) \in DOMAIN cache
    BY <2>2
  <2>. HIDE DEF hits
  <2>. QED  BY <1>0, <2>3, <2>4, MovedCache
<1>3. CASE MayStore(req[c].view, PageBytes(c)) /\ hits = {}
  <2>1. StoreCache(c) = Evict(<<e>> \o cache)
    BY <1>3 DEF StoreCache
  <2>2. /\ req[c].view = state /\ req[c].view.generation \in Nat /\ PagesOK(req[c].view.pages)
        /\ req[c].at \in 1..Len(req[c].view.pages)
    BY <1>3 DEF MayStore, BudgetInv, ReadAt, Held, Reading
  <2>3. req[c].at \in Nat /\ PageBytes(c) \in Int
    <3>1. PICK a \in Int, b \in Int : /\ a = req[c].view.pages[req[c].at].start
                                      /\ b = req[c].view.pages[req[c].at].end
      BY <2>2 DEF PagesOK
    <3>2. PageBytes(c) = b - a
      BY <3>1 DEF PageBytes
    <3>. QED  BY <2>2, <3>1, <3>2 DEF PagesOK
  <2>4. e \in Entry /\ e.key = Key(c) /\ e.key.generation = state.generation
    BY <2>2, <2>3 DEF Key, Entry
  <2>5. \A i \in DOMAIN cache : cache[i].key # e.key
    BY <1>3
  <2>. HIDE DEF e
  <2>6. KeysOK(<<e>> \o cache, state.generation)
    BY <1>0, <2>4, <2>5, PushedKeys DEF CacheOK
  <2>. QED  BY <2>1, <2>6, EvictedCache
<1>. QED  BY <1>1, <1>2, <1>3

LEMMA FillBudget ==
    ASSUME BudgetInv, RequestInv, NEW c \in Callers, ReadFill(c)
    PROVE  BudgetInv'
<1>1. pc[c] = "fill" /\ pc[c] \in Reading /\ UNCHANGED <<state, inflight>>
  BY DEF ReadFill, Reading
<1>2. CASE Goto(c, "unreserve") /\ UNCHANGED <<req, cache>>
  <2>1. CacheOK(cache', state'.generation) /\ "unreserve" \in Reading
    BY <1>1, <1>2 DEF BudgetInv, Reading
  <2>. QED  BY <1>1, <1>2, <2>1, ReadOn DEF Goto
<1>3. CASE cache' = StoreCache(c) /\ Advance(c)
  <2>1. CacheOK(cache', state'.generation)
    BY <1>1, <1>3, StoredCache
  <2>. QED  BY <1>1, <1>3, <2>1, AdvanceBudget
<1>. QED  BY <1>2, <1>3 DEF ReadFill

LEMMA BudgetStep == RequestInv /\ TaskInv /\ BudgetInv /\ [Next]_vars => BudgetInv'
<1>. SUFFICES ASSUME RequestInv, TaskInv, BudgetInv, [Next]_vars PROVE BudgetInv'
  OBVIOUS
<1>. USE DEF Goto
<1>1. CASE Build \/ BuildFails \/ CloserStep \/ UNCHANGED vars
  BY <1>1, BudgetStill DEF Build, BuildFails, CloserStep, CloserCheck, CloserRelease, vars
<1>2. ASSUME NEW c \in Hosts, CloseCall(c) \/ CloseExpire(c) \/ CloseReturn(c)
      PROVE  BudgetInv'
  <2>1. PICK x \in {"closing", "idle"} : /\ pc' = [pc EXCEPT ![c] = x]
                                         /\ pc[c] \in {"idle", "discard", "closing"}
                                         /\ UNCHANGED <<req, inflight, state, cache>>
    BY <1>2 DEF CloseCall, CloseExpire, CloseReturn
  <2>2. pc[c] \notin Reading /\ x \notin Held \cup {"capture", "install"}
    BY <2>1 DEF Reading, Held
  <2>. QED  BY <2>1, <2>2, BudgetIdle
<1>3. ASSUME NEW c \in Callers, ReadStep(c) PROVE BudgetInv'
  BY <1>3, CaptureBudget, ReserveBudget, LookupBudget, FillBudget, UnreserveBudget DEF ReadStep
<1>4. ASSUME NEW c \in Callers, NEW r \in Requests, NEW g, ReadBegin(c, r, g) PROVE BudgetInv'
  <2>1. /\ pc[c] = "idle" /\ pc' = [pc EXCEPT ![c] = "capture"]
        /\ req' = [req EXCEPT ![c] = [kind |-> "read", request |-> r, base |-> g]]
        /\ UNCHANGED <<inflight, state, cache>>
    BY <1>4 DEF ReadBegin
  <2>2. /\ pc'[c] = "capture" /\ req'[c].request = r
        /\ \A d \in Callers \ {c} : pc'[d] = pc[d] /\ req'[d] = req[d]
    BY <2>1 DEF RequestInv, Hosts
  <2>3. ReadAt(c)' /\ pc[c] \notin Reading /\ pc'[c] \notin Reading
    BY <2>1, <2>2 DEF ReadAt, Held, Reading
  <2>4. PagesOK(state.pages)' /\ CacheOK(cache, state.generation)'
    BY <2>1 DEF BudgetInv
  <2>. QED  BY <2>1, <2>2, <2>3, <2>4, BudgetMove
<1>5. ASSUME NEW c \in Callers, PublishCheck(c) \/ Install(c) PROVE BudgetInv'
  BY <1>5, CheckBudget, InstallBudget
<1>6. ASSUME NEW c \in Callers, NEW pub, NEW g,
             \/ Rebuild(c) \/ PublishBegin(c, "publish", pub, g) \/ PublishBegin(c, "refresh", pub, g)
             \/ ProviderReturn(c) \/ StartProgress(c) \/ AskProvider(c) \/ FinishProgress(c)
             \/ LeaveTask(c) \/ Wake(c)
      PROVE  BudgetInv'
  <2>1. PICK x \in Others \cup (Publishing \ {"install"}) \cup {"leave"} :
          pc' = [pc EXCEPT ![c] = x]
    BY <1>6 DEF Rebuild, PublishBegin, ProviderReturn, StartProgress, AskProvider,
                FinishProgress, LeaveTask, Wake, Others, Publishing
  <2>2. pc[c] \notin Reading /\ x \notin Held \cup {"capture", "install"}
    <3>1. pc[c] \in Others \cup Publishing \cup {"leave"}
      BY <1>6 DEF Rebuild, PublishBegin, ProviderReturn, StartProgress, AskProvider,
                  FinishProgress, LeaveTask, Wake, Others, Publishing, TaskInv, Hosts
    <3>. QED  BY <2>1, <3>1 DEF Others, Publishing, Reading, Held
  <2>3. DOMAIN req' = Callers /\ \A d \in Callers \ {c} : req'[d] = req[d]
    BY <1>6 DEF Rebuild, PublishBegin, ProviderReturn, StartProgress, AskProvider,
                FinishProgress, LeaveTask, Wake, RequestInv
  <2>4. UNCHANGED <<inflight, state, cache>>
    BY <1>6 DEF Rebuild, PublishBegin, ProviderReturn, StartProgress, AskProvider,
                FinishProgress, LeaveTask, Wake
  <2>. QED  BY <2>1, <2>2, <2>3, <2>4, BudgetPublish
<1>7. ASSUME NEW c \in Callers, NEW pub, Report(c, pub) PROVE BudgetInv'
  BY <1>7, BudgetStill DEF Report
<1>. QED
  BY <1>1, <1>2, <1>3, <1>4, <1>5, <1>6, <1>7
     DEF Next, TaskStep, PublishStep, Hosts

\* Tokens and reserved bytes are exactly those of the calls under way, within
\* their limits, and the cache keeps to its budget with pages of the current
\* generation only: whatever reserveInflight, storeCache, cached, publish and
\* the close interleave.
THEOREM BudgetsAreExact == Spec => []BudgetsExact
<1>1. Init => BudgetInv
  BY BudgetInit
<1>2. Inv /\ BudgetInv /\ [Next]_vars => BudgetInv'
  BY BudgetStep DEF Inv
<1>3. Inv /\ BudgetInv => BudgetsExact
  <2>. SUFFICES ASSUME Inv, BudgetInv PROVE BudgetsExact
    OBVIOUS
  <2>1. tasks = Cardinality({c \in Callers : pc[c] \in Admitted}) /\ tasks <= MaximumTasks
    BY DEF Inv, TaskInv, Tasks
  <2>2. inflight = MapThenSumSet(LAMBDA c : req[c].bytes, {c \in Callers : pc[c] \in Reading})
    BY DEF BudgetInv, Bytes, Readers
  <2>3. inflight <= MaximumInflightBytes /\ CachedBytes(cache) <= CacheBytes
    BY DEF BudgetInv, CacheOK
  <2>4. /\ \A i \in DOMAIN cache : cache[i].key.generation = state.generation
        /\ \A i, j \in DOMAIN cache : cache[i].key = cache[j].key => i = j
    BY DEF BudgetInv, CacheOK, KeysOK
  <2>. QED  BY <2>1, <2>2, <2>3, <2>4 DEF BudgetsExact
<1>. QED  BY <1>1, <1>2, <1>3, Invariance, PTL DEF Spec
=============================================================================
