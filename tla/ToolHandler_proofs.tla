------------------------- MODULE ToolHandler_proofs -------------------------
(***************************************************************************)
(* The safety of a batch of tool calls, for batches of any size, any       *)
(* mixture of tools and any number of cancellations.  The properties speak *)
(* of a batch that is over, or of a counter; what makes them inductive is  *)
(* what is known of a call at each place its task can be (CallInv), and of *)
(* the gathering task (GatherInv).                                         *)
(***************************************************************************)
EXTENDS ToolHandler, WellFoundedInduction, TLAPS

\* What the location of the task of c says about its hooks, tool and span.
CallInv(c) ==
    /\ task[c] \in {"ready", "before"} => c \notin let /\ outcome[c] = Nothing
    /\ task[c] = "tool" => c \in let
    /\ task[c] = "after" => c \in let
    /\ task[c] = "before" \/ c \in let => c \notin Malformed
    /\ after[c] = IF c \in let /\ task[c] \in {"after", "done"} THEN 1 ELSE 0
    /\ task[c] = "done" => outcome[c] # Nothing
    /\ span[c] = "open" /\ task[c] = "done" => outcome[c] = Raised /\ interrupted /\ c \notin let

\* A sync tool is entered by its thread, any other by its task; the thread
\* runs on after its task only if the batch was cancelled.
ToolInv(c) ==
    /\ thread[c] # "none" => c \in SyncTools /\ c \in let
    /\ thread[c] = "queued" => task[c] = "tool"
    /\ thread[c] = "running" => task[c] = "tool" \/ interrupted
    /\ invoked[c] = IF c \in let /\ (c \in SyncTools => thread[c] \in {"running", "finished"})
                      THEN 1 ELSE 0
    /\ cancel[c] => interrupted

\* All gathered tasks are done once the first gather is over, and what is
\* recorded is how they ended, unless a second cancellation came in between.
GatherInv ==
    /\ gatherer # "gather" => \A c \in Gathered : task[c] = "done"
    /\ interrupted <=> cancels > 0
    /\ gatherer = "regather" => interrupted
    /\ Left /\ cancels < 2 => \A c \in Batch : written[c].result = Finished(c)

BatchInv ==
    /\ TypeOK
    /\ \A c \in Batch : CallInv(c) /\ ToolInv(c)
    /\ GatherInv

-----------------------------------------------------------------------------
(* The dict of tasks.                                                      *)

Less == {p \in Nat \X Nat : p[1] < p[2]}

LEMMA LessWellFounded == IsWellFoundedOn(Less, Nat)
<1>1. Less = OpToRel(<, Nat)
  BY DEF Less, OpToRel
<1> QED BY <1>1, NatLessThanWellFounded

\* The task of a call is a task of the batch: of finitely many calls with its
\* id there is a last one.
LEMMA TaskOfInBatch ==
    ASSUME NEW c \in Batch
    PROVE  TaskOf(c) \in Batch /\ IdOf[TaskOf(c)] = IdOf[c]
<1> DEFINE Same == {d \in Batch : IdOf[d] = IdOf[c]}
           Depth == {N - d : d \in Same}
<1>1. Depth \in SUBSET Nat /\ Depth # {}
  BY BatchAssumption DEF Batch
<1>2. PICK x \in Depth : \A y \in Depth : ~ (<<y, x>> \in Less)
  <2> HIDE DEF Depth
  <2> QED BY <1>1, LessWellFounded, WFMin
<1>3. \A y \in Depth : x <= y
  <2> SUFFICES ASSUME NEW y \in Depth PROVE x <= y
    OBVIOUS
  <2>1. <<y, x>> \in Nat \X Nat /\ x \in Nat /\ y \in Nat
    BY <1>1
  <2> QED BY <1>2, <2>1 DEF Less
<1>4. PICK d \in Same : x = N - d
  BY <1>2
<1>5. \A e \in Batch : IdOf[e] = IdOf[c] => e <= d
  <2> SUFFICES ASSUME NEW e \in Batch, IdOf[e] = IdOf[c] PROVE e <= d
    OBVIOUS
  <2>1. N - e \in Depth
    OBVIOUS
  <2>2. x <= N - e
    <3> HIDE DEF Depth
    <3> QED BY <1>3, <2>1
  <2>3. N - d <= N - e /\ N \in Nat /\ d \in Nat /\ e \in Nat
    BY <1>4, <2>2, BatchAssumption DEF Batch
  <2> QED BY <2>3
<1>6. \E t \in Batch : /\ IdOf[t] = IdOf[c]
                       /\ \A e \in Batch : IdOf[e] = IdOf[c] => e <= t
  BY <1>4, <1>5
<1> QED BY <1>6 DEF TaskOf

\* With different ids every task is gathered.
LEMMA AllGathered ==
    ASSUME \A c, d \in Batch : IdOf[c] = IdOf[d] => c = d
    PROVE  Gathered = Batch
BY TaskOfInBatch DEF Gathered

LEMMA GatheredInBatch == Gathered \subseteq Batch
BY TaskOfInBatch DEF Gathered

-----------------------------------------------------------------------------
(* Type correctness.                                                       *)

LEMMA ResultTypes ==
    /\ {Failed, Cancelled} \subseteq ToolResult /\ ToolEnds \subseteq ToolResult
    /\ Nothing \notin ToolResult \cup {Raised}
    /\ Raised \notin ToolResult
    /\ \A s \in Status : [status |-> s, error |-> FALSE] \in ToolResult
BY DEF ToolResult, Status, ToolEnds, Failed, Cancelled, Nothing, Raised

LEMMA BatchInit == Init => BatchInv
<1> SUFFICES ASSUME Init PROVE BatchInv
  OBVIOUS
<1>1. TypeOK
  <2>1. written \in [Batch -> [result: ToolResult \cup {Nothing}, state: {"none", "SUCCESS", "ERROR"}]]
    BY DEF Init
  <2>2. invoked \in [Batch -> 0..2] /\ after \in [Batch -> 0..2]
    BY DEF Init
  <2>3. \A c \in SyncTools : task[c] = "ready"
    BY BatchAssumption DEF Init
  <2>4. outcome \in [Batch -> ToolResult \cup {Nothing, Raised}] /\ cancel \in [Batch -> BOOLEAN]
    BY DEF Init
  <2>5. \A c \in SyncTools : task[c] = "tool" => thread[c] # "none"
    BY <2>3
  <2>6. task \in [Batch -> {"ready", "before", "tool", "after", "done"}] /\ cancels \in 0..MaxCancels
    BY BatchAssumption DEF Init
  <2>7. /\ thread \in [Batch -> {"none", "queued", "running", "finished"}]
        /\ span \in [Batch -> {"open", "ended"}]
    BY DEF Init
  <2> QED BY <2>1, <2>2, <2>4, <2>5, <2>6, <2>7 DEF Init, TypeOK
<1>2. ASSUME NEW c \in Batch PROVE CallInv(c) /\ ToolInv(c)
  BY <1>2 DEF Init, CallInv, ToolInv
<1>3. GatherInv
  BY DEF Init, GatherInv, Left
<1> QED BY <1>1, <1>2, <1>3 DEF BatchInv

LEMMA TypeNext == BatchInv /\ [Next]_vars => TypeOK'
<1> SUFFICES ASSUME BatchInv, [Next]_vars PROVE TypeOK'
  OBVIOUS
<1> USE BatchAssumption, ResultTypes DEF BatchInv, TypeOK, tasks, run, history, Goto, Ends, EntersAfter
<1>1. ASSUME NEW c \in Batch, Start(c) PROVE TypeOK'
  <2>1. CASE c \in Malformed
    <3>1. Ends(c, "ready", Failed)
      BY <1>1, <2>1 DEF Start
    <3>2. task'[c] = "done" /\ \A d \in Batch \ {c} : task'[d] = task[d]
      BY <3>1
    <3> QED BY <1>1, <3>1, <3>2 DEF Start
  <2>2. CASE c \notin Malformed
    BY <1>1, <2>2 DEF Start
  <2> QED BY <2>1, <2>2
<1>2. ASSUME NEW c \in Batch, StartCancelled(c) PROVE TypeOK'
  BY <1>2 DEF StartCancelled
<1>3. ASSUME NEW c \in Batch, BeforeDenies(c) PROVE TypeOK'
  BY <1>3 DEF BeforeDenies
<1>4. ASSUME NEW c \in Batch, BeforeLets(c) PROVE TypeOK'
  <2>1. CallInv(c) /\ ToolInv(c)
    BY <1>4
  <2>2. task' = [task EXCEPT ![c] = "tool"] /\ let' = let \cup {c}
        /\ UNCHANGED <<cancel, outcome, span, after, gatherer, interrupted, cancels, written>>
    BY <1>4 DEF BeforeLets
  <2>3. CASE c \in SyncTools
    <3>1. thread' = [thread EXCEPT ![c] = "queued"] /\ invoked' = invoked
      BY <1>4, <2>3 DEF BeforeLets
    <3>2. \A d \in SyncTools : task'[d] = "tool" => thread'[d] # "none"
      BY <2>2, <3>1
    <3> QED BY <2>2, <3>1, <3>2
  <2>4. CASE c \notin SyncTools
    <3>1. thread' = thread /\ invoked' = [invoked EXCEPT ![c] = @ + 1]
      BY <1>4, <2>4 DEF BeforeLets
    <3>2. invoked[c] = 0
      BY <1>4, <2>1, <2>4 DEF BeforeLets, CallInv, ToolInv
    <3>3. \A d \in SyncTools : task'[d] = "tool" => thread'[d] # "none"
      BY <2>2, <2>4, <3>1
    <3> QED BY <2>2, <3>1, <3>2, <3>3
  <2> QED BY <2>3, <2>4
<1>5. ASSUME NEW c \in Batch, NEW result \in ToolEnds, ToolReturns(c, result) PROVE TypeOK'
  <2>1. after[c] = 0 /\ result \in ToolResult \cup {Nothing, Raised}
    BY <1>5 DEF ToolReturns, CallInv
  <2>2. /\ task' = [task EXCEPT ![c] = "after"] /\ outcome' = [outcome EXCEPT ![c] = result]
        /\ after' = [after EXCEPT ![c] = @ + 1]
        /\ UNCHANGED <<cancel, thread, span, run, let, invoked>>
    BY <1>5 DEF ToolReturns
  <2>3. \A d \in SyncTools : task'[d] = "tool" => thread'[d] # "none"
    BY <2>2
  <2>4. after' \in [Batch -> 0..2] /\ outcome' \in [Batch -> ToolResult \cup {Nothing, Raised}]
    BY <2>1, <2>2
  <2>5. task' \in [Batch -> {"ready", "before", "tool", "after", "done"}]
    BY <2>2
  <2> QED BY <2>2, <2>3, <2>4, <2>5
<1>6. ASSUME NEW c \in Batch, ToolCancelled(c) PROVE TypeOK'
  BY <1>6 DEF ToolCancelled, CallInv
<1>7. ASSUME NEW c \in Batch, HookCancelled(c) PROVE TypeOK'
  BY <1>7 DEF HookCancelled
<1>8. ASSUME NEW c \in Batch, Swallows(c) PROVE TypeOK'
  BY <1>8 DEF Swallows
<1>9. ASSUME NEW c \in Batch, AfterHook(c) PROVE TypeOK'
  BY <1>9 DEF AfterHook
<1>10. ASSUME NEW c \in Batch, ThreadStarts(c) PROVE TypeOK'
  BY <1>10 DEF ThreadStarts, ToolInv
<1>11. ASSUME NEW c \in Batch, ThreadEnds(c) PROVE TypeOK'
  BY <1>11 DEF ThreadEnds
<1>12. CASE GatherCancelled
  BY <1>12 DEF GatherCancelled
<1>13. CASE Collect
  <2>1. ASSUME NEW c \in Batch PROVE Finished(c) \in ToolResult \cup {Nothing}
    BY TaskOfInBatch DEF Finished, Status
  <2>2. written' \in [Batch -> [result: ToolResult \cup {Nothing}, state: {"none", "SUCCESS", "ERROR"}]]
    BY <1>13, <2>1 DEF Collect, WriteResults
  <2>3. gatherer' \in {"returned", "raised"}
    BY <1>13 DEF Collect, WriteResults
  <2> QED BY <1>13, <2>2, <2>3 DEF Collect
<1>14. CASE CancelRun
  <2>1. cancel' \in [Batch -> BOOLEAN]
    BY <1>14, Zenon DEF CancelRun
  <2> QED BY <1>14, <2>1 DEF CancelRun
<1>15. CASE UNCHANGED vars
  BY <1>15 DEF vars
<1> QED
  BY <1>1, <1>2, <1>3, <1>4, <1>5, <1>6, <1>7, <1>8, <1>9, <1>10, <1>11, <1>12, <1>13, <1>14, <1>15
     DEF Next, Task, Thread, Gatherer

-----------------------------------------------------------------------------
(* A step of a task or a thread.                                           *)

\* A task that is done stays as it ended: no step of a task or a thread
\* disturbs what the gatherer has seen.
LEMMA GatherFrame ==
    ASSUME BatchInv, UNCHANGED run,
           \A c \in Batch : task[c] = "done" => task'[c] = "done" /\ outcome'[c] = outcome[c]
    PROVE  GatherInv'
<1>1. gatherer' # "gather" => \A c \in Gathered : task'[c] = "done"
  BY GatheredInBatch DEF BatchInv, GatherInv, run
<1>2. ASSUME Left, cancels < 2, NEW c \in Batch PROVE written'[c].result = Finished(c)'
  <2>1. TaskOf(c) \in Gathered /\ TaskOf(c) \in Batch /\ task[TaskOf(c)] = "done"
    BY <1>2, TaskOfInBatch DEF Gathered, BatchInv, GatherInv, Left
  <2>2. Finished(c)' = Finished(c)
    BY <2>1 DEF Finished, run
  <2> QED BY <1>2, <2>2 DEF BatchInv, GatherInv, run
<1> QED BY <1>1, <1>2 DEF BatchInv, GatherInv, Left, run

\* What is known of a call depends on that call, and on whether the batch was
\* cancelled.
LEMMA CallFrame ==
    ASSUME NEW c \in Batch, CallInv(c), ToolInv(c),
           task'[c] = task[c], cancel'[c] = cancel[c], outcome'[c] = outcome[c],
           thread'[c] = thread[c], span'[c] = span[c], c \in let' <=> c \in let,
           invoked'[c] = invoked[c], after'[c] = after[c], interrupted => interrupted'
    PROVE  CallInv(c)' /\ ToolInv(c)'
BY DEF CallInv, ToolInv

\* A step of the task of c, or of its thread, keeps the invariant of c if it
\* touches nothing of another call.
LEMMA TaskFrame ==
    ASSUME BatchInv, [Next]_vars, NEW c \in Batch, UNCHANGED run,
           CallInv(c)', ToolInv(c)',
           task[c] = "done" => task'[c] = "done" /\ outcome'[c] = outcome[c],
           \A d \in Batch \ {c} :
             /\ task'[d] = task[d] /\ cancel'[d] = cancel[d] /\ outcome'[d] = outcome[d]
             /\ thread'[d] = thread[d] /\ span'[d] = span[d] /\ (d \in let' <=> d \in let)
             /\ invoked'[d] = invoked[d] /\ after'[d] = after[d]
    PROVE  BatchInv'
<1>1. ASSUME NEW d \in Batch \ {c} PROVE CallInv(d)' /\ ToolInv(d)'
  BY <1>1, CallFrame DEF BatchInv, run
<1>2. GatherInv'
  BY GatherFrame
<1> QED BY <1>1, <1>2, TypeNext DEF BatchInv

LEMMA TaskKeeps ==
    ASSUME BatchInv, [Next]_vars, NEW c \in Batch, Task(c)
    PROVE  BatchInv'
<1>0. CallInv(c) /\ ToolInv(c) /\ TypeOK /\ TypeOK'
  BY TypeNext DEF BatchInv
<1> USE <1>0, TaskFrame, ResultTypes DEF tasks, run, history, TypeOK, CallInv, ToolInv, Goto,
                                         Ends, EntersAfter
<1>1. CASE Start(c)
  BY <1>1 DEF Start
<1>2. CASE StartCancelled(c)
  BY ZenonT(60), <1>2 DEF StartCancelled
<1>3. CASE BeforeDenies(c)
  BY <1>3 DEF BeforeDenies
<1>4. CASE BeforeLets(c)
  <2>1. CallInv(c)'
    BY <1>4 DEF BeforeLets
  <2>2. ToolInv(c)'
    BY <1>4 DEF BeforeLets
  <2> QED BY <1>4, <2>1, <2>2 DEF BeforeLets
<1>5. ASSUME NEW result \in ToolEnds, ToolReturns(c, result) PROVE BatchInv'
  BY <1>5 DEF ToolReturns
<1>6. CASE ToolCancelled(c)
  <2>1. CallInv(c)'
    BY <1>6 DEF ToolCancelled
  <2>2. ToolInv(c)'
    BY <1>6 DEF ToolCancelled
  <2> QED BY ZenonT(60), <1>6, <2>1, <2>2 DEF ToolCancelled
<1>7. CASE HookCancelled(c)
  <2>1. PICK hook \in {"before", "after"} : Ends(c, hook, Raised)
    BY <1>7 DEF HookCancelled
  <2>2. CallInv(c)'
    BY <1>7, <2>1 DEF HookCancelled
  <2>3. ToolInv(c)'
    BY <1>7, <2>1 DEF HookCancelled
  <2> QED BY ZenonT(60), <1>7, <2>1, <2>2, <2>3 DEF HookCancelled
<1>8. CASE Swallows(c)
  <2>1. CallInv(c)'
    BY <1>8 DEF Swallows
  <2>2. ToolInv(c)'
    BY <1>8 DEF Swallows
  <2> QED BY <1>8, <2>1, <2>2 DEF Swallows
<1>9. CASE AfterHook(c)
  <2>1. CallInv(c)'
    BY <1>9 DEF AfterHook
  <2>2. ToolInv(c)'
    BY <1>9 DEF AfterHook
  <2> QED BY <1>9, <2>1, <2>2 DEF AfterHook
<1> QED BY <1>1, <1>2, <1>3, <1>4, <1>5, <1>6, <1>7, <1>8, <1>9 DEF Task

LEMMA ThreadKeeps ==
    ASSUME BatchInv, [Next]_vars, NEW c \in Batch, Thread(c)
    PROVE  BatchInv'
<1>0. CallInv(c) /\ ToolInv(c) /\ TypeOK /\ TypeOK'
  BY TypeNext DEF BatchInv
<1> USE <1>0, TaskFrame DEF run, history, TypeOK, CallInv, ToolInv
<1>1. CASE ThreadStarts(c)
  BY <1>1 DEF ThreadStarts
<1>2. CASE ThreadEnds(c)
  BY <1>2 DEF ThreadEnds
<1> QED BY <1>1, <1>2 DEF Thread

-----------------------------------------------------------------------------
(* A step of the gatherer, or a cancellation of its task.                  *)

LEMMA GathererKeeps ==
    ASSUME BatchInv, [Next]_vars, Gatherer
    PROVE  BatchInv'
<1>1. \A c \in Batch : CallInv(c)' /\ ToolInv(c)'
  BY CallFrame DEF BatchInv, Gatherer, GatherCancelled, Collect, tasks, history
<1>2. GatherInv'
  <2>1. CASE GatherCancelled
    BY <2>1 DEF BatchInv, GatherInv, GatherCancelled, AllDone, Left, tasks
  <2>2. CASE Collect
    <3>1. \A c \in Gathered : task'[c] = "done"
      BY <2>2 DEF BatchInv, GatherInv, Collect, AllDone, tasks
    <3>2. gatherer' # "regather" /\ (interrupted' <=> cancels' > 0)
      BY <2>2 DEF BatchInv, GatherInv, Collect, WriteResults
    <3>3. ASSUME NEW c \in Batch PROVE written'[c].result = Finished(c)'
      <4>1. Finished(c)' = Finished(c)
        BY <2>2 DEF Collect, Finished, tasks
      <4> QED BY <2>2, <4>1 DEF Collect, WriteResults
    <3> QED BY <3>1, <3>2, <3>3 DEF GatherInv
  <2> QED BY <2>1, <2>2 DEF Gatherer
<1> QED BY <1>1, <1>2, TypeNext DEF BatchInv

\* A cancellation reaches tasks that are not done; one in the second gather
\* leaves nothing recorded.
LEMMA CancelRunKeeps ==
    ASSUME BatchInv, [Next]_vars, CancelRun
    PROVE  BatchInv'
<1>1. ASSUME NEW c \in Batch PROVE CallInv(c)' /\ ToolInv(c)'
  BY <1>1 DEF BatchInv, CancelRun, CallInv, ToolInv, history
<1>2. GatherInv'
  <2>1. interrupted' /\ cancels' > 0
    BY DEF BatchInv, TypeOK, CancelRun
  <2>2. gatherer' # "gather" => \A c \in Gathered : task'[c] = "done"
    BY DEF BatchInv, GatherInv, CancelRun
  <2>3. Left' => cancels' >= 2
    BY DEF BatchInv, TypeOK, GatherInv, CancelRun, Left
  <2> QED BY <2>1, <2>2, <2>3, TypeNext DEF GatherInv, TypeOK
<1> QED BY <1>1, <1>2, TypeNext DEF BatchInv

LEMMA BatchNext == BatchInv /\ [Next]_vars => BatchInv'
<1> SUFFICES ASSUME BatchInv, [Next]_vars PROVE BatchInv'
  OBVIOUS
<1>1. ASSUME NEW c \in Batch, Task(c) \/ Thread(c) PROVE BatchInv'
  BY <1>1, TaskKeeps, ThreadKeeps
<1>2. CASE Gatherer
  BY <1>2, GathererKeeps
<1>3. CASE CancelRun
  BY <1>3, CancelRunKeeps
<1>4. CASE UNCHANGED vars
  <2>1. ASSUME NEW c \in Batch PROVE CallInv(c)' /\ ToolInv(c)'
    BY <1>4, CallFrame DEF BatchInv, vars, tasks, run, history
  <2>2. GatherInv'
    BY <1>4, GatherFrame DEF vars, tasks
  <2> QED BY <2>1, <2>2, TypeNext DEF BatchInv
<1> QED BY <1>1, <1>2, <1>3, <1>4 DEF Next

-----------------------------------------------------------------------------
(* The theorems.                                                           *)

LEMMA BatchCorrect == Spec => []BatchInv
BY BatchInit, BatchNext, PTL DEF Spec

\* tool_handler.py, run_one: whatever is cancelled and whenever, a tool runs at
\* most once, only if its before hook let it, and never on broken arguments.
THEOREM ToolInvokedOnce == Spec => []InvokedOnceIfLet
<1>1. BatchInv => InvokedOnceIfLet
  BY DEF BatchInv, CallInv, ToolInv, InvokedOnceIfLet
<1> QED BY <1>1, BatchCorrect, PTL

\* tool_handler.py, run_one and _run_one_traced: the after hook is asked about
\* exactly the calls the before hook let pass, and spans are closed.
THEOREM HooksAndSpansPair == Spec => []HooksAndSpansPaired
<1>1. BatchInv => HooksAndSpansPaired
  <2> SUFFICES ASSUME BatchInv, Left, NEW c \in Gathered
               PROVE  /\ after[c] = IF c \in let THEN 1 ELSE 0
                      /\ span[c] = "open" => outcome[c] = Raised /\ interrupted
                                             /\ c \notin let /\ invoked[c] = 0
    BY DEF HooksAndSpansPaired, HooksPaired, SpansClosed
  <2>1. c \in Batch /\ task[c] = "done"
    BY GatheredInBatch DEF BatchInv, GatherInv, Left
  <2> QED BY <2>1 DEF BatchInv, CallInv, ToolInv
<1> QED BY <1>1, BatchCorrect, PTL

\* gather_results: with a different id for each call, nothing of a batch goes
\* on after it but the thread of a sync tool whose batch was cancelled.  (The
\* cfg RepeatedId refutes it for two calls with one id.)
THEOREM NothingOutlives ==
    ASSUME \A c, d \in Batch : IdOf[c] = IdOf[d] => c = d
    PROVE  Spec => []NothingOutlivesBatch
<1>1. BatchInv => NothingOutlivesBatch
  BY AllGathered DEF BatchInv, GatherInv, ToolInv, NothingOutlivesBatch, Left
<1> QED BY <1>1, BatchCorrect, PTL

\* gather_results and _execute_calls: a batch cancelled at most once records
\* for every call the result of its task, or one that says why there is none.
THEOREM EveryCallIsAnswered == Spec => []EveryCallAnswered
<1>1. BatchInv => EveryCallAnswered
  <2> SUFFICES ASSUME BatchInv, Left, cancels < 2, NEW c \in Batch
               PROVE  /\ written[c].result # Nothing
                      /\ outcome[TaskOf(c)] # Raised => written[c].result = outcome[TaskOf(c)]
    BY DEF EveryCallAnswered
  <2>1. written[c].result = Finished(c)
    BY DEF BatchInv, GatherInv
  <2>2. TaskOf(c) \in Batch /\ TaskOf(c) \in Gathered
    BY TaskOfInBatch DEF Gathered
  <2>3. outcome[TaskOf(c)] # Nothing
    BY <2>2 DEF BatchInv, GatherInv, CallInv, Left
  <2> QED BY <2>1, <2>3 DEF Finished, Nothing
<1> QED BY <1>1, BatchCorrect, PTL

=============================================================================
