---------------------------- MODULE ToolHandler ----------------------------
(***************************************************************************)
(* agent/runner/tool_handler.py, and the part of _execute_calls            *)
(* (_execute_acting.py) around it: one batch of tool calls, each in an     *)
(* asyncio task of its own, gathered by the task of run(), which may be    *)
(* cancelled while it waits.                                               *)
(*                                                                         *)
(* task[c] is where the task of the call at position c of the batch is:    *)
(*    "ready"   created, its coroutine not started                         *)
(*    "before"  awaiting the tool/before hook                              *)
(*    "tool"    awaiting the tool, or the thread a sync tool runs in       *)
(*    "after"   awaiting the tool/after hook                               *)
(*    "done"    ended, with outcome[c]                                     *)
(* A cancellation of a task is delivered when the task runs next, as a     *)
(* CancelledError at its await; an asynchronous tool and a hook may catch  *)
(* it and go on.  A thread cannot be interrupted.                          *)
(***************************************************************************)
EXTENDS Integers, FiniteSets

CONSTANTS N,            \* calls in the batch
          Ids, IdOf,    \* their tool call ids
          SyncTools,    \* positions whose tool is a plain function
          Malformed,    \* positions whose arguments are no JSON
          MaxCancels    \* bound: Task.cancel() on the task of run()

Batch == 1..N

ASSUME BatchAssumption ==
    /\ N \in Nat
    /\ IdOf \in [Batch -> Ids]
    /\ SyncTools \subseteq Batch /\ Malformed \subseteq Batch
    /\ MaxCancels \in Nat

VARIABLES task, cancel, outcome, thread, span,
          gatherer,     \* where the task of run() is
          interrupted,  \* it has been cancelled while it gathered
          cancels,
          written,      \* what it recorded for each call
          \* history
          let,          \* calls the before hook let pass
          invoked,      \* times each tool was entered, up to two
          after         \* times the after hook was asked about each call

tasks   == <<task, cancel, outcome, thread, span>>
run     == <<gatherer, interrupted, cancels, written>>
history == <<let, invoked, after>>
vars    == <<tasks, run, history>>

\* ToolResult.status and whether ToolResult.error is a non-empty string.
Status     == {"completed", "failed", "cancelled"}
ToolResult == [status: Status, error: BOOLEAN]
Nothing    == [status |-> "none", error |-> FALSE]
Raised     == [status |-> "raised", error |-> FALSE]

Failed    == [status |-> "failed", error |-> TRUE]
Cancelled == [status |-> "cancelled", error |-> FALSE]

\* What run_one makes of the tool's end.  The error of a failed tool is
\* str(exc), which is empty for an exception without a message.
ToolEnds == {[status |-> "completed", error |-> FALSE], Failed,
             [status |-> "failed", error |-> FALSE], Cancelled}

\* tool_tasks, keyed by call id: of several calls with one id, the last.
TaskOf(c) == CHOOSE d \in Batch : /\ IdOf[d] = IdOf[c]
                                  /\ \A e \in Batch : IdOf[e] = IdOf[c] => e <= d

Gathered == {TaskOf(c) : c \in Batch}

Init ==
    /\ task = [c \in Batch |-> "ready"]
    /\ cancel = [c \in Batch |-> FALSE]
    /\ outcome = [c \in Batch |-> Nothing]
    /\ thread = [c \in Batch |-> "none"]
    /\ span = [c \in Batch |-> "open"]
    /\ gatherer = "gather"
    /\ interrupted = FALSE
    /\ cancels = 0
    /\ written = [c \in Batch |-> [result |-> Nothing, state |-> "none"]]
    /\ let = {}
    /\ invoked = [c \in Batch |-> 0]
    /\ after = [c \in Batch |-> 0]

-----------------------------------------------------------------------------
(* _run_one_traced and run_one                                             *)

Goto(c, from, to) == task[c] = from /\ task' = [task EXCEPT ![c] = to]

\* The task ends with a result or an exception, and its span with it.
Ends(c, from, result) ==
    /\ Goto(c, from, "done")
    /\ outcome' = [outcome EXCEPT ![c] = result]
    /\ span' = [span EXCEPT ![c] = "ended"]

\* Bad arguments are answered without asking anyone.
Start(c) ==
    /\ ~cancel[c]
    /\ \/ c \in Malformed /\ Ends(c, "ready", Failed)
       \/ c \notin Malformed /\ Goto(c, "ready", "before") /\ UNCHANGED <<outcome, span>>
    /\ UNCHANGED <<cancel, thread, run, history>>

\* A task cancelled before its first step never enters its coroutine.
StartCancelled(c) ==
    /\ cancel[c]
    /\ Goto(c, "ready", "done")
    /\ cancel' = [cancel EXCEPT ![c] = FALSE]
    /\ outcome' = [outcome EXCEPT ![c] = Raised]
    /\ UNCHANGED <<thread, span, run, history>>

\* Mutation of BeforeDenies: the denied tool runs all the same.
BeforeDeniesNothing(c) ==
    /\ ~cancel[c]
    /\ Goto(c, "before", "tool")
    /\ invoked' = [invoked EXCEPT ![c] = 1]
    /\ UNCHANGED <<cancel, outcome, span, thread, run, let, after>>

\* The before hook answers ToolDeny, or raises.
BeforeDenies(c) ==
    /\ ~cancel[c]
    /\ \E result \in {Failed, Raised} : Ends(c, "before", result)
    /\ UNCHANGED <<cancel, thread, run, history>>

\* The before hook lets the call pass: an asynchronous tool is entered at
\* once, a sync one is handed to the thread pool.
BeforeLets(c) ==
    /\ ~cancel[c]
    /\ Goto(c, "before", "tool")
    /\ let' = let \cup {c}
    /\ IF c \in SyncTools
         THEN thread' = [thread EXCEPT ![c] = "queued"] /\ UNCHANGED invoked
         ELSE invoked' = [invoked EXCEPT ![c] = @ + 1] /\ UNCHANGED thread
    /\ UNCHANGED <<cancel, outcome, span, run, after>>

ThreadStarts(c) ==
    /\ thread[c] = "queued"
    /\ thread' = [thread EXCEPT ![c] = "running"]
    /\ invoked' = [invoked EXCEPT ![c] = @ + 1]
    /\ UNCHANGED <<task, cancel, outcome, span, run, let, after>>

ThreadEnds(c) ==
    /\ thread[c] = "running"
    /\ thread' = [thread EXCEPT ![c] = "finished"]
    /\ UNCHANGED <<task, cancel, outcome, span, run, history>>

\* The after hook is asked about the tool's end, whatever it was.
EntersAfter(c, result) ==
    /\ Goto(c, "tool", "after")
    /\ outcome' = [outcome EXCEPT ![c] = result]
    /\ after' = [after EXCEPT ![c] = @ + 1]

ToolReturns(c, result) ==
    /\ ~cancel[c]
    /\ c \in SyncTools => thread[c] = "finished"
    /\ EntersAfter(c, result)
    /\ UNCHANGED <<cancel, thread, span, run, let, invoked>>

\* Mutation of ToolCancelled: the after hook does not see a cancelled tool.
ToolCancelledUnseen(c) ==
    /\ cancel[c]
    /\ Ends(c, "tool", Cancelled)
    /\ cancel' = [cancel EXCEPT ![c] = FALSE]
    /\ thread' = [thread EXCEPT ![c] = IF @ = "queued" THEN "none" ELSE @]
    /\ UNCHANGED <<run, history>>

\* Mutation of ToolCancelled: the thread of a sync tool is waited for.
ToolCancelledWaits(c) ==
    /\ cancel[c] /\ thread[c] \notin {"queued", "running"}
    /\ EntersAfter(c, Cancelled)
    /\ cancel' = [cancel EXCEPT ![c] = FALSE]
    /\ UNCHANGED <<thread, span, run, let, invoked>>

\* A cancellation is delivered at the tool: a thread that has not started is
\* taken from the queue, one that runs is left to itself.
ToolCancelled(c) ==
    /\ cancel[c]
    /\ EntersAfter(c, Cancelled)
    /\ cancel' = [cancel EXCEPT ![c] = FALSE]
    /\ thread' = [thread EXCEPT ![c] = IF @ = "queued" THEN "none" ELSE @]
    /\ UNCHANGED <<span, run, let, invoked>>

\* A cancellation is delivered at a hook.
HookCancelled(c) ==
    /\ cancel[c]
    /\ \E hook \in {"before", "after"} : Ends(c, hook, Raised)
    /\ cancel' = [cancel EXCEPT ![c] = FALSE]
    /\ UNCHANGED <<thread, run, history>>

\* The hook or the asynchronous tool catches the cancellation.
Swallows(c) ==
    /\ cancel[c]
    /\ task[c] \in {"before", "after"} \/ (task[c] = "tool" /\ c \notin SyncTools)
    /\ cancel' = [cancel EXCEPT ![c] = FALSE]
    /\ UNCHANGED <<task, outcome, thread, span, run, history>>

\* The after hook keeps the result, replaces it, or raises.
AfterHook(c) ==
    /\ ~cancel[c]
    /\ \E result \in ToolResult \cup {Raised} : Ends(c, "after", result)
    /\ UNCHANGED <<cancel, thread, run, history>>

-----------------------------------------------------------------------------
(* gather_results                                                          *)

\* Task.cancel() on the task of run().  In the first gather it is passed on to
\* the tasks that are not done, and raised when all of them are; in the
\* second, where all are done, it is raised at once.
CancelRun ==
    /\ cancels < MaxCancels
    /\ cancels' = cancels + 1
    /\ interrupted' = TRUE
    /\ \/ /\ gatherer = "gather"
          /\ cancel' = [c \in Batch |-> cancel[c] \/ (c \in Gathered /\ task[c] # "done")]
          /\ UNCHANGED gatherer
       \/ gatherer = "regather" /\ gatherer' = "raised" /\ UNCHANGED cancel
    /\ UNCHANGED <<task, outcome, thread, span, written, history>>

\* Mutation of AllDone: gather() returns at the first exception.
AllDoneFirstException ==
    (\A c \in Gathered : task[c] = "done") \/ \E c \in Gathered : outcome[c] = Raised

\* Mutation of AllDone: tasks that raised are waited for.
AllDoneWithResult == \A c \in Gathered : task[c] = "done" /\ outcome[c] # Raised

AllDone == \A c \in Gathered : task[c] = "done"

\* What is recorded for the call at c: its task's result, or a result that
\* says it was interrupted.
Finished(c) ==
    IF outcome[TaskOf(c)] # Raised THEN outcome[TaskOf(c)]
    ELSE [status |-> IF interrupted THEN "cancelled" ELSE "failed", error |-> FALSE]

\* _execute_calls: every result is recorded; then a cancelled batch raises.
WriteResults(result, cancelled) ==
    /\ written' = [c \in Batch |->
         [result |-> result[c], state |-> IF result[c].error THEN "ERROR" ELSE "SUCCESS"]]
    /\ gatherer' = IF cancelled \/ \E c \in Batch : result[c].status = "cancelled"
                     THEN "raised" ELSE "returned"

\* The first gather raises the cancellation and the tasks are gathered again.
GatherCancelled ==
    /\ gatherer = "gather" /\ interrupted /\ AllDone
    /\ gatherer' = "regather"
    /\ UNCHANGED <<tasks, interrupted, cancels, written, history>>

\* Mutation of Collect: what the tasks answered before the cancellation is lost.
CollectInterrupted ==
    /\ \/ gatherer = "gather" /\ ~interrupted /\ AllDone
       \/ gatherer = "regather"
    /\ WriteResults([c \in Batch |-> IF interrupted THEN Cancelled ELSE Finished(c)], interrupted)
    /\ UNCHANGED <<tasks, interrupted, cancels, history>>

Collect ==
    /\ \/ gatherer = "gather" /\ ~interrupted /\ AllDone
       \/ gatherer = "regather"
    /\ WriteResults([c \in Batch |-> Finished(c)], interrupted)
    /\ UNCHANGED <<tasks, interrupted, cancels, history>>

-----------------------------------------------------------------------------
Task(c) ==
    \/ Start(c) \/ StartCancelled(c)
    \/ BeforeDenies(c) \/ BeforeLets(c)
    \/ \E result \in ToolEnds : ToolReturns(c, result)
    \/ ToolCancelled(c) \/ HookCancelled(c) \/ Swallows(c)
    \/ AfterHook(c)

Thread(c) == ThreadStarts(c) \/ ThreadEnds(c)

Gatherer == GatherCancelled \/ Collect

Next ==
    \/ \E c \in Batch : Task(c) \/ Thread(c)
    \/ Gatherer
    \/ CancelRun

Spec == Init /\ [][Next]_vars

\* Hooks and asynchronous tools answer, and the event loop serves every task;
\* nothing is said of the threads sync tools run in.
FairSpec == Spec /\ WF_vars(Gatherer) /\ \A c \in Batch : WF_vars(Task(c))

-----------------------------------------------------------------------------
Left == gatherer \in {"returned", "raised"}

\* Every variable has its type, and a task waiting for a sync tool has its
\* thread.
TypeOK ==
    /\ task \in [Batch -> {"ready", "before", "tool", "after", "done"}]
    /\ cancel \in [Batch -> BOOLEAN]
    /\ outcome \in [Batch -> ToolResult \cup {Nothing, Raised}]
    /\ thread \in [Batch -> {"none", "queued", "running", "finished"}]
    /\ span \in [Batch -> {"open", "ended"}]
    /\ gatherer \in {"gather", "regather", "returned", "raised"}
    /\ interrupted \in BOOLEAN /\ cancels \in 0..MaxCancels
    /\ written \in [Batch -> [result: ToolResult \cup {Nothing},
                              state: {"none", "SUCCESS", "ERROR"}]]
    /\ let \subseteq Batch /\ invoked \in [Batch -> 0..2] /\ after \in [Batch -> 0..2]
    /\ \A c \in SyncTools : task[c] = "tool" => thread[c] # "none"

\* A tool is entered at most once, and only after its before hook let it pass;
\* never with arguments that could not be parsed.
InvokedOnceIfLet ==
    \A c \in Batch : /\ invoked[c] <= 1
                     /\ invoked[c] > 0 => c \in let \ Malformed

\* Before and after hooks pair up: once a batch is over, the after hook was
\* asked exactly about the calls the before hook let pass, cancelled or not.
HooksPaired ==
    Left => \A c \in Gathered : after[c] = IF c \in let THEN 1 ELSE 0

\* The span of a call is closed with its batch, unless its task was cancelled
\* before its first step.
SpansClosed ==
    Left => \A c \in Gathered :
      span[c] = "open" => /\ outcome[c] = Raised /\ interrupted
                          /\ c \notin let /\ invoked[c] = 0

\* Both: what a batch opened around its calls it closes, whatever cut it short.
HooksAndSpansPaired == HooksPaired /\ SpansClosed

\* Nothing of a batch goes on after it, with one exception: the thread of a
\* sync tool whose task was cancelled.
NothingOutlivesBatch ==
    Left => \A c \in Batch :
      /\ task[c] = "done"
      /\ thread[c] \in {"queued", "running"} => c \in SyncTools /\ interrupted

\* A batch cancelled once still answers each of its calls, and a call whose
\* task had a result is answered by that result.
EveryCallAnswered ==
    Left /\ cancels < 2 =>
      \A c \in Batch :
        /\ written[c].result # Nothing
        /\ outcome[TaskOf(c)] # Raised => written[c].result = outcome[TaskOf(c)]

\* A batch ends, even if the threads of its sync tools never do, once its
\* cancellation has caught each of them; a hook may still swallow it before.
CutOff(c) ==
    \/ task[c] \in {"after", "done"}
    \/ task[c] \in {"ready", "tool"} /\ cancel[c]

CancelledBatchEnds == (interrupted /\ \A c \in SyncTools : CutOff(c)) ~> Left

\* A batch ends if the threads of its sync tools do.
BatchEnds ==
    (\A c \in Batch : []<>(thread[c] \notin {"queued", "running"})) => <>Left

-----------------------------------------------------------------------------
(* Refuted: the divergences of README.md.                                  *)

\* docs/09-cancellation.md:51-57: a tool cut short gets a cancelled result.
CancelledNotSuccess ==
    \A c \in Batch : written[c].result.status = "cancelled" => written[c].state # "SUCCESS"

\* tool_handler.py:104: what a tool raises becomes a failed result.
FailedNotSuccess ==
    \A c \in Batch : written[c].result.status = "failed" => written[c].state # "SUCCESS"

=============================================================================
