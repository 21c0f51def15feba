---------------------------- MODULE ReActRunner ----------------------------
(***************************************************************************)
(* One ReActRunner (agent/runner/react_runner.py) with its executors       *)
(* (_execute_reasoning.py, _execute_acting.py) and the host that drives it.*)
(*                                                                         *)
(* run() is an async generator: a host task pulls events from it, and the  *)
(* code between two suspension points executes atomically, because the     *)
(* event loop is single threaded.  Runs is the set of generator objects;   *)
(* run[r].pc is the point where generator r is suspended:                  *)
(*    awaits  "hook"      before-reasoning hook                            *)
(*            "llm"       the provider's stream, whose events are yielded  *)
(*            "tools"     gather() of a round of tool tasks                *)
(*            "regather"  second gather(), after a cancellation            *)
(*            "stop"      stop-decision hook                               *)
(*    yields  "start"     ReplyStart                                       *)
(*            "ask"       RequireUserConfirm                               *)
(*            "result"    a tool's result events                           *)
(*            "deny"      the events of a DENIED result                    *)
(*            "hint"      the hint of a continued turn                     *)
(*            "end"       ReplyEnd                                         *)
(*    others  "idle"      not started, or returned                         *)
(*            "orphan"    dropped by its host, finally block still to run  *)
(* Each generator is driven by a host task of its own; RunState, the       *)
(* context and the run lock are shared by all of them.                     *)
(*                                                                         *)
(* Host says which of the behaviours the code cannot rule out the host     *)
(* shows: "cancel" (cancel_nowait, or the cancellation event),             *)
(* "cancelTwice" (cancel_nowait again while the tools of a cancelled run   *)
(* are gathered), "checkpoint" (the host writes the user's decision into  *)
(* the context before it resumes the agent), "crash" (the process dies;    *)
(* the context survives), "overlap" (confirmations are delivered at any    *)
(* time, twice, or contradictory) and "abandon" (the host stops iterating).*)
(***************************************************************************)
EXTENDS Context, Decision

CONSTANTS Runs, NoRun,
          Behaviors,    \* what the permission rules can say of a call
          Host,         \* the host behaviours above
          MaxBatch,     \* bound: tool calls in one model response
          MaxCrashes    \* bound: process crashes

ASSUME RunnerAssumption ==
    /\ NoRun \notin Runs
    /\ Behaviors \subseteq PermissionBehavior
    /\ MaxBatch \in Nat
    /\ MaxCrashes \in Nat

VARIABLES
    st,         \* RunState of the runner
    runTask,    \* _run_task: the run whose task holds the lock, or NoRun
    run,        \* the generators
    nreplies,   \* reply ids allocated
    nmsgs,      \* message ids allocated
    crashes,
    \* history, read by properties and by the host only
    decided,    \* decided[c]: what the user answered about call c
    spawned,    \* spawned[c]: times c's tool was started in this process
    ends        \* ends[p]: reasons of the ReplyEnd events of reply p

ids     == <<nreplies, nmsgs, crashes>>
history == <<decided, spawned, ends>>
vars    == <<st, runTask, run, context, ids, history>>

Awaits == {"hook", "llm", "tools", "regather", "stop"}
Yields == {"start", "ask", "result", "deny", "hint", "end"}
Points == {"idle", "orphan"} \cup Awaits \cup Yields

\* A generator: where it is, its locals, and the state of its host task.
\*   todo       calls the current loop over a batch has still to handle
\*   denied     resume_execute: calls to answer DENIED once the allowed ran
\*   prologue   the generator is inside resume_execute
\*   cancelled  a cancellation has reached it
\*   hint       the pending Reasoning action injects the finalization hint
\*   reply      the reply_id it read when it entered its try block
\*   exit       the reply_id its ExitExecutor read on entry
\*   msg        the message_id its executor read on entry
\*   cancelReq  Task.cancel() was called and has not been delivered
\*   done       its host task has ended
Generator ==
    [pc: Points, todo: SUBSET Calls, denied: SUBSET Calls, prologue: BOOLEAN,
     cancelled: BOOLEAN, hint: BOOLEAN, reply: Replies \cup {0},
     exit: Replies \cup {0}, msg: Msgs \cup {0}, cancelReq: BOOLEAN, done: BOOLEAN]

IdleGenerator ==
    [pc |-> "idle", todo |-> {}, denied |-> {}, prologue |-> FALSE,
     cancelled |-> FALSE, hint |-> FALSE, reply |-> 0, exit |-> 0,
     msg |-> 0, cancelReq |-> FALSE, done |-> TRUE]

NewGenerator(p) == [IdleGenerator EXCEPT !.reply = p, !.done = FALSE]

Init ==
    /\ ContextInit
    /\ st = FreshRunState
    /\ runTask = NoRun
    /\ run = [r \in Runs |-> IdleGenerator]
    /\ nreplies = 0 /\ nmsgs = 0 /\ crashes = 0
    /\ decided = [c \in Calls |-> "none"]
    /\ spawned = [c \in Calls |-> 0]
    /\ ends = [p \in Replies |-> << >>]

\* Counters kept for properties saturate at two, which already says "again".
Bump(n) == IF n < 2 THEN n + 1 ELSE n

Live(r) == run[r].pc \notin {"idle", "orphan"}

-----------------------------------------------------------------------------
(* Building blocks: the segments of code several handlers run before they  *)
(* suspend.  Each says what becomes of st, of generator g (g is its        *)
(* record so far), of ends and of the context.                             *)

\* A ReplyEnd of reply p with the given reason is yielded.
ReplyEnd(p, reason) ==
    ends' = IF p \in Replies /\ Len(ends[p]) < 2
              THEN [ends EXCEPT ![p] = Append(@, reason)] ELSE ends

\* The except blocks of run() and _loop(): _finalize, then yield ReplyEnd.
Abort(r, g, s, p, reason) ==
    /\ st' = Finalize(s, reason)
    /\ run' = [run EXCEPT ![r] = [g EXCEPT !.pc = "end", !.cancelReq = FALSE]]
    /\ ReplyEnd(p, reason)

\* Mutation of Interrupt: the cancellation is reported as an error.
InterruptAsError(r, g, s) == Abort(r, [g EXCEPT !.cancelled = TRUE], s, g.reply, "ERROR")

\* asyncio.CancelledError reaches run(), at an await or raised by the code.
Interrupt(r, g, s) == Abort(r, [g EXCEPT !.cancelled = TRUE], s, g.reply, "INTERRUPTED")

\* The entry of _loop's Reasoning branch, up to the await of the hook.
EnterReasoning(r, g, s, hint) ==
    LET t == [s EXCEPT !.iteration = @ + 1]
    IN  \/ /\ s.status = "CANCELLED" \/ s.cancellation
           /\ Interrupt(r, g, t)
        \/ /\ s.status # "CANCELLED" /\ ~s.cancellation
           /\ st' = t
           /\ run' = [run EXCEPT ![r] = [g EXCEPT !.pc = "hook", !.hint = hint]]
           /\ UNCHANGED ends

\* ExitExecutor.stream up to its first suspension: the stop-decision hook is
\* asked about a completed turn only; any other exit finalizes at once.
EnterExit(r, g, s, reason) ==
    \/ /\ reason = "COMPLETED"
       /\ st' = s
       /\ run' = [run EXCEPT ![r] = [g EXCEPT !.pc = "stop", !.exit = s.reply_id,
                                              !.msg = s.message_id]]
       /\ UNCHANGED ends
    \/ /\ reason # "COMPLETED"
       /\ Abort(r, g, s, s.reply_id, reason)

\* The top of _loop with the given prev, for every action but Acting.
LoopTop(r, g, s, prev) ==
    LET d == Decide(s, prev)
        t == Decided(s, prev)
    IN  \/ d.action = "Reasoning" /\ EnterReasoning(r, g, t, d.hint)
        \/ d.action = "Exit" /\ EnterExit(r, g, t, d.reason)

\* _execute_calls up to the gather: every call of the batch is spawned.
Spawn(r, g, s, batch) ==
    /\ st' = s
    /\ run' = [run EXCEPT ![r] = [g EXCEPT !.pc = "tools", !.todo = batch,
                                           !.msg = s.message_id]]
    /\ spawned' = [c \in Calls |-> IF c \in batch THEN Bump(spawned[c]) ELSE spawned[c]]
    /\ UNCHANGED ends

\* One call of a batch gets its result, and its events are yielded.
WriteResult(r, g, cs, result, at) ==
    LET c == First(g.todo)
    IN  /\ AddToolResult(c, g.msg, result)
        /\ calls' = SetToolCallState(cs, c, "FINISHED")
        /\ run' = [run EXCEPT ![r] = [g EXCEPT !.pc = at, !.todo = @ \ {c}]]

\* Mutation of DenyRest: the rejected calls are left unanswered.
DenyNone(r, g, cs, s) ==
    /\ LoopTop(r, [g EXCEPT !.prologue = FALSE, !.todo = {}], s, "none")
    /\ calls' = cs
    /\ UNCHANGED <<results, assistants>>

\* resume_execute once the allowed calls are done: the next denied call, or
\* the end of the prologue and the start of _loop.
DenyRest(r, g, cs, s) ==
    \/ /\ g.todo # {}
       /\ WriteResult(r, g, cs, "DENIED", "deny")
       /\ st' = s
       /\ UNCHANGED ends
    \/ /\ g.todo = {}
       /\ LoopTop(r, [g EXCEPT !.prologue = FALSE], s, "none")
       /\ calls' = cs
       /\ UNCHANGED <<results, assistants>>

\* ActingExecutor.stream asks about the first call of g.todo.
Ask(r, g, cs) ==
    LET c == First(g.todo)
    IN  /\ calls' = SetToolCallState(cs, c, "ASKING")
        /\ run' = [run EXCEPT ![r] = [g EXCEPT !.pc = "ask", !.todo = @ \ {c}]]

\* The finally block of run(): the root span is ended unless the run paused,
\* and the lock is released, whoever holds it.
Finally(s) ==
    /\ st' = IF s.status # "PAUSED" /\ s.span = "open"
               THEN [s EXCEPT !.span = "ended"] ELSE s
    /\ runTask' = NoRun

-----------------------------------------------------------------------------
(* The host starts a reply or answers a confirmation.                      *)

\* Mutation of LockFree: a new reply does not look at the lock.
NoLock == TRUE

\* The run lock, as _prepare_new_reply reads it: the task that took it, if any,
\* has ended.
LockFree == runTask # NoRun => run[runTask].done

\* Answers the user gave that no run has acted on yet.
Undelivered ==
    {c \in Calls : /\ decided[c] # "none"
                   /\ results[c] = << >>
                   /\ ends[calls[c].reply] = << >>
                   /\ calls[c].state \in {"ALLOWED", "FINISHED"}}

\* run(message) with a user message, up to the yield of ReplyStart.  A run
\* refused by _prepare_new_reply changes nothing and is not a step.
NewReply(r) ==
    /\ run[r].pc = "idle"
    /\ ToolCallsInState(calls, "ASKING") = {}
    /\ LockFree
    /\ nreplies < MaxReplies /\ nmsgs < MaxMsgs
    /\ Undelivered = {} \/ "overlap" \in Host
    /\ nreplies' = nreplies + 1
    /\ nmsgs' = nmsgs + 1
    /\ st' = Started(nreplies + 1, nmsgs + 1)
    /\ runTask' = r
    /\ run' = [run EXCEPT ![r] = [NewGenerator(nreplies + 1) EXCEPT !.pc = "start"]]
    /\ UNCHANGED <<context, crashes, history>>

Answer(ok) == IF ok THEN "yes" ELSE "no"

\* Mutation of Expected: a rejection is recorded as an approval.
ExpectedAllowed(ok) == "ALLOWED"

\* The state in which _accept_confirmation records the user's decision.
Expected(ok) == IF ok THEN "ALLOWED" ELSE "FINISHED"

\* A host that follows the protocol answers a call that is being asked about,
\* or repeats the answer it checkpointed, while no run is in flight and the
\* reply has not ended.
Polite(c, ok) ==
    /\ \A q \in Runs : run[q].pc = "idle"
    /\ \/ calls[c].state = "ASKING"
       \/ c \in Undelivered /\ decided[c] = Answer(ok)

\* Mutation of Redirected: the message of the confirmation is ignored.
RedirectedReply(c) ==
    [st EXCEPT !.continuation_count = 0, !.cancellation = FALSE,
               !.reply_id = calls[c].reply]

\* The RunState run() has after a new runtime_context and the coordinates of
\* the confirmation are assigned, before anything is validated.
Redirected(c) ==
    [st EXCEPT !.continuation_count = 0, !.cancellation = FALSE,
               !.reply_id = calls[c].reply, !.message_id = calls[c].msg]

\* resume_execute runs the pending calls the user allowed.
AllowedCalls(cs, pending) == {c \in pending : cs[c].state = "ALLOWED"}

\* resume_execute up to its first suspension.
Resume(r, cs, s) ==
    LET pending == PendingToolCalls(cs)
        allowed == AllowedCalls(cs, pending)
        g == [NewGenerator(s.reply_id) EXCEPT !.prologue = TRUE, !.msg = s.message_id]
    IN  \/ /\ allowed # {}
           /\ Spawn(r, [g EXCEPT !.denied = pending \ allowed], s, allowed)
           /\ calls' = cs
           /\ UNCHANGED <<results, assistants>>
        \/ /\ allowed = {}
           /\ DenyRest(r, [g EXCEPT !.todo = pending], cs, s)
           /\ UNCHANGED spawned

\* run(UserConfirmResultEvent): the answer is recorded, unless the context
\* already records the same one; while another call is ASKING the runner stays
\* paused, otherwise it resumes, without a look at the lock.
Confirm(r, c, ok) ==
    LET cs == SetToolCallState(calls, c, Expected(ok))
    IN  /\ run[r].pc = "idle"
        /\ calls[c].state \in {"ASKING", Expected(ok)}
        /\ Polite(c, ok) \/ "overlap" \in Host
        /\ decided' = IF calls[c].state = "ASKING"
                        THEN [decided EXCEPT ![c] = Answer(ok)] ELSE decided
        /\ \/ /\ ToolCallsInState(cs, "ASKING") # {}
              /\ calls' = cs
              /\ st' = [Redirected(c) EXCEPT !.status = "PAUSED"]
              /\ UNCHANGED <<runTask, run, results, assistants, spawned, ends>>
           \/ /\ ToolCallsInState(cs, "ASKING") = {}
              /\ runTask' = r
              /\ Resume(r, cs, [Redirected(c) EXCEPT !.status = "RUNNING"])
        /\ UNCHANGED ids

\* run(UserConfirmResultEvent) that conflicts with the recorded answer: the
\* RuntimeError comes after the coordinates were overwritten.
ConfirmConflict(r, c, ok) ==
    /\ run[r].pc = "idle"
    /\ "overlap" \in Host
    /\ calls[c].state \notin {"none", "ASKING", Expected(ok)}
    /\ st' = Redirected(c)
    /\ UNCHANGED <<runTask, run, context, ids, history>>

-----------------------------------------------------------------------------
(* The generator continues.                                                *)

\* The host pulls the event after ReplyStart: run() enters its try block.
Begin(r) ==
    /\ run[r].pc = "start"
    /\ LoopTop(r, [run[r] EXCEPT !.reply = st.reply_id], st, "none")
    /\ UNCHANGED <<runTask, context, ids, decided, spawned>>

\* The before-reasoning hook returns its messages.  A user message starts a
\* new AssistantMsg if the current one exists; the finalization hint goes to
\* whichever is current, and the provider is called.
HookReturns(r, userMessage) ==
    LET g == run[r]
        rotate == userMessage /\ st.message_id \in assistants
        m == IF rotate THEN nmsgs + 1 ELSE st.message_id
    IN  /\ g.pc = "hook" /\ ~g.cancelReq
        /\ rotate => nmsgs < MaxMsgs
        /\ \/ /\ st.status = "CANCELLED" \/ st.cancellation
              /\ Interrupt(r, g, st)
              /\ UNCHANGED <<nmsgs, assistants>>
           \/ /\ st.status # "CANCELLED" /\ ~st.cancellation
              /\ st' = [st EXCEPT !.message_id = m]
              /\ nmsgs' = IF rotate THEN nmsgs + 1 ELSE nmsgs
              /\ run' = [run EXCEPT ![r] = [g EXCEPT !.pc = "llm", !.msg = m]]
              /\ assistants' = IF g.hint THEN assistants \cup {m} ELSE assistants
              /\ UNCHANGED ends
        /\ UNCHANGED <<runTask, calls, results, nreplies, crashes, decided, spawned>>

\* The provider's stream ends without tool calls: with visible text, empty
\* (perhaps with reasoning), or in an error the executor gave up on.
LLMReturns(r, prev, blocks) ==
    LET g == run[r]
    IN  /\ g.pc = "llm" /\ ~g.cancelReq
        /\ prev = "text" => blocks
        /\ assistants' = IF blocks THEN assistants \cup {g.msg} ELSE assistants
        /\ LoopTop(r, g, st, prev)
        /\ UNCHANGED <<runTask, calls, results, ids, decided, spawned>>

\* ActingExecutor.stream suspends the whole batch if one call needs it.
HasPause(batch, f) == \E c \in batch : f[c] # "ALLOW"

\* The provider's response holds the tool calls of batch, to which the rules
\* assign the behaviors of f: _loop goes straight on to Acting, which spawns
\* them all, or asks about the ASK ones, or (DENY only) does neither.
LLMCalls(r, batch, f) ==
    LET g == run[r]
        cs == [c \in Calls |->
                 IF c \in batch
                   THEN [state |-> "PENDING", msg |-> g.msg, reply |-> st.reply_id,
                         behavior |-> f[c]]
                   ELSE calls[c]]
        asks == {c \in batch : f[c] = "ASK"}
        pause == HasPause(batch, f)
    IN  /\ g.pc = "llm" /\ ~g.cancelReq
        /\ Decide(st, "tools") = Acting
        /\ assistants' = assistants \cup {g.msg}
        /\ \/ /\ ~pause
              /\ calls' = cs
              /\ Spawn(r, g, st, batch)
           \/ /\ pause /\ asks # {}
              /\ Ask(r, [g EXCEPT !.todo = asks], cs)
              /\ UNCHANGED <<st, spawned, ends>>
           \/ /\ pause /\ asks = {}
              /\ calls' = cs
              /\ LoopTop(r, g, st, "none")
              /\ UNCHANGED spawned
        /\ UNCHANGED <<runTask, results, ids, decided>>

\* Mutation of CancelDelivered: the stop hook swallows the cancellation.
CancelDeliveredBeforeStop(r) ==
    /\ run[r].pc \in {"hook", "llm", "regather"}
    /\ run[r].cancelReq
    /\ Interrupt(r, run[r], st)
    /\ UNCHANGED <<runTask, context, ids, decided, spawned>>

\* CancelledError is delivered at an await that nothing but run() guards.
CancelDelivered(r) ==
    /\ run[r].pc \in Awaits \ {"tools"}
    /\ run[r].cancelReq
    /\ \E blocks \in BOOLEAN :
         /\ blocks => run[r].pc = "llm"         \* partial text is kept
         /\ assistants' = IF blocks THEN assistants \cup {run[r].msg} ELSE assistants
    /\ Interrupt(r, run[r], st)
    /\ UNCHANGED <<runTask, calls, results, ids, decided, spawned>>

\* A host hook raises: run() answers with ERROR.
HookRaises(r) ==
    /\ run[r].pc \in {"hook", "stop"} /\ ~run[r].cancelReq
    /\ Abort(r, run[r], st, run[r].reply, "ERROR")
    /\ UNCHANGED <<runTask, context, ids, decided, spawned>>

\* Mutation of ToolsCancelled: the run ends without waiting for its tools.
ToolsAbandoned(r) ==
    /\ run[r].pc = "tools" /\ run[r].cancelReq
    /\ Interrupt(r, run[r], st)
    /\ UNCHANGED <<runTask, context, ids, decided, spawned>>

\* gather() of the tool tasks is cancelled: it has cancelled them all and
\* raises once they are done; gather_results gathers them again.
ToolsCancelled(r) ==
    /\ run[r].pc = "tools" /\ run[r].cancelReq
    /\ run' = [run EXCEPT ![r].pc = "regather", ![r].cancelReq = FALSE,
                          ![r].cancelled = TRUE]
    /\ UNCHANGED <<st, runTask, context, ids, history>>

\* All tool tasks are done; the first result is written.  self says whether a
\* tool reported a cancellation of its own.
ToolsDone(r, self, result) ==
    LET g == run[r]
    IN  /\ g.pc \in {"tools", "regather"} /\ ~g.cancelReq
        /\ WriteResult(r, [g EXCEPT !.cancelled = @ \/ self \/ st.status = "CANCELLED"],
                       calls, result, "result")
        /\ UNCHANGED <<st, runTask, ids, history>>

\* The next result of the batch.
NextResult(r, result) ==
    /\ run[r].pc = "result" /\ run[r].todo # {}
    /\ WriteResult(r, run[r], calls, result, "result")
    /\ UNCHANGED <<st, runTask, ids, history>>

\* The batch is written.  A cancelled batch raises the internal CancelledError,
\* which _loop turns into INTERRUPTED, and which run() catches as an ordinary
\* exception when resume_execute raised it.  Otherwise the run goes on.
BatchDone(r) ==
    LET g == run[r]
    IN  /\ g.pc = "result" /\ g.todo = {}
        /\ \/ /\ g.cancelled /\ g.prologue
              /\ Abort(r, g, st, g.reply, "ERROR")
              /\ UNCHANGED context
           \/ /\ g.cancelled /\ ~g.prologue
              /\ Abort(r, g, st, st.reply_id, "INTERRUPTED")
              /\ UNCHANGED context
           \/ /\ ~g.cancelled /\ g.prologue
              /\ DenyRest(r, [g EXCEPT !.todo = g.denied, !.denied = {},
                                       !.msg = st.message_id], calls, st)
           \/ /\ ~g.cancelled /\ ~g.prologue
              /\ LoopTop(r, g, st, "none")
              /\ UNCHANGED context
        /\ UNCHANGED <<runTask, ids, decided, spawned>>

\* The host pulls the event after a DENIED result.
NextDenied(r) ==
    /\ run[r].pc = "deny"
    /\ DenyRest(r, run[r], calls, st)
    /\ UNCHANGED <<runTask, ids, decided, spawned>>

\* The host pulls the event after a confirmation request: the next request.
NextAsk(r) ==
    /\ run[r].pc = "ask" /\ run[r].todo # {}
    /\ Ask(r, run[r], calls)
    /\ UNCHANGED <<st, runTask, results, assistants, ids, history>>

\* Mutation of Pause: the status is left RUNNING.
PauseUnmarked(r) ==
    /\ run[r].pc = "ask" /\ run[r].todo = {}
    /\ Finally(st)
    /\ run' = [run EXCEPT ![r] = IdleGenerator]
    /\ UNCHANGED <<context, ids, history>>

\* ... or, after the last one, the run pauses and returns.
Pause(r) ==
    /\ run[r].pc = "ask" /\ run[r].todo = {}
    /\ Finally([st EXCEPT !.status = "PAUSED"])
    /\ run' = [run EXCEPT ![r] = IdleGenerator]
    /\ UNCHANGED <<context, ids, history>>

\* The stop-decision hook lets the turn end.
StopTurn(r) ==
    /\ run[r].pc = "stop" /\ ~run[r].cancelReq
    /\ Abort(r, run[r], st, run[r].exit, "COMPLETED")
    /\ UNCHANGED <<runTask, context, ids, decided, spawned>>

\* Mutation of ContinueTurn: the end is announced before the hook is heard.
ContinueTurnAfterEnd(r) ==
    /\ run[r].pc = "stop" /\ ~run[r].cancelReq
    /\ ~st.cancellation /\ st.continuation_count < MaxContinuations
    /\ st' = [st EXCEPT !.continuation_count = @ + 1]
    /\ assistants' = assistants \cup {run[r].msg}
    /\ run' = [run EXCEPT ![r].pc = "hint"]
    /\ ReplyEnd(run[r].exit, "COMPLETED")
    /\ UNCHANGED <<runTask, calls, results, ids, decided, spawned>>

\* It asks for more work, and is heard while the budget of continuations lasts
\* and the host has not asked for cancellation.
ContinueTurn(r) ==
    /\ run[r].pc = "stop" /\ ~run[r].cancelReq
    /\ ~st.cancellation /\ st.continuation_count < MaxContinuations
    /\ st' = [st EXCEPT !.continuation_count = @ + 1]
    /\ assistants' = assistants \cup {run[r].msg}
    /\ run' = [run EXCEPT ![r].pc = "hint"]
    /\ UNCHANGED <<runTask, calls, results, ids, history>>

AfterHint(r) ==
    /\ run[r].pc = "hint"
    /\ LoopTop(r, run[r], st, "none")
    /\ UNCHANGED <<runTask, context, ids, decided, spawned>>

\* The host pulls the event after ReplyEnd: run() returns or re-raises.
Return(r) ==
    /\ run[r].pc = "end"
    /\ Finally(st)
    /\ run' = [run EXCEPT ![r] = IdleGenerator]
    /\ UNCHANGED <<context, ids, history>>

-----------------------------------------------------------------------------
(* What else the host and the process do.                                  *)

\* cancel_nowait(), which cancels the task that holds the lock.  At a yield
\* the task is not inside the generator: see Abandon.
CancelNowait ==
    /\ "cancel" \in Host
    /\ runTask # NoRun
    /\ run[runTask].pc \in Awaits
    /\ run[runTask].pc = "regather" => "cancelTwice" \in Host
    /\ run' = [run EXCEPT ![runTask].cancelReq = TRUE]
    /\ UNCHANGED <<st, runTask, context, ids, history>>

\* The host sets the cancellation event of the runtime_context.
SetCancellation ==
    /\ "cancel" \in Host
    /\ \E r \in Runs : Live(r)
    /\ st' = [st EXCEPT !.cancellation = TRUE]
    /\ UNCHANGED <<runTask, run, context, ids, history>>

\* The host saves the user's answer in the context before it resumes.
HostCheckpoint(c, ok) ==
    /\ "checkpoint" \in Host
    /\ \A r \in Runs : run[r].pc = "idle"
    /\ calls[c].state = "ASKING"
    /\ calls' = SetToolCallState(calls, c, Expected(ok))
    /\ decided' = [decided EXCEPT ![c] = Answer(ok)]
    /\ UNCHANGED <<st, runTask, run, results, assistants, ids, spawned, ends>>

\* The process dies; a new one loads the context into a new agent.
Crash ==
    /\ "crash" \in Host
    /\ crashes < MaxCrashes
    /\ crashes' = crashes + 1
    /\ st' = FreshRunState
    /\ runTask' = NoRun
    /\ run' = [r \in Runs |-> IdleGenerator]
    /\ spawned' = [c \in Calls |-> 0]
    /\ UNCHANGED <<context, nreplies, nmsgs, decided, ends>>

\* The host leaves its loop over the events at a yield, which may be one of
\* the provider's stream: it breaks out of it, or its task (then done) is
\* cancelled while it handles the event.  A generator dropped at ReplyStart,
\* before its try block, runs no finally.
Abandon(r, done) ==
    /\ "abandon" \in Host
    /\ run[r].pc \in Yields \cup {"llm"}
    /\ run' = [run EXCEPT ![r] = [IdleGenerator EXCEPT
                                    !.pc = IF run[r].pc = "start" THEN "idle" ELSE "orphan",
                                    !.done = done]]
    /\ UNCHANGED <<st, runTask, context, ids, history>>

\* The event loop closes a dropped generator: its finally block runs.
CloseOrphan(r) ==
    /\ run[r].pc = "orphan"
    /\ Finally(st)
    /\ run' = [run EXCEPT ![r].pc = "idle"]
    /\ UNCHANGED <<context, ids, history>>

HostTaskEnds(r) ==
    /\ ~Live(r) /\ ~run[r].done
    /\ run' = [run EXCEPT ![r].done = TRUE]
    /\ UNCHANGED <<st, runTask, context, ids, history>>

-----------------------------------------------------------------------------

\* The calls of a model response are the next new ids, at most MaxBatch.
NewBatches ==
    {p[1]..p[2] : p \in {q \in Calls \X Calls : /\ Made = 1..(q[1] - 1)
                                              /\ q[2] \in q[1]..(q[1] + MaxBatch - 1)}}

LLMStep(r) ==
    \/ \E prev \in {"text", "empty", "error"}, blocks \in BOOLEAN : LLMReturns(r, prev, blocks)
    \/ \E batch \in NewBatches : \E f \in [batch -> Behaviors] : LLMCalls(r, batch, f)

ToolStep(r) ==
    \/ \E self \in BOOLEAN, result \in {"SUCCESS", "ERROR"} : ToolsDone(r, self, result)
    \/ ToolsCancelled(r)

\* Steps of the generator itself: what it awaits completes, or its host pulls.
Step(r) ==
    \/ Begin(r)
    \/ \E u \in BOOLEAN : HookReturns(r, u)
    \/ LLMStep(r)
    \/ ToolStep(r)
    \/ CancelDelivered(r)
    \/ HookRaises(r)
    \/ \E result \in {"SUCCESS", "ERROR"} : NextResult(r, result)
    \/ BatchDone(r)
    \/ NextDenied(r)
    \/ NextAsk(r)
    \/ Pause(r)
    \/ StopTurn(r)
    \/ ContinueTurn(r)
    \/ AfterHint(r)
    \/ Return(r)
    \/ CloseOrphan(r)

HostStep ==
    \/ \E r \in Runs : NewReply(r)
    \/ \E r \in Runs, c \in Calls, ok \in BOOLEAN :
         Confirm(r, c, ok) \/ ConfirmConflict(r, c, ok)
    \/ CancelNowait
    \/ SetCancellation
    \/ \E c \in Calls, ok \in BOOLEAN : HostCheckpoint(c, ok)
    \/ Crash
    \/ \E r \in Runs, done \in BOOLEAN : Abandon(r, done)
    \/ \E r \in Runs : HostTaskEnds(r)

Next == HostStep \/ \E r \in Runs : Step(r)

Spec == Init /\ [][Next]_vars

\* The event loop resumes a generator whose await has completed, the awaited
\* hooks, provider and tools complete, and a host that iterates goes on.
FairSpec == Spec /\ \A r \in Runs : WF_vars(Step(r))

-----------------------------------------------------------------------------
(* Properties.                                                             *)

\* Every variable has its type.
TypeOK ==
    /\ ContextTypeOK
    /\ st \in RunState(Replies \cup {0}, Msgs \cup {0})
    /\ runTask \in Runs \cup {NoRun}
    /\ run \in [Runs -> Generator]
    /\ nreplies \in 0..MaxReplies /\ nmsgs \in 0..MaxMsgs /\ crashes \in 0..MaxCrashes
    /\ decided \in [Calls -> {"none", "yes", "no"}]
    /\ spawned \in [Calls -> 0..2]
    /\ ends \in [Replies -> Seq(FinishedReason)]

\* A tool runs only if the permission rules allow its call or the user said
\* yes to it: neither a pause, a resume, a crash, a late or repeated
\* confirmation nor another call of the batch can start it otherwise.
Consent ==
    \A c \in Calls : spawned[c] > 0 =>
      \/ calls[c].behavior = "ALLOW"
      \/ calls[c].behavior = "ASK" /\ decided[c] = "yes"

\* What keeps Consent true, whatever the host does: a call is recorded as
\* allowed only after the user said yes to it; a call that is being asked
\* about, or will be by a run that is walking through its requests, is one the
\* rules leave to the user and has not run, and no two runs ask about the same
\* call.  So neither an answer nor a request can reach a call that runs.
AllowedByUser ==
    \A c \in Calls : calls[c].state = "ALLOWED" =>
      calls[c].behavior = "ASK" /\ decided[c] = "yes"

AskingNotRun ==
    \A c \in Calls : calls[c].state = "ASKING" =>
      calls[c].behavior = "ASK" /\ spawned[c] = 0

ToAskNotRun ==
    \A r \in Runs : run[r].pc = "ask" => \A c \in run[r].todo :
      /\ calls[c].behavior = "ASK" /\ spawned[c] = 0
      /\ calls[c].state \in {"PENDING", "FINISHED"}

AskedByOneRun ==
    \A q, r \in Runs : q # r /\ run[q].pc = "ask" /\ run[r].pc = "ask" =>
      run[q].todo \cap run[r].todo = {}

UnmadeNotRun == \A c \in Calls : calls[c].state = "none" => spawned[c] = 0

ConsentInv ==
    /\ Consent /\ AllowedByUser /\ AskingNotRun
    /\ ToAskNotRun /\ AskedByOneRun /\ UnmadeNotRun

\* The tool of a call is started at most once in a process, and a call never
\* gets two results, however the batch was paused, resumed or cancelled.
AtMostOnce == \A c \in Calls : spawned[c] <= 1 /\ Len(results[c]) <= 1

\* Whenever the provider is called, every tool call of the current reply has
\* its result: the conversation it is sent is well formed.
PairedBeforeReasoning ==
    \A r \in Runs : run[r].pc = "llm" =>
      \A c \in Made : calls[c].reply = st.reply_id => results[c] # << >>

\* The result of a tool that ran is in the AssistantMsg that made the call,
\* whatever messages were injected or replies started in between.
ExecutedResultInOwner ==
    \A c \in Calls : \A i \in 1..Len(results[c]) :
      results[c][i].state # "DENIED" => results[c][i].msg = calls[c].msg

\* A reply is announced as ended at most once, and a run still at work never
\* works on a reply that has ended.
EndedOnce ==
    /\ \A p \in Replies : Len(ends[p]) <= 1
    /\ \A r \in Runs : Live(r) /\ run[r].pc # "end" => ends[run[r].reply] = << >>

\* The run lock: a run that is between its first and its last event holds it,
\* so there is one at most.
LockHeldByRunner == \A r \in Runs : Live(r) => runTask = r

\* No two runs of one agent are ever in flight.
MutualExclusion == \A q, r \in Runs : Live(q) /\ Live(r) => q = r

Quiet == \A r \in Runs : run[r].pc = "idle"

\* When no run is in flight, the agent is paused exactly when it waits for the
\* user or for the host to deliver the answer, so a paused agent can always be
\* resumed; and exactly then the root trace span is open.
PauseIsResumable ==
    Quiet =>
      /\ ToolCallsInState(calls, "ASKING") # {} => st.status = "PAUSED"
      /\ st.status = "PAUSED" => ToolCallsInState(calls, "ASKING") \cup Undelivered # {}
      /\ (st.span = "open") <=> (st.status = "PAUSED")

\* A RunState sees at most max_iterations provider calls, and at most one more
\* for each retry of an empty response and for the forced finalization, also
\* when the turn is continued or paused and resumed in between.
IterationBudget == st.iteration <= MaxIterations + MAX_EMPTY_RESPONSE_RETRIES + 1

LastEnd(p) == ends[p][Len(ends[p])]

\* A cancellation that reaches a run in its loop ends the reply INTERRUPTED.
CancelInLoopInterrupts ==
    \A r \in Runs : run[r].pc = "end" /\ run[r].cancelled /\ ~run[r].prologue =>
      LastEnd(run[r].reply) = "INTERRUPTED"

\* No tool of a reply that has ended is started: an interrupted batch is not
\* taken up again by a later reply.
NoToolAfterEnd ==
    [][\A c \in Made : ends[calls[c].reply] # << >> => spawned'[c] <= spawned[c]]_vars

\* A run never goes on forever: every one that starts returns or pauses.
RunsEnd == \A r \in Runs : Live(r) ~> ~Live(r)

\* The lifecycle of reply p, as a host sees it.
Phase(p) ==
    CASE p > nreplies -> "unborn"
      [] p <= nreplies /\ ends[p] # << >> -> "ended"
      [] OTHER -> IF \E r \in Runs : Live(r) /\ run[r].reply = p
                    THEN "running" ELSE "paused"

Lifecycle == INSTANCE ReplyLifecycle WITH phase <- [p \in Replies |-> Phase(p)]

\* The runner implements the reply lifecycle: replies do not overlap, and each
\* one ends once or waits for the user.
RefinesLifecycle == Lifecycle!Spec

-----------------------------------------------------------------------------
(* What the repository says of the runner and the code does not do: each   *)
(* is refuted by TLC; see the divergences of README.md.                    *)

\* react_runner.py:599: max_iterations = N means at most N provider calls.
IterationLimit == st.iteration <= MaxIterations

\* react_runner.py:23-26: a cancellation ends in ReplyEnd(INTERRUPTED),
\* also one that reaches a run while it resumes.
CancelInterrupts ==
    \A r \in Runs : run[r].pc = "end" /\ run[r].cancelled =>
      LastEnd(run[r].reply) = "INTERRUPTED"

\* message_context.py:208-209: a result goes back to the AssistantMsg that
\* made the call.
ResultInOwner ==
    \A c \in Calls : \A i \in 1..Len(results[c]) : results[c][i].msg = calls[c].msg

\* _execute_acting.py:153-156: DENIED answers a call the user rejected or the
\* rules deny.
DeniedOnlyIfRefused ==
    \A c \in Calls : \A i \in 1..Len(results[c]) :
      results[c][i].state = "DENIED" =>
        calls[c].behavior = "DENY" \/ decided[c] = "no"

=============================================================================
