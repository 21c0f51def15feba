------------------------- MODULE ReActRunner_proofs -------------------------
(***************************************************************************)
(* Theorems about ReActRunner, for every set of runs and every bound: its  *)
(* types, its budget of provider calls and Consent for every set Host of   *)
(* host behaviours; the run lock and, in the second half, the replies for  *)
(* a host that follows the protocol.                                       *)
(***************************************************************************)
EXTENDS ReActRunner, TLAPS, NaturalsInduction, WellFoundedInduction

RS == RunState(Replies \cup {0}, Msgs \cup {0})
GS == [Runs -> Generator]
ES == [Replies -> Seq(FinishedReason)]
CS == [Calls -> ToolCallBlock]

(***************************************************************************)
(* What the building blocks of ReActRunner leave behind has the type it    *)
(* should have.                                                            *)
(***************************************************************************)

LEMMA AbortType ==
  ASSUME NEW r \in Runs, NEW g \in Generator, NEW s \in RS, NEW p \in Replies \cup {0},
         NEW reason \in FinishedReason, TypeOK, Abort(r, g, s, p, reason)
  PROVE  st' \in RS /\ run' \in GS /\ ends' \in ES
<1>1. st' \in RS
  BY DEF Abort, RS, RunState, Finalize, StatusOf, RunStatus, FinishedReason
<1>2. run' \in GS
  <2>1. [g EXCEPT !.pc = "end", !.cancelReq = FALSE] \in Generator
    BY DEF Generator, Points, Yields
  <2> QED BY <2>1 DEF Abort, TypeOK, GS
<1>3. ends' \in ES
  BY DEF Abort, TypeOK, ReplyEnd, ES
<1> QED BY <1>1, <1>2, <1>3

LEMMA InterruptType ==
  ASSUME NEW r \in Runs, NEW g \in Generator, NEW s \in RS, TypeOK, Interrupt(r, g, s)
  PROVE  st' \in RS /\ run' \in GS /\ ends' \in ES
<1>1. [g EXCEPT !.cancelled = TRUE] \in Generator
  BY DEF Generator
<1>2. g.reply \in Replies \cup {0}
  BY DEF Generator
<1>3. "INTERRUPTED" \in FinishedReason
  BY DEF FinishedReason
<1> QED BY <1>1, <1>2, <1>3, AbortType DEF Interrupt

LEMMA EnterReasoningType ==
  ASSUME NEW r \in Runs, NEW g \in Generator, NEW s \in RS, NEW hint \in BOOLEAN,
         TypeOK, EnterReasoning(r, g, s, hint)
  PROVE  st' \in RS /\ run' \in GS /\ ends' \in ES
<1> DEFINE t == [s EXCEPT !.iteration = @ + 1]
<1>1. t \in RS
  <2>1. s.iteration + 1 \in Nat
    BY DEF RS, RunState
  <2> QED BY <2>1 DEF RS, RunState
<1>2. [g EXCEPT !.pc = "hook", !.hint = hint] \in Generator
  BY DEF Generator, Points, Awaits
<1>3. CASE Interrupt(r, g, t)
  BY <1>1, <1>3, InterruptType
<1>4. CASE /\ st' = t
           /\ run' = [run EXCEPT ![r] = [g EXCEPT !.pc = "hook", !.hint = hint]]
           /\ ends' = ends
  BY <1>1, <1>2, <1>4 DEF TypeOK, GS, ES
<1> QED BY <1>3, <1>4 DEF EnterReasoning

LEMMA EnterExitType ==
  ASSUME NEW r \in Runs, NEW g \in Generator, NEW s \in RS, NEW reason \in FinishedReason,
         TypeOK, EnterExit(r, g, s, reason)
  PROVE  st' \in RS /\ run' \in GS /\ ends' \in ES
<1> DEFINE h == [g EXCEPT !.pc = "stop", !.exit = s.reply_id, !.msg = s.message_id]
<1>1. s.reply_id \in Replies \cup {0} /\ s.message_id \in Msgs \cup {0}
  BY DEF RS, RunState
<1>2. h \in Generator
  BY <1>1 DEF Generator, Points, Awaits
<1>3. CASE st' = s /\ run' = [run EXCEPT ![r] = h] /\ ends' = ends
  BY <1>2, <1>3 DEF TypeOK, GS, ES
<1>4. CASE Abort(r, g, s, s.reply_id, reason)
  BY <1>1, <1>4, AbortType
<1> QED BY <1>3, <1>4 DEF EnterExit

LEMMA DecideType ==
  ASSUME NEW s \in RS, NEW prev \in TurnResult
  PROVE  /\ Decided(s, prev) \in RS
         /\ Decide(s, prev).action = "Reasoning" => Decide(s, prev).hint \in BOOLEAN
         /\ Decide(s, prev).action = "Exit" => Decide(s, prev).reason \in FinishedReason
<1>1. Decided(s, prev) \in RS
  <2>1. s.empty_retries + 1 \in Nat
    BY DEF RS, RunState
  <2>2. [s EXCEPT !.empty_retries = @ + 1] \in RS
    BY <2>1 DEF RS, RunState
  <2>3. [s EXCEPT !.in_finalization = TRUE] \in RS
    BY DEF RS, RunState
  <2> QED BY <2>2, <2>3 DEF Decided
<1>2. \/ Decide(s, prev) = Acting
      \/ \E reason \in FinishedReason : Decide(s, prev) = Exit(reason)
      \/ \E hint \in BOOLEAN : Decide(s, prev) = Reasoning(hint)
  BY DEF Decide, FinishedReason, TurnResult, RetriesLeft
<1> QED BY <1>1, <1>2 DEF Acting, Exit, Reasoning

LEMMA LoopTopType ==
  ASSUME NEW r \in Runs, NEW g \in Generator, NEW s \in RS, NEW prev \in TurnResult,
         TypeOK, LoopTop(r, g, s, prev)
  PROVE  st' \in RS /\ run' \in GS /\ ends' \in ES
BY DecideType, EnterReasoningType, EnterExitType DEF LoopTop

LEMMA SpawnType ==
  ASSUME NEW r \in Runs, NEW g \in Generator, NEW s \in RS, NEW batch \in SUBSET Calls,
         TypeOK, Spawn(r, g, s, batch)
  PROVE  st' \in RS /\ run' \in GS /\ ends' \in ES /\ spawned' \in [Calls -> 0..2]
<1>1. [g EXCEPT !.pc = "tools", !.todo = batch, !.msg = s.message_id] \in Generator
  BY DEF Generator, Points, Awaits, RS, RunState
<1>2. spawned' \in [Calls -> 0..2]
  BY DEF Spawn, TypeOK, Bump
<1> QED BY <1>1, <1>2 DEF Spawn, TypeOK, GS, ES

LEMMA SetStateType ==
  ASSUME NEW cs \in CS, NEW c, NEW s \in ToolCallState
  PROVE  SetToolCallState(cs, c, s) \in CS
BY DEF SetToolCallState, CS, ToolCallBlock

LEMMA WriteResultType ==
  ASSUME NEW r \in Runs, NEW g \in Generator, NEW cs \in CS, NEW result \in ToolResultState,
         NEW at \in Points, TypeOK, WriteResult(r, g, cs, result, at)
  PROVE  run' \in GS /\ ContextTypeOK'
<1> DEFINE c == First(g.todo)
           b == [msg |-> g.msg, state |-> result]
<1>1. calls' \in CS
  BY SetStateType DEF WriteResult, ToolCallState
<1>2. results' \in [Calls -> Seq(ToolResultBlock)]
  <2>1. b \in ToolResultBlock
    BY DEF ToolResultBlock, Generator
  <2>2. results' = [results EXCEPT ![c] = Append(@, b)]
    BY DEF WriteResult, AddToolResult
  <2>3. \A y \in Calls : Append(results[y], b) \in Seq(ToolResultBlock)
    BY <2>1 DEF TypeOK, ContextTypeOK
  <2> QED BY <2>2, <2>3 DEF TypeOK, ContextTypeOK
<1>3. assistants' \subseteq Msgs \cup {0}
  BY DEF WriteResult, AddToolResult, TypeOK, ContextTypeOK, Generator
<1>4. run' \in GS
  <2>1. [g EXCEPT !.pc = at, !.todo = @ \ {c}] \in Generator
    BY DEF Generator
  <2> QED BY <2>1 DEF WriteResult, TypeOK, GS
<1> QED BY <1>1, <1>2, <1>3, <1>4 DEF ContextTypeOK, CS

LEMMA DenyRestType ==
  ASSUME NEW r \in Runs, NEW g \in Generator, NEW cs \in CS, NEW s \in RS,
         TypeOK, DenyRest(r, g, cs, s)
  PROVE  st' \in RS /\ run' \in GS /\ ends' \in ES /\ ContextTypeOK'
<1>1. CASE WriteResult(r, g, cs, "DENIED", "deny") /\ st' = s /\ ends' = ends
  <2>1. "DENIED" \in ToolResultState /\ "deny" \in Points
    BY DEF ToolResultState, Points, Yields
  <2> QED BY <1>1, <2>1, WriteResultType DEF TypeOK, ES
<1>2. CASE /\ LoopTop(r, [g EXCEPT !.prologue = FALSE], s, "none")
           /\ calls' = cs /\ results' = results /\ assistants' = assistants
  <2>1. [g EXCEPT !.prologue = FALSE] \in Generator /\ "none" \in TurnResult
    BY DEF Generator, TurnResult
  <2> QED BY <1>2, <2>1, LoopTopType DEF TypeOK, ContextTypeOK, CS
<1> QED BY <1>1, <1>2 DEF DenyRest

LEMMA AskType ==
  ASSUME NEW r \in Runs, NEW g \in Generator, NEW cs \in CS, TypeOK, Ask(r, g, cs)
  PROVE  run' \in GS /\ calls' \in CS
<1>1. calls' \in CS
  BY SetStateType DEF Ask, ToolCallState
<1>2. [g EXCEPT !.pc = "ask", !.todo = @ \ {First(g.todo)}] \in Generator
  BY DEF Generator, Points, Yields
<1> QED BY <1>1, <1>2 DEF Ask, TypeOK, GS

LEMMA FinallyType ==
  ASSUME NEW s \in RS, Finally(s)
  PROVE  st' \in RS /\ runTask' = NoRun
BY DEF Finally, RS, RunState

LEMMA IdleType == IdleGenerator \in Generator /\ FreshRunState \in RS
BY DEF IdleGenerator, Generator, Points, FreshRunState, RS, RunState, RunStatus

LEMMA RedirectedType ==
  ASSUME NEW c \in Calls, NEW v \in RunStatus, TypeOK
  PROVE  Redirected(c) \in RS /\ [Redirected(c) EXCEPT !.status = v] \in RS
<1>1. calls[c].reply \in Replies \cup {0} /\ calls[c].msg \in Msgs \cup {0}
  BY DEF TypeOK, ContextTypeOK, ToolCallBlock
<1>2. st \in RS
  BY DEF TypeOK, RS
<1>3. Redirected(c) \in RS
  BY <1>1, <1>2 DEF Redirected, RS, RunState
<1> QED BY <1>3 DEF RS, RunState

LEMMA ResumeType ==
  ASSUME NEW r \in Runs, NEW cs \in CS, NEW s \in RS, TypeOK, Resume(r, cs, s)
  PROVE  /\ st' \in RS /\ run' \in GS /\ ends' \in ES
         /\ ContextTypeOK' /\ spawned' \in [Calls -> 0..2]
<1> DEFINE pending == PendingToolCalls(cs)
           allowed == AllowedCalls(cs, pending)
           g == [NewGenerator(s.reply_id) EXCEPT !.prologue = TRUE, !.msg = s.message_id]
           gd == [g EXCEPT !.denied = pending \ allowed]
           gt == [g EXCEPT !.todo = pending]
<1>1. pending \in SUBSET Calls /\ allowed \in SUBSET Calls
  BY DEF PendingToolCalls, AllowedCalls
<1>2. g \in Generator
  BY DEF NewGenerator, IdleGenerator, Generator, Points, RS, RunState
<1>3. gd \in Generator /\ gt \in Generator
  BY <1>1, <1>2 DEF Generator
<1>4. CASE /\ Spawn(r, gd, s, allowed)
           /\ calls' = cs /\ results' = results /\ assistants' = assistants
  BY <1>1, <1>3, <1>4, SpawnType DEF TypeOK, ContextTypeOK, CS
<1>5. CASE DenyRest(r, gt, cs, s) /\ spawned' = spawned
  BY <1>3, <1>5, DenyRestType DEF TypeOK
<1> QED BY <1>4, <1>5 DEF Resume

LEMMA BatchFacts ==
  ASSUME NEW batch \in NewBatches
  PROVE  batch \subseteq Calls /\ batch \cap Made = {} /\ batch # {}
<1>1. PICK q \in Calls \X Calls : /\ batch = q[1]..q[2]
                                 /\ Made = 1..(q[1] - 1)
                                 /\ q[2] \in q[1]..(q[1] + MaxBatch - 1)
  BY DEF NewBatches
<1>2. q[1] \in 1..MaxCalls /\ q[2] \in 1..MaxCalls /\ MaxCalls \in Nat /\ MaxBatch \in Nat
  BY <1>1, ContextBounds, RunnerAssumption DEF Calls
<1>3. batch \subseteq Calls
  BY <1>1, <1>2 DEF Calls
<1>4. batch \cap Made = {}
  BY <1>1, <1>2
<1>5. q[1] \in batch
  BY <1>1, <1>2
<1> QED BY <1>3, <1>4, <1>5

(***************************************************************************)
(* Type correctness.                                                       *)
(***************************************************************************)

LEMMA InitType == Init => TypeOK
<1> SUFFICES ASSUME Init PROVE TypeOK
  OBVIOUS
<1>1. NoCall \in ToolCallBlock
  BY DEF NoCall, ToolCallBlock, ToolCallState, PermissionBehavior
<1>2. ContextTypeOK
  BY <1>1 DEF Init, ContextInit, ContextTypeOK
<1>3. /\ nreplies \in 0..MaxReplies /\ nmsgs \in 0..MaxMsgs /\ crashes \in 0..MaxCrashes
  BY ContextBounds, RunnerAssumption DEF Init
<1> QED BY <1>2, <1>3, IdleType DEF Init, TypeOK, RS

LEMMA HostType ==
  ASSUME TypeOK, HostStep
  PROVE  TypeOK'
<1> USE DEF ids, history, context
<1>1. ASSUME NEW r \in Runs, NewReply(r) PROVE TypeOK'
  <2>1. nreplies + 1 \in Replies /\ nmsgs + 1 \in Msgs
    BY <1>1, ContextBounds DEF TypeOK, NewReply, Replies, Msgs
  <2>2. st' \in RS
    BY <1>1, <2>1 DEF NewReply, Started, FreshRunState, RS, RunState, RunStatus
  <2>3. [NewGenerator(nreplies + 1) EXCEPT !.pc = "start"] \in Generator
    BY <2>1 DEF NewGenerator, IdleGenerator, Generator, Points, Yields
  <2>4. run' \in GS
    BY <1>1, <2>3 DEF NewReply, TypeOK, GS
  <2>5. nreplies' \in 0..MaxReplies /\ nmsgs' \in 0..MaxMsgs
    BY <1>1, <2>1 DEF NewReply, Replies, Msgs
  <2> QED BY <1>1, <2>2, <2>4, <2>5 DEF NewReply, TypeOK, ContextTypeOK, GS, RS
<1>2. ASSUME NEW r \in Runs, NEW c \in Calls, NEW ok \in BOOLEAN, Confirm(r, c, ok)
      PROVE TypeOK'
  <2> DEFINE cs == SetToolCallState(calls, c, Expected(ok))
  <2>1. cs \in CS
    BY SetStateType DEF Expected, ToolCallState, TypeOK, ContextTypeOK, CS
  <2>2. [Redirected(c) EXCEPT !.status = "PAUSED"] \in RS
        /\ [Redirected(c) EXCEPT !.status = "RUNNING"] \in RS
    BY RedirectedType DEF RunStatus
  <2>3. decided' \in [Calls -> {"none", "yes", "no"}]
    BY <1>2 DEF Confirm, TypeOK, Answer
  <2>4. CASE /\ calls' = cs /\ st' = [Redirected(c) EXCEPT !.status = "PAUSED"]
             /\ UNCHANGED <<runTask, run, results, assistants, spawned, ends>>
    BY <1>2, <2>1, <2>2, <2>3, <2>4 DEF Confirm, TypeOK, ContextTypeOK, CS, RS
  <2>5. CASE /\ runTask' = r
             /\ Resume(r, cs, [Redirected(c) EXCEPT !.status = "RUNNING"])
    BY <1>2, <2>1, <2>2, <2>3, <2>5, ResumeType DEF Confirm, TypeOK, GS, ES, RS
  <2> QED BY <1>2, <2>4, <2>5 DEF Confirm
<1>3. ASSUME NEW r \in Runs, NEW c \in Calls, NEW ok \in BOOLEAN, ConfirmConflict(r, c, ok)
      PROVE TypeOK'
  BY <1>3, RedirectedType DEF ConfirmConflict, TypeOK, ContextTypeOK, RS, RunStatus
<1>4. CASE CancelNowait
  <2>1. [run[runTask] EXCEPT !.cancelReq = TRUE] \in Generator
    BY <1>4 DEF CancelNowait, TypeOK, Generator
  <2> QED BY <1>4, <2>1 DEF CancelNowait, TypeOK, ContextTypeOK
<1>5. CASE SetCancellation
  <2>1. st' \in RS
    BY <1>5 DEF SetCancellation, TypeOK, RS, RunState
  <2> QED BY <1>5, <2>1 DEF SetCancellation, TypeOK, ContextTypeOK, RS
<1>6. ASSUME NEW c \in Calls, NEW ok \in BOOLEAN, HostCheckpoint(c, ok) PROVE TypeOK'
  <2>1. calls' \in CS
    BY <1>6, SetStateType DEF HostCheckpoint, Expected, ToolCallState, TypeOK, ContextTypeOK, CS
  <2>2. decided' \in [Calls -> {"none", "yes", "no"}]
    BY <1>6 DEF HostCheckpoint, TypeOK, Answer
  <2> QED BY <1>6, <2>1, <2>2 DEF HostCheckpoint, TypeOK, ContextTypeOK, CS
<1>7. CASE Crash
  <2>1. crashes' \in 0..MaxCrashes
    BY <1>7, RunnerAssumption DEF Crash, TypeOK
  <2> QED BY <1>7, <2>1, IdleType DEF Crash, TypeOK, ContextTypeOK, RS
<1>8. ASSUME NEW r \in Runs, NEW done \in BOOLEAN, Abandon(r, done) PROVE TypeOK'
  <2>1. ASSUME NEW p \in Points PROVE [IdleGenerator EXCEPT !.pc = p, !.done = done] \in Generator
    BY <2>1 DEF IdleGenerator, Generator, Points
  <2>2. "idle" \in Points /\ "orphan" \in Points
    BY DEF Points
  <2> QED BY <1>8, <2>1, <2>2 DEF Abandon, TypeOK, ContextTypeOK
<1>9. ASSUME NEW r \in Runs, HostTaskEnds(r) PROVE TypeOK'
  <2>1. [run[r] EXCEPT !.done = TRUE] \in Generator
    BY DEF TypeOK, Generator
  <2> QED BY <1>9, <2>1 DEF HostTaskEnds, TypeOK, ContextTypeOK
<1> QED BY <1>1, <1>2, <1>3, <1>4, <1>5, <1>6, <1>7, <1>8, <1>9 DEF HostStep

LEMMA StepType ==
  ASSUME TypeOK, NEW r \in Runs, Step(r)
  PROVE  TypeOK'
<1> USE DEF ids, history, context
<1> DEFINE g == run[r]
<1>g. g \in Generator /\ st \in RS /\ g.msg \in Msgs \cup {0}
      /\ g.reply \in Replies \cup {0} /\ g.exit \in Replies \cup {0}
      /\ st.reply_id \in Replies \cup {0} /\ st.message_id \in Msgs \cup {0}
  BY DEF TypeOK, RS, RunState, Generator
<1>c. calls \in CS
  BY DEF TypeOK, ContextTypeOK, CS
<1>1. CASE Begin(r)
  <2>1. [g EXCEPT !.reply = st.reply_id] \in Generator /\ "none" \in TurnResult
    BY <1>g DEF Generator, TurnResult
  <2>2. st' \in RS /\ run' \in GS /\ ends' \in ES
    BY <1>1, <1>g, <2>1, LoopTopType DEF Begin
  <2> QED BY <1>1, <2>2 DEF Begin, TypeOK, ContextTypeOK, RS, GS, ES
<1>2. ASSUME NEW u \in BOOLEAN, HookReturns(r, u) PROVE TypeOK'
  <2> DEFINE rotate == u /\ st.message_id \in assistants
             m == IF rotate THEN nmsgs + 1 ELSE st.message_id
  <2>1. m \in Msgs \cup {0} /\ (rotate => nmsgs + 1 \in 0..MaxMsgs)
    BY <1>2, <1>g, ContextBounds DEF HookReturns, TypeOK, Msgs
  <2>2. CASE Interrupt(r, g, st) /\ nmsgs' = nmsgs /\ assistants' = assistants
    <3>1. st' \in RS /\ run' \in GS /\ ends' \in ES
      BY <2>2, <1>g, InterruptType
    <3> QED BY <1>2, <2>2, <3>1 DEF HookReturns, TypeOK, ContextTypeOK, RS, GS, ES
  <2>3. CASE /\ st' = [st EXCEPT !.message_id = m]
             /\ nmsgs' = IF rotate THEN nmsgs + 1 ELSE nmsgs
             /\ run' = [run EXCEPT ![r] = [g EXCEPT !.pc = "llm", !.msg = m]]
             /\ assistants' = IF g.hint THEN assistants \cup {m} ELSE assistants
             /\ ends' = ends
    <3>1. st' \in RS
      BY <2>1, <2>3, <1>g DEF RS, RunState
    <3>2. [g EXCEPT !.pc = "llm", !.msg = m] \in Generator
      BY ZenonT(60), <2>1, <1>g DEF Generator, Points, Awaits
    <3>3. run' \in GS
      BY <2>3, <3>2 DEF TypeOK, GS
    <3>4. assistants' \subseteq Msgs \cup {0}
      BY <2>1, <2>3 DEF TypeOK, ContextTypeOK
    <3>5. nmsgs' \in 0..MaxMsgs
      BY <2>1, <2>3 DEF TypeOK
    <3> QED BY <1>2, <3>1, <3>3, <3>4, <3>5, <2>3 DEF HookReturns, TypeOK, ContextTypeOK, RS, GS
  <2> QED BY <1>2, <2>2, <2>3 DEF HookReturns
<1>3. ASSUME NEW prev \in {"text", "empty", "error"}, NEW blocks \in BOOLEAN,
             LLMReturns(r, prev, blocks)
      PROVE TypeOK'
  <2>1. prev \in TurnResult
    BY DEF TurnResult
  <2>2. st' \in RS /\ run' \in GS /\ ends' \in ES
    BY <1>3, <1>g, <2>1, LoopTopType DEF LLMReturns
  <2>3. assistants' \subseteq Msgs \cup {0}
    BY <1>3, <1>g DEF LLMReturns, TypeOK, ContextTypeOK
  <2> QED BY <1>3, <2>2, <2>3 DEF LLMReturns, TypeOK, ContextTypeOK, RS, GS, ES
<1>4. ASSUME NEW batch \in NewBatches, NEW f \in [batch -> Behaviors], LLMCalls(r, batch, f)
      PROVE TypeOK'
  <2> DEFINE b(c) == [state |-> "PENDING", msg |-> g.msg, reply |-> st.reply_id,
                      behavior |-> f[c]]
             cs == [c \in Calls |-> IF c \in batch THEN b(c) ELSE calls[c]]
             asks == {c \in batch : f[c] = "ASK"}
  <2>1. batch \in SUBSET Calls /\ asks \in SUBSET Calls
    BY BatchFacts
  <2>2. \A c \in batch : b(c) \in ToolCallBlock
    BY <1>g, RunnerAssumption DEF ToolCallBlock, ToolCallState
  <2>3. cs \in CS
    BY <2>2, <1>c DEF CS
  <2>4. assistants' \subseteq Msgs \cup {0}
    BY <1>4, <1>g DEF LLMCalls, TypeOK, ContextTypeOK
  <2>5. CASE calls' = cs /\ Spawn(r, g, st, batch)
    <3>1. st' \in RS /\ run' \in GS /\ ends' \in ES /\ spawned' \in [Calls -> 0..2]
      BY <2>5, <2>1, <1>g, SpawnType
    <3> QED BY <1>4, <2>3, <2>4, <2>5, <3>1 DEF LLMCalls, TypeOK, ContextTypeOK, CS, RS, GS, ES
  <2>6. CASE Ask(r, [g EXCEPT !.todo = asks], cs) /\ UNCHANGED <<st, spawned, ends>>
    <3>1. [g EXCEPT !.todo = asks] \in Generator
      BY <2>1, <1>g DEF Generator
    <3>2. run' \in GS /\ calls' \in CS
      BY <2>3, <2>6, <3>1, AskType
    <3> QED BY <1>4, <2>4, <2>6, <3>2 DEF LLMCalls, TypeOK, ContextTypeOK, CS, GS
  <2>7. CASE calls' = cs /\ LoopTop(r, g, st, "none") /\ spawned' = spawned
    <3>1. "none" \in TurnResult
      BY DEF TurnResult
    <3>2. st' \in RS /\ run' \in GS /\ ends' \in ES
      BY <2>7, <3>1, <1>g, LoopTopType
    <3> QED BY <1>4, <2>3, <2>4, <2>7, <3>2 DEF LLMCalls, TypeOK, ContextTypeOK, CS, RS, GS, ES
  <2> QED BY <1>4, <2>5, <2>6, <2>7 DEF LLMCalls
<1>5. ASSUME NEW self \in BOOLEAN, NEW result \in {"SUCCESS", "ERROR"},
             ToolsDone(r, self, result)
      PROVE TypeOK'
  <2> DEFINE h == [g EXCEPT !.cancelled = @ \/ self \/ st.status = "CANCELLED"]
  <2>1. h \in Generator
    BY <1>g DEF Generator
  <2>2. result \in ToolResultState /\ "result" \in Points
    BY DEF ToolResultState, Points, Yields
  <2>3. run' \in GS /\ ContextTypeOK'
    BY <1>5, <1>c, <2>1, <2>2, WriteResultType DEF ToolsDone
  <2> QED BY <1>5, <2>3 DEF ToolsDone, TypeOK, GS
<1>6. CASE ToolsCancelled(r)
  <2>1. [g EXCEPT !.pc = "regather", !.cancelReq = FALSE, !.cancelled = TRUE] \in Generator
    BY <1>g DEF Generator, Points, Awaits
  <2>2. run' = [run EXCEPT ![r] = [g EXCEPT !.pc = "regather", !.cancelReq = FALSE,
                                            !.cancelled = TRUE]]
    BY <1>6 DEF ToolsCancelled, TypeOK
  <2> QED BY <1>6, <2>1, <2>2 DEF ToolsCancelled, TypeOK, ContextTypeOK
<1>7. CASE CancelDelivered(r)
  <2>1. st' \in RS /\ run' \in GS /\ ends' \in ES
    BY <1>7, <1>g, InterruptType DEF CancelDelivered
  <2>2. assistants' \subseteq Msgs \cup {0}
    BY <1>7, <1>g DEF CancelDelivered, TypeOK, ContextTypeOK
  <2> QED BY <1>7, <2>1, <2>2 DEF CancelDelivered, TypeOK, ContextTypeOK, RS, GS, ES
<1>8. CASE HookRaises(r)
  <2>1. "ERROR" \in FinishedReason
    BY DEF FinishedReason
  <2>2. st' \in RS /\ run' \in GS /\ ends' \in ES
    BY <1>8, <1>g, <2>1, AbortType DEF HookRaises
  <2> QED BY <1>8, <2>2 DEF HookRaises, TypeOK, ContextTypeOK, RS, GS, ES
<1>9. ASSUME NEW result \in {"SUCCESS", "ERROR"}, NextResult(r, result) PROVE TypeOK'
  <2>1. result \in ToolResultState /\ "result" \in Points
    BY DEF ToolResultState, Points, Yields
  <2>2. run' \in GS /\ ContextTypeOK'
    BY <1>9, <1>g, <1>c, <2>1, WriteResultType DEF NextResult
  <2> QED BY <1>9, <2>2 DEF NextResult, TypeOK, GS
<1>10. CASE BatchDone(r)
  <2> DEFINE h == [g EXCEPT !.todo = g.denied, !.denied = {}, !.msg = st.message_id]
  <2>1. h \in Generator
    BY <1>g DEF Generator
  <2>2. "ERROR" \in FinishedReason /\ "INTERRUPTED" \in FinishedReason /\ "none" \in TurnResult
    BY DEF FinishedReason, TurnResult
  <2>3. st' \in RS /\ run' \in GS /\ ends' \in ES /\ ContextTypeOK'
    <3>1. CASE Abort(r, g, st, g.reply, "ERROR") /\ UNCHANGED context
      BY <3>1, <1>g, <2>2, AbortType DEF TypeOK, ContextTypeOK
    <3>2. CASE Abort(r, g, st, st.reply_id, "INTERRUPTED") /\ UNCHANGED context
      BY <3>2, <1>g, <2>2, AbortType DEF TypeOK, ContextTypeOK
    <3>3. CASE DenyRest(r, h, calls, st)
      BY <3>3, <1>g, <1>c, <2>1, DenyRestType
    <3>4. CASE LoopTop(r, g, st, "none") /\ UNCHANGED context
      BY <3>4, <1>g, <2>2, LoopTopType DEF TypeOK, ContextTypeOK
    <3> QED BY <1>10, <3>1, <3>2, <3>3, <3>4 DEF BatchDone
  <2> QED BY <1>10, <2>3 DEF BatchDone, TypeOK, RS, GS, ES
<1>11. CASE NextDenied(r)
  <2>1. st' \in RS /\ run' \in GS /\ ends' \in ES /\ ContextTypeOK'
    BY <1>11, <1>g, <1>c, DenyRestType DEF NextDenied
  <2> QED BY <1>11, <2>1 DEF NextDenied, TypeOK, RS, GS, ES
<1>12. CASE NextAsk(r)
  <2>1. run' \in GS /\ calls' \in CS
    BY <1>12, <1>g, <1>c, AskType DEF NextAsk
  <2> QED BY <1>12, <2>1 DEF NextAsk, TypeOK, ContextTypeOK, CS, GS
<1>13. CASE Pause(r)
  <2>1. [st EXCEPT !.status = "PAUSED"] \in RS
    BY <1>g DEF RS, RunState, RunStatus
  <2>2. st' \in RS /\ runTask' = NoRun
    BY <1>13, <2>1, FinallyType DEF Pause
  <2> QED BY <1>13, <2>2, IdleType DEF Pause, TypeOK, ContextTypeOK, RS
<1>14. CASE StopTurn(r)
  <2>1. "COMPLETED" \in FinishedReason
    BY DEF FinishedReason
  <2>2. st' \in RS /\ run' \in GS /\ ends' \in ES
    BY <1>14, <1>g, <2>1, AbortType DEF StopTurn
  <2> QED BY <1>14, <2>2 DEF StopTurn, TypeOK, ContextTypeOK, RS, GS, ES
<1>15. CASE ContinueTurn(r)
  <2>1. st.continuation_count + 1 \in Nat
    BY <1>g DEF RS, RunState
  <2>2. st' \in RS
    BY <1>15, <1>g, <2>1 DEF ContinueTurn, RS, RunState
  <2>3. [g EXCEPT !.pc = "hint"] \in Generator
    BY <1>g DEF Generator, Points, Yields
  <2>4. run' \in GS
    BY <1>15, <2>3 DEF ContinueTurn, TypeOK, GS
  <2>5. assistants' \subseteq Msgs \cup {0}
    BY <1>15, <1>g DEF ContinueTurn, TypeOK, ContextTypeOK
  <2> QED BY <1>15, <2>2, <2>4, <2>5 DEF ContinueTurn, TypeOK, ContextTypeOK, RS, GS
<1>16. CASE AfterHint(r)
  <2>1. "none" \in TurnResult
    BY DEF TurnResult
  <2>2. st' \in RS /\ run' \in GS /\ ends' \in ES
    BY <1>16, <1>g, <2>1, LoopTopType DEF AfterHint
  <2> QED BY <1>16, <2>2 DEF AfterHint, TypeOK, ContextTypeOK, RS, GS, ES
<1>17. CASE Return(r)
  <2>1. st' \in RS /\ runTask' = NoRun
    BY <1>17, <1>g, FinallyType DEF Return
  <2> QED BY <1>17, <2>1, IdleType DEF Return, TypeOK, ContextTypeOK, RS
<1>18. CASE CloseOrphan(r)
  <2>1. st' \in RS /\ runTask' = NoRun
    BY <1>18, <1>g, FinallyType DEF CloseOrphan
  <2>2. [g EXCEPT !.pc = "idle"] \in Generator
    BY <1>g DEF Generator, Points
  <2> QED BY <1>18, <2>1, <2>2 DEF CloseOrphan, TypeOK, ContextTypeOK, RS
<1> QED
  BY <1>1, <1>2, <1>3, <1>4, <1>5, <1>6, <1>7, <1>8, <1>9, <1>10, <1>11, <1>12, <1>13,
     <1>14, <1>15, <1>16, <1>17, <1>18 DEF Step, LLMStep, ToolStep

\* Every variable of the runner always has its type, whatever the host does.
THEOREM TypeCorrect == Spec => []TypeOK
<1>1. TypeOK /\ [Next]_vars => TypeOK'
  <2>1. ASSUME TypeOK, UNCHANGED vars PROVE TypeOK'
    BY <2>1 DEF vars, ids, history, context, TypeOK, ContextTypeOK
  <2> QED BY <2>1, HostType, StepType DEF Next
<1> QED BY <1>1, InitType, PTL DEF Spec

(***************************************************************************)
(* The bound on provider calls.  IterationBudget is not inductive: what    *)
(* goes beyond max_iterations is paid for by a retry of an empty response  *)
(* or by the forced finalization, and RunState remembers both.             *)
(***************************************************************************)

Paid(s) ==
    /\ s.empty_retries <= MAX_EMPTY_RESPONSE_RETRIES
    /\ s.iteration <= MaxIterations + s.empty_retries + (IF s.in_finalization THEN 1 ELSE 0)

LEMMA AbortPaid ==
  ASSUME NEW r, NEW g, NEW s \in RS, NEW p, NEW reason, Paid(s), Abort(r, g, s, p, reason)
  PROVE  Paid(st')
BY DEF Abort, Finalize, RS, RunState, Paid

\* decide() allows one more call, or pays for it.
LEMMA LoopTopPaid ==
  ASSUME NEW r, NEW g, NEW s \in RS, NEW prev, Paid(s), LoopTop(r, g, s, prev)
  PROVE  Paid(st')
<1> DEFINE d == Decide(s, prev)
           t == Decided(s, prev)
<1> USE DecisionBounds DEF RS, RunState, Paid
<1>1. t \in RS /\ Paid(t)
  <2>1. CASE t = s
    BY <2>1
  <2>2. CASE RetriesLeft(s) /\ t = [s EXCEPT !.empty_retries = @ + 1]
    BY <2>2 DEF RetriesLeft
  <2>3. CASE t = [s EXCEPT !.in_finalization = TRUE]
    <3>1. /\ t \in RS /\ t.in_finalization
          /\ t.iteration = s.iteration /\ t.empty_retries = s.empty_retries
      BY <2>3
    <3> QED BY <3>1
  <2> QED BY <2>1, <2>2, <2>3 DEF Decided
<1>2. CASE d.action = "Reasoning" /\ EnterReasoning(r, g, t, d.hint)
  <2> DEFINE u == [t EXCEPT !.iteration = @ + 1]
  <2>1. u \in RS
    BY <1>1
  <2>2. \/ prev = "empty" /\ ~s.in_finalization
        \/ t = s /\ s.iteration < MaxIterations
    BY <1>2 DEF Decide, Decided, Exit, Acting, Reasoning
  <2>3. Paid(u)
    BY <1>1, <2>2 DEF Decided, RetriesLeft
  <2> QED BY <1>2, <2>1, <2>3, AbortPaid DEF EnterReasoning, Interrupt
<1>3. CASE d.action = "Exit" /\ EnterExit(r, g, t, d.reason)
  BY <1>1, <1>3, AbortPaid DEF EnterExit
<1> QED BY <1>2, <1>3 DEF LoopTop

LEMMA DenyRestPaid ==
  ASSUME NEW r, NEW g, NEW cs, NEW s \in RS, Paid(s), DenyRest(r, g, cs, s)
  PROVE  Paid(st')
BY LoopTopPaid DEF DenyRest

LEMMA FinallyPaid ==
  ASSUME NEW s \in RS, Paid(s), Finally(s)
  PROVE  Paid(st')
BY DEF Finally, RS, RunState, Paid

LEMMA HostPaid ==
  ASSUME TypeOK, Paid(st), HostStep
  PROVE  Paid(st')
<1>1. Paid(FreshRunState) /\ \A p, m : Paid(Started(p, m))
  BY DecisionBounds DEF Paid, FreshRunState, Started
<1>2. ASSUME NEW c PROVE Paid(Redirected(c)) /\ \A v : Paid([Redirected(c) EXCEPT !.status = v])
  BY DEF Redirected, TypeOK, RunState, Paid
<1>3. ASSUME NEW r \in Runs, NEW c \in Calls, NEW ok \in BOOLEAN, Confirm(r, c, ok)
      PROVE Paid(st')
  <2> DEFINE s == [Redirected(c) EXCEPT !.status = "RUNNING"]
  <2>1. s \in RS
    BY RedirectedType DEF RunStatus
  <2>2. ASSUME NEW cs, Resume(r, cs, s) PROVE Paid(st')
    BY <1>2, <2>1, <2>2, DenyRestPaid DEF Resume, Spawn
  <2> QED BY <1>2, <1>3, <2>2 DEF Confirm
<1>4. CASE SetCancellation
  BY <1>4 DEF SetCancellation, TypeOK, RunState, Paid
<1>5. ASSUME NEW r \in Runs, NewReply(r) PROVE Paid(st')
  BY <1>1, <1>5 DEF NewReply
<1>6. ASSUME NEW r \in Runs, NEW c \in Calls, NEW ok \in BOOLEAN, ConfirmConflict(r, c, ok)
      PROVE Paid(st')
  BY <1>2, <1>6 DEF ConfirmConflict
<1>7. CASE Crash
  BY <1>1, <1>7 DEF Crash
<1>8. CASE st' = st
  BY <1>8
<1> QED
  BY <1>3, <1>4, <1>5, <1>6, <1>7, <1>8 DEF HostStep, CancelNowait, HostCheckpoint, Abandon, HostTaskEnds

LEMMA StepPaid ==
  ASSUME TypeOK, Paid(st), NEW r \in Runs, Step(r)
  PROVE  Paid(st')
<1>1. st \in RS
  BY DEF TypeOK, RS
<1>2. ASSUME NEW u \in BOOLEAN, HookReturns(r, u) PROVE Paid(st')
  BY <1>1, <1>2, AbortPaid DEF HookReturns, Interrupt, RS, RunState, Paid
<1>3. ASSUME NEW batch, NEW f, LLMCalls(r, batch, f) PROVE Paid(st')
  BY <1>1, <1>3, LoopTopPaid DEF LLMCalls, Spawn
<1>4. CASE BatchDone(r) \/ NextDenied(r)
  BY <1>1, <1>4, AbortPaid, DenyRestPaid, LoopTopPaid DEF BatchDone, NextDenied
<1>5. CASE CancelDelivered(r) \/ HookRaises(r) \/ StopTurn(r)
  BY <1>1, <1>5, AbortPaid DEF CancelDelivered, Interrupt, HookRaises, StopTurn
<1>6. CASE Pause(r)
  <2>1. [st EXCEPT !.status = "PAUSED"] \in RS /\ Paid([st EXCEPT !.status = "PAUSED"])
    BY <1>1 DEF RS, RunState, RunStatus, Paid
  <2> QED BY <1>6, <2>1, FinallyPaid DEF Pause
<1>7. CASE ContinueTurn(r)
  BY <1>1, <1>7 DEF ContinueTurn, RS, RunState, Paid
<1>8. CASE Begin(r) \/ AfterHint(r)
  BY <1>1, <1>8, LoopTopPaid DEF Begin, AfterHint
<1>9. ASSUME NEW prev, NEW blocks, LLMReturns(r, prev, blocks) PROVE Paid(st')
  BY <1>1, <1>9, LoopTopPaid DEF LLMReturns
<1>10. CASE Return(r) \/ CloseOrphan(r)
  BY <1>1, <1>10, FinallyPaid DEF Return, CloseOrphan
<1> QED
  BY <1>2, <1>3, <1>4, <1>5, <1>6, <1>7, <1>8, <1>9, <1>10
     DEF Step, LLMStep, ToolStep, ToolsDone, ToolsCancelled, NextResult, NextAsk

\* react_runner.py, decide(): whatever the host does, a RunState sees at most
\* max_iterations provider calls and one for each retry and the finalization.
THEOREM IterationsBounded == Spec => []IterationBudget
<1>1. Init => Paid(st)
  BY DecisionBounds DEF Init, FreshRunState, Paid
<1>2. TypeOK /\ Paid(st) /\ [Next]_vars => Paid(st)'
  BY HostPaid, StepPaid DEF Next, vars
<1>3. TypeOK /\ Paid(st) => IterationBudget
  BY DecisionBounds DEF TypeOK, RunState, Paid, IterationBudget
<1> QED BY <1>1, <1>2, <1>3, TypeCorrect, PTL DEF Spec

(***************************************************************************)
(* The run lock of an agent whose host follows the protocol: it neither    *)
(* answers while a run is in flight nor drops a generator.  The runs       *)
(* ResumeIgnoresLock and OrphanReleasesLock show that either assumption is *)
(* needed.                                                                 *)
(***************************************************************************)

FollowsProtocol == Host \cap {"overlap", "abandon"} = {}

\* LockHeldByRunner is not inductive: that a new reply is refused depends on
\* the task of the run in flight, and a dropped generator would release the
\* lock it does not hold.
LockInv ==
    /\ LockHeldByRunner
    /\ \A r \in Runs : /\ Live(r) => ~run[r].done
                       /\ run[r].pc # "orphan"

\* Only run r moves; its task goes on and it is not dropped.
Moves(r) ==
    /\ \A q \in Runs : q # r => run'[q] = run[q]
    /\ ~run'[r].done /\ run'[r].pc # "orphan"

LEMMA MovesBy ==
  ASSUME TypeOK, NEW r \in Runs, NEW h, run' = [run EXCEPT ![r] = h],
         ~h.done, h.pc # "orphan"
  PROVE  Moves(r)
BY DEF Moves, TypeOK

\* A run that holds the lock moves and keeps it.
LEMMA MovesPreserves ==
  ASSUME LockInv, NEW r \in Runs, Moves(r), runTask' = r,
         \A q \in Runs : Live(q) => q = r
  PROVE  LockInv'
BY DEF LockInv, LockHeldByRunner, Live, Moves

\* The run that holds the lock returns and releases it.
LEMMA LeavePreserves ==
  ASSUME TypeOK, LockInv, NEW r \in Runs, run' = [run EXCEPT ![r] = IdleGenerator], Live(r)
  PROVE  LockInv'
<1>1. \A q \in Runs : Live(q) => q = r
  BY DEF LockInv, LockHeldByRunner
<1>2. IdleGenerator.pc = "idle"
  BY DEF IdleGenerator
<1> QED BY <1>1, <1>2 DEF LockInv, LockHeldByRunner, Live, TypeOK

(***************************************************************************)
(* The building blocks move one run.                                       *)
(***************************************************************************)

LEMMA AbortMoves ==
  ASSUME TypeOK, NEW r \in Runs, NEW g \in Generator, ~g.done, NEW s, NEW p, NEW reason,
         Abort(r, g, s, p, reason)
  PROVE  Moves(r)
<1> DEFINE h == [g EXCEPT !.pc = "end", !.cancelReq = FALSE]
<1>1. ~h.done /\ h.pc # "orphan"
  BY DEF Generator
<1> QED BY <1>1, MovesBy DEF Abort

LEMMA InterruptMoves ==
  ASSUME TypeOK, NEW r \in Runs, NEW g \in Generator, ~g.done, NEW s, Interrupt(r, g, s)
  PROVE  Moves(r)
<1>1. [g EXCEPT !.cancelled = TRUE] \in Generator /\ ~[g EXCEPT !.cancelled = TRUE].done
  BY DEF Generator
<1> QED BY <1>1, AbortMoves DEF Interrupt

LEMMA LoopTopMoves ==
  ASSUME TypeOK, NEW r \in Runs, NEW g \in Generator, ~g.done, NEW s, NEW prev,
         LoopTop(r, g, s, prev)
  PROVE  Moves(r)
<1>1. ASSUME NEW t, NEW hint, EnterReasoning(r, g, t, hint) PROVE Moves(r)
  <2> DEFINE h == [g EXCEPT !.pc = "hook", !.hint = hint]
  <2>1. ~h.done /\ h.pc # "orphan"
    BY DEF Generator
  <2> QED BY <1>1, <2>1, InterruptMoves, MovesBy DEF EnterReasoning
<1>2. ASSUME NEW t, NEW reason, EnterExit(r, g, t, reason) PROVE Moves(r)
  <2> DEFINE h == [g EXCEPT !.pc = "stop", !.exit = t.reply_id, !.msg = t.message_id]
  <2>1. ~h.done /\ h.pc # "orphan"
    BY DEF Generator
  <2> QED BY <1>2, <2>1, AbortMoves, MovesBy DEF EnterExit
<1> QED BY <1>1, <1>2 DEF LoopTop

LEMMA SpawnMoves ==
  ASSUME TypeOK, NEW r \in Runs, NEW g \in Generator, ~g.done, NEW s, NEW batch,
         Spawn(r, g, s, batch)
  PROVE  Moves(r)
<1> DEFINE h == [g EXCEPT !.pc = "tools", !.todo = batch, !.msg = s.message_id]
<1>1. ~h.done /\ h.pc # "orphan"
  BY DEF Generator
<1> QED BY <1>1, MovesBy DEF Spawn

LEMMA WriteResultMoves ==
  ASSUME TypeOK, NEW r \in Runs, NEW g \in Generator, ~g.done, NEW cs, NEW result, NEW at,
         at # "orphan", WriteResult(r, g, cs, result, at)
  PROVE  Moves(r)
<1> DEFINE h == [g EXCEPT !.pc = at, !.todo = @ \ {First(g.todo)}]
<1>1. ~h.done /\ h.pc # "orphan"
  BY DEF Generator
<1> QED BY <1>1, MovesBy DEF WriteResult

LEMMA AskMoves ==
  ASSUME TypeOK, NEW r \in Runs, NEW g \in Generator, ~g.done, NEW cs, Ask(r, g, cs)
  PROVE  Moves(r)
<1> DEFINE h == [g EXCEPT !.pc = "ask", !.todo = @ \ {First(g.todo)}]
<1>1. ~h.done /\ h.pc # "orphan"
  BY DEF Generator
<1> QED BY <1>1, MovesBy DEF Ask

LEMMA DenyRestMoves ==
  ASSUME TypeOK, NEW r \in Runs, NEW g \in Generator, ~g.done, NEW cs, NEW s,
         DenyRest(r, g, cs, s)
  PROVE  Moves(r)
<1>1. [g EXCEPT !.prologue = FALSE] \in Generator /\ ~[g EXCEPT !.prologue = FALSE].done
  BY DEF Generator
<1> QED BY <1>1, WriteResultMoves, LoopTopMoves DEF DenyRest

(***************************************************************************)
(* The steps.                                                              *)
(***************************************************************************)

LEMMA HostLock ==
  ASSUME FollowsProtocol, TypeOK, LockInv, HostStep
  PROVE  LockInv'
<1> USE DEF ids, history, context
<1>1. ASSUME NEW r \in Runs, NewReply(r) PROVE LockInv'
  <2>1. \A q \in Runs : ~Live(q)
    BY <1>1, RunnerAssumption DEF NewReply, LockFree, LockInv, LockHeldByRunner
  <2> DEFINE h == [NewGenerator(nreplies + 1) EXCEPT !.pc = "start"]
  <2>2. ~h.done /\ h.pc # "orphan"
    BY DEF NewGenerator, IdleGenerator
  <2>3. Moves(r)
    BY <1>1, <2>2, MovesBy DEF NewReply
  <2> QED BY <1>1, <2>1, <2>3, MovesPreserves DEF NewReply
<1>2. ASSUME NEW r \in Runs, NEW c \in Calls, NEW ok \in BOOLEAN, Confirm(r, c, ok)
      PROVE LockInv'
  <2> DEFINE cs == SetToolCallState(calls, c, Expected(ok))
             s == [Redirected(c) EXCEPT !.status = "RUNNING"]
             pending == PendingToolCalls(cs)
             allowed == AllowedCalls(cs, pending)
             g == [NewGenerator(s.reply_id) EXCEPT !.prologue = TRUE, !.msg = s.message_id]
             gd == [g EXCEPT !.denied = pending \ allowed]
             gt == [g EXCEPT !.todo = pending]
  <2>1. \A q \in Runs : ~Live(q)
    BY <1>2 DEF Confirm, Polite, FollowsProtocol, Live
  <2>2. CASE run' = run /\ runTask' = runTask
    BY <2>2 DEF LockInv, LockHeldByRunner, Live
  <2>3. CASE runTask' = r /\ Resume(r, cs, s)
    <3>1. s \in RS
      BY RedirectedType DEF RunStatus
    <3>2. g \in Generator /\ ~g.done
      BY <3>1 DEF NewGenerator, IdleGenerator, Generator, Points, RS, RunState
    <3>3. gd \in Generator /\ gt \in Generator /\ ~gd.done /\ ~gt.done
      BY <3>2 DEF Generator, PendingToolCalls
    <3>4. Moves(r)
      BY <2>3, <3>3, SpawnMoves, DenyRestMoves DEF Resume
    <3> QED BY <2>1, <2>3, <3>4, MovesPreserves
  <2> QED BY <1>2, <2>2, <2>3 DEF Confirm
<1>3. ASSUME NEW r \in Runs, NEW c \in Calls, NEW ok \in BOOLEAN, ConfirmConflict(r, c, ok)
      PROVE LockInv'
  BY <1>3 DEF ConfirmConflict, FollowsProtocol
<1>4. CASE CancelNowait
  BY <1>4 DEF CancelNowait, LockInv, LockHeldByRunner, Live, TypeOK, Generator
<1>5. CASE SetCancellation
  BY <1>5 DEF SetCancellation, LockInv, LockHeldByRunner, Live
<1>6. ASSUME NEW c \in Calls, NEW ok \in BOOLEAN, HostCheckpoint(c, ok) PROVE LockInv'
  BY <1>6 DEF HostCheckpoint, LockInv, LockHeldByRunner, Live
<1>7. CASE Crash
  BY <1>7 DEF Crash, IdleGenerator, LockInv, LockHeldByRunner, Live
<1>8. ASSUME NEW r \in Runs, NEW done \in BOOLEAN, Abandon(r, done) PROVE LockInv'
  BY <1>8 DEF Abandon, FollowsProtocol
<1>9. ASSUME NEW r \in Runs, HostTaskEnds(r) PROVE LockInv'
  BY <1>9 DEF HostTaskEnds, LockInv, LockHeldByRunner, Live, TypeOK, Generator
<1> QED BY <1>1, <1>2, <1>3, <1>4, <1>5, <1>6, <1>7, <1>8, <1>9 DEF HostStep

LEMMA StepLock ==
  ASSUME TypeOK, LockInv, NEW r \in Runs, Step(r)
  PROVE  LockInv'
<1> USE DEF ids, history, context
<1> DEFINE g == run[r]
<1>1. g \in Generator
  BY DEF TypeOK
<1>2. CASE Pause(r) \/ Return(r)
  BY <1>2, LeavePreserves DEF Pause, Return, Live
<1>3. CASE CloseOrphan(r)
  BY <1>3 DEF CloseOrphan, LockInv
<1>4. ASSUME Live(r), Moves(r), runTask' = runTask PROVE LockInv'
  BY <1>4, MovesPreserves DEF LockInv, LockHeldByRunner
<1>5. Live(r) => ~g.done
  BY DEF LockInv
<1>6. CASE Begin(r)
  <2>1. [g EXCEPT !.reply = st.reply_id] \in Generator /\ Live(r)
    BY <1>1, <1>6 DEF TypeOK, Generator, RunState, Begin, Live
  <2>2. ~[g EXCEPT !.reply = st.reply_id].done
    BY <1>1, <1>5, <2>1 DEF Generator
  <2> QED BY <1>4, <1>6, <2>1, <2>2, LoopTopMoves DEF Begin
<1>7. ASSUME NEW u \in BOOLEAN, HookReturns(r, u) PROVE LockInv'
  <2>1. Live(r)
    BY <1>7 DEF HookReturns, Live
  <2>2. ASSUME NEW m PROVE /\ ~[g EXCEPT !.pc = "llm", !.msg = m].done
                           /\ [g EXCEPT !.pc = "llm", !.msg = m].pc # "orphan"
    BY <1>1, <1>5, <2>1 DEF Generator
  <2>3. Moves(r)
    BY <1>1, <1>5, <1>7, <2>1, <2>2, InterruptMoves, MovesBy DEF HookReturns
  <2> QED BY <1>4, <1>7, <2>1, <2>3 DEF HookReturns
<1>8. ASSUME NEW prev, NEW blocks, LLMReturns(r, prev, blocks) PROVE LockInv'
  <2>1. Live(r)
    BY <1>8 DEF LLMReturns, Live
  <2> QED BY <1>1, <1>4, <1>5, <1>8, <2>1, LoopTopMoves DEF LLMReturns
<1>9. ASSUME NEW batch \in NewBatches, NEW f \in [batch -> Behaviors], LLMCalls(r, batch, f)
      PROVE LockInv'
  <2> DEFINE asks == {c \in batch : f[c] = "ASK"}
             h == [g EXCEPT !.todo = asks]
  <2>1. Live(r) /\ runTask' = runTask
    BY <1>9 DEF LLMCalls, Live
  <2>2. h \in Generator /\ ~h.done
    BY <1>1, <1>5, <2>1, BatchFacts DEF Generator
  <2>3. Moves(r)
    BY <1>1, <1>5, <1>9, <2>1, <2>2, SpawnMoves, AskMoves, LoopTopMoves DEF LLMCalls
  <2> QED BY <1>4, <2>1, <2>3
<1>10. ASSUME NEW self \in BOOLEAN, NEW result, ToolsDone(r, self, result) PROVE LockInv'
  <2> DEFINE h == [g EXCEPT !.cancelled = @ \/ self \/ st.status = "CANCELLED"]
  <2>1. Live(r)
    BY <1>10 DEF ToolsDone, Live
  <2>2. h \in Generator /\ ~h.done
    BY <1>1, <1>5, <2>1 DEF Generator
  <2> QED BY <1>4, <1>10, <2>1, <2>2, WriteResultMoves DEF ToolsDone
<1>11. CASE ToolsCancelled(r) \/ ContinueTurn(r)
  <2>1. Live(r)
    BY <1>11 DEF ToolsCancelled, ContinueTurn, Live
  <2>2. Moves(r)
    BY <1>5, <1>11, <2>1 DEF ToolsCancelled, ContinueTurn, Moves, TypeOK, Generator
  <2> QED BY <1>4, <1>11, <2>1, <2>2 DEF ToolsCancelled, ContinueTurn
<1>12. CASE CancelDelivered(r)
  <2>1. Live(r)
    BY <1>12 DEF CancelDelivered, Awaits, Live
  <2> QED BY <1>1, <1>4, <1>5, <1>12, <2>1, InterruptMoves DEF CancelDelivered
<1>13. CASE HookRaises(r) \/ StopTurn(r)
  <2>1. Live(r)
    BY <1>13 DEF HookRaises, StopTurn, Live
  <2> QED BY <1>1, <1>4, <1>5, <1>13, <2>1, AbortMoves DEF HookRaises, StopTurn
<1>14. ASSUME NEW result, NextResult(r, result) PROVE LockInv'
  <2>1. Live(r)
    BY <1>14 DEF NextResult, Live
  <2> QED BY <1>1, <1>4, <1>5, <1>14, <2>1, WriteResultMoves DEF NextResult
<1>15. CASE BatchDone(r)
  <2> DEFINE h == [g EXCEPT !.todo = g.denied, !.denied = {}, !.msg = st.message_id]
  <2>1. Live(r)
    BY <1>15 DEF BatchDone, Live
  <2>2. h \in Generator /\ ~h.done
    BY <1>1, <1>5, <2>1 DEF Generator, TypeOK, RunState
  <2>3. Moves(r)
    BY <1>1, <1>5, <1>15, <2>1, <2>2, AbortMoves, DenyRestMoves, LoopTopMoves DEF BatchDone
  <2> QED BY <1>4, <1>15, <2>1, <2>3 DEF BatchDone
<1>16. CASE NextDenied(r)
  <2>1. Live(r)
    BY <1>16 DEF NextDenied, Live
  <2> QED BY <1>1, <1>4, <1>5, <1>16, <2>1, DenyRestMoves DEF NextDenied
<1>17. CASE NextAsk(r)
  <2>1. Live(r)
    BY <1>17 DEF NextAsk, Live
  <2> QED BY <1>1, <1>4, <1>5, <1>17, <2>1, AskMoves DEF NextAsk
<1>18. CASE AfterHint(r)
  <2>1. Live(r)
    BY <1>18 DEF AfterHint, Live
  <2> QED BY <1>1, <1>4, <1>5, <1>18, <2>1, LoopTopMoves DEF AfterHint
<1> QED
  BY <1>2, <1>3, <1>6, <1>7, <1>8, <1>9, <1>10, <1>11, <1>12, <1>13, <1>14, <1>15,
     <1>16, <1>17, <1>18 DEF Step, LLMStep, ToolStep

LEMMA LockInductive ==
  ASSUME FollowsProtocol
  PROVE  Spec => []LockInv
<1>1. Init => LockInv
  BY DEF Init, IdleGenerator, LockInv, LockHeldByRunner, Live
<1>2. TypeOK /\ LockInv /\ [Next]_vars => LockInv'
  <2>1. ASSUME LockInv, UNCHANGED vars PROVE LockInv'
    BY <2>1 DEF vars, LockInv, LockHeldByRunner, Live
  <2> QED BY <2>1, HostLock, StepLock DEF Next
<1> QED BY <1>1, <1>2, TypeCorrect, PTL DEF Spec

\* The lock is held by the run in flight, if the host follows the protocol.
THEOREM LockHolds == ASSUME FollowsProtocol PROVE Spec => []LockHeldByRunner
<1>1. LockInv => LockHeldByRunner
  BY DEF LockInv
<1> QED BY <1>1, LockInductive, PTL

\* No two runs of one agent are in flight, if the host follows the protocol.
THEOREM RunsExclude == ASSUME FollowsProtocol PROVE Spec => []MutualExclusion
<1>1. LockInv => MutualExclusion
  BY DEF LockInv, LockHeldByRunner, MutualExclusion
<1> QED BY <1>1, LockInductive, PTL

(***************************************************************************)
(* Consent: no tool runs without permission, whatever the host does,       *)
(* overlapping confirmations, abandoned generators and crashes included.   *)
(* The invariant is ConsentInv.  Only five steps touch what it speaks of:  *)
(* a model response with tool calls, the next request of a suspended       *)
(* batch, an answer, a checkpointed answer and a crash.  Every other step  *)
(* satisfies ConsentFrame, which is shown of the building blocks first,    *)
(* and which preserves the invariant.                                      *)
(***************************************************************************)

\* No run starts to ask about a call, or takes one up to ask about.
NoNewAsk ==
    \A q \in Runs : run'[q].pc = "ask" =>
      run[q].pc = "ask" /\ run'[q].todo = run[q].todo

\* The calls become cs, but for some that are finished.
FinishedFrom(cs) ==
    \A c \in Calls :
      \/ calls'[c] = cs[c]
      \/ calls'[c].state = "FINISHED" /\ calls'[c].behavior = cs[c].behavior

ConsentFrame ==
    /\ NoNewAsk /\ FinishedFrom(calls)
    /\ decided' = decided /\ spawned' = spawned

LEMMA FramePreserves ==
  ASSUME TypeOK, ConsentInv, ConsentFrame
  PROVE  ConsentInv'
<1> USE DEF ConsentFrame
<1>1. Consent'
  BY DEF ConsentInv, Consent, FinishedFrom
<1>2. AllowedByUser'
  BY DEF ConsentInv, AllowedByUser, FinishedFrom
<1>3. AskingNotRun'
  BY DEF ConsentInv, AskingNotRun, FinishedFrom
<1>4. ToAskNotRun'
  <2> SUFFICES ASSUME NEW r \in Runs, run'[r].pc = "ask", NEW c \in run'[r].todo
               PROVE  /\ calls'[c].behavior = "ASK" /\ spawned'[c] = 0
                      /\ calls'[c].state \in {"PENDING", "FINISHED"}
    BY DEF ToAskNotRun
  <2>1. run[r].pc = "ask" /\ c \in run[r].todo /\ c \in Calls
    BY DEF NoNewAsk, TypeOK, Generator
  <2>2. calls[c].behavior = "ASK" /\ spawned[c] = 0 /\ calls[c].state \in {"PENDING", "FINISHED"}
    BY <2>1 DEF ConsentInv, ToAskNotRun
  <2> QED BY <2>1, <2>2 DEF FinishedFrom
<1>5. AskedByOneRun'
  BY DEF ConsentInv, AskedByOneRun, NoNewAsk
<1>6. UnmadeNotRun'
  BY DEF ConsentInv, UnmadeNotRun, FinishedFrom
<1> QED BY <1>1, <1>2, <1>3, <1>4, <1>5, <1>6 DEF ConsentInv

(***************************************************************************)
(* The building blocks: only Ask takes up calls to ask about.              *)
(***************************************************************************)

LEMMA NoNewAskBy ==
  ASSUME TypeOK, NEW r \in Runs, NEW h, h.pc # "ask", run' = [run EXCEPT ![r] = h]
  PROVE  NoNewAsk
BY DEF NoNewAsk, TypeOK

LEMMA SameRuns ==
  ASSUME run' = run
  PROVE  NoNewAsk
BY DEF NoNewAsk

LEMMA SameCalls ==
  ASSUME NEW cs, calls' = cs
  PROVE  FinishedFrom(cs)
BY DEF FinishedFrom

LEMMA AbortNoAsk ==
  ASSUME TypeOK, NEW r \in Runs, NEW g \in Generator, NEW s, NEW p, NEW reason,
         Abort(r, g, s, p, reason)
  PROVE  NoNewAsk
<1>1. [g EXCEPT !.pc = "end", !.cancelReq = FALSE].pc # "ask"
  BY DEF Generator
<1> QED BY <1>1, NoNewAskBy DEF Abort

LEMMA InterruptNoAsk ==
  ASSUME TypeOK, NEW r \in Runs, NEW g \in Generator, NEW s, Interrupt(r, g, s)
  PROVE  NoNewAsk
<1>1. [g EXCEPT !.cancelled = TRUE] \in Generator
  BY DEF Generator
<1> QED BY <1>1, AbortNoAsk DEF Interrupt

LEMMA LoopTopNoAsk ==
  ASSUME TypeOK, NEW r \in Runs, NEW g \in Generator, NEW s, NEW prev, LoopTop(r, g, s, prev)
  PROVE  NoNewAsk
<1>1. ASSUME NEW t, NEW hint, EnterReasoning(r, g, t, hint) PROVE NoNewAsk
  <2>1. [g EXCEPT !.pc = "hook", !.hint = hint].pc # "ask"
    BY DEF Generator
  <2> QED BY <1>1, <2>1, InterruptNoAsk, NoNewAskBy DEF EnterReasoning
<1>2. ASSUME NEW t, NEW reason, EnterExit(r, g, t, reason) PROVE NoNewAsk
  <2>1. [g EXCEPT !.pc = "stop", !.exit = t.reply_id, !.msg = t.message_id].pc # "ask"
    BY DEF Generator
  <2> QED BY <1>2, <2>1, AbortNoAsk, NoNewAskBy DEF EnterExit
<1> QED BY <1>1, <1>2 DEF LoopTop

LEMMA SpawnNoAsk ==
  ASSUME TypeOK, NEW r \in Runs, NEW g \in Generator, NEW s, NEW batch, Spawn(r, g, s, batch)
  PROVE  NoNewAsk
<1>1. [g EXCEPT !.pc = "tools", !.todo = batch, !.msg = s.message_id].pc # "ask"
  BY DEF Generator
<1> QED BY <1>1, NoNewAskBy DEF Spawn

LEMMA WriteResultFrame ==
  ASSUME TypeOK, NEW r \in Runs, NEW g \in Generator, NEW cs \in CS,
         NEW result, NEW at, at # "ask", WriteResult(r, g, cs, result, at)
  PROVE  NoNewAsk /\ FinishedFrom(cs)
<1>1. [g EXCEPT !.pc = at, !.todo = @ \ {First(g.todo)}].pc # "ask"
  BY DEF Generator
<1>2. NoNewAsk
  BY <1>1, NoNewAskBy DEF WriteResult
<1>3. calls' = [cs EXCEPT ![First(g.todo)].state = "FINISHED"]
  BY DEF WriteResult, SetToolCallState
<1>4. FinishedFrom(cs)
  BY <1>3 DEF FinishedFrom, CS, ToolCallBlock
<1> QED BY <1>2, <1>4

LEMMA DenyRestFrame ==
  ASSUME TypeOK, NEW r \in Runs, NEW g \in Generator, NEW cs \in CS, NEW s,
         DenyRest(r, g, cs, s)
  PROVE  NoNewAsk /\ FinishedFrom(cs)
<1>1. [g EXCEPT !.prologue = FALSE] \in Generator
  BY DEF Generator
<1> QED BY <1>1, WriteResultFrame, LoopTopNoAsk, SameCalls DEF DenyRest

\* The order of the calls, for the well-foundedness argument of FirstIn.
Less == {p \in Nat \X Nat : p[1] < p[2]}

LEMMA LessWellFounded == IsWellFoundedOn(Less, Nat)
<1>1. Less = OpToRel(<, Nat)
  BY DEF Less, OpToRel
<1> QED BY <1>1, NatLessThanWellFounded

\* A nonempty batch has a first call.
LEMMA FirstIn ==
  ASSUME NEW S \in SUBSET Calls, S # {}
  PROVE  First(S) \in S
<1>1. S \subseteq Nat
  BY ContextBounds DEF Calls
<1>2. PICK x \in S : \A y \in S : ~ (<<y, x>> \in Less)
  BY <1>1, LessWellFounded, WFMin
<1>3. \A y \in S : x <= y
  <2> SUFFICES ASSUME NEW y \in S PROVE x <= y
    OBVIOUS
  <2>1. <<y, x>> \in Nat \X Nat /\ x \in Nat /\ y \in Nat
    BY <1>1
  <2> QED BY <1>2, <2>1 DEF Less
<1> QED BY <1>3 DEF First

(***************************************************************************)
(* The steps that touch what the invariant speaks of.                      *)
(***************************************************************************)

\* Asking about the next call, once its batch is recorded in cs.
LEMMA AskPreserves ==
  ASSUME TypeOK, ConsentInv, NEW r \in Runs, NEW g \in Generator, g.todo # {},
         NEW cs \in CS, Ask(r, g, cs), decided' = decided, spawned' = spawned,
         \A c \in g.todo : /\ cs[c].behavior = "ASK" /\ spawned[c] = 0
                           /\ cs[c].state \in {"PENDING", "FINISHED"},
         \A c \in Calls : \/ cs[c] = calls[c]
                          \/ c \in g.todo
                          \/ calls[c].state = "none" /\ cs[c].state = "PENDING",
         \A q \in Runs : q # r /\ run[q].pc = "ask" => run[q].todo \cap g.todo = {}
  PROVE  ConsentInv'
<1> DEFINE a == First(g.todo)
           h == [g EXCEPT !.pc = "ask", !.todo = @ \ {a}]
<1>1. a \in g.todo /\ g.todo \subseteq Calls
  BY FirstIn DEF Generator
<1>2. h.pc = "ask" /\ h.todo = g.todo \ {a}
  BY DEF Generator
<1>3. run' = [run EXCEPT ![r] = h] /\ calls' = [cs EXCEPT ![a].state = "ASKING"]
  BY DEF Ask, SetToolCallState
<1>4. /\ run'[r].pc = "ask" /\ run'[r].todo = g.todo \ {a}
      /\ \A q \in Runs : q # r => run'[q] = run[q]
  BY <1>2, <1>3 DEF TypeOK
<1>5. /\ calls'[a].state = "ASKING" /\ calls'[a].behavior = cs[a].behavior
      /\ \A c \in Calls : c # a => calls'[c] = cs[c]
  BY <1>1, <1>3 DEF CS, ToolCallBlock
<1>6. Consent'
  <2> SUFFICES ASSUME NEW c \in Calls, spawned[c] > 0
               PROVE  \/ calls'[c].behavior = "ALLOW"
                      \/ calls'[c].behavior = "ASK" /\ decided[c] = "yes"
    BY DEF Consent
  <2>1. c \notin g.todo /\ calls[c].state # "none"
    BY DEF ConsentInv, UnmadeNotRun
  <2>2. calls'[c] = calls[c]
    BY <1>1, <1>5, <2>1
  <2> QED BY <2>2 DEF ConsentInv, Consent
<1>7. AllowedByUser'
  BY <1>1, <1>5 DEF ConsentInv, AllowedByUser
<1>8. AskingNotRun'
  <2> SUFFICES ASSUME NEW c \in Calls, calls'[c].state = "ASKING"
               PROVE  calls'[c].behavior = "ASK" /\ spawned[c] = 0
    BY DEF AskingNotRun
  <2>1. CASE c \in g.todo
    BY <1>1, <1>5, <2>1
  <2>2. CASE c \notin g.todo
    BY <1>1, <1>5, <2>2 DEF ConsentInv, AskingNotRun
  <2> QED BY <2>1, <2>2
<1>9. ToAskNotRun'
  <2> SUFFICES ASSUME NEW q \in Runs, run'[q].pc = "ask", NEW c \in run'[q].todo
               PROVE  /\ calls'[c].behavior = "ASK" /\ spawned[c] = 0
                      /\ calls'[c].state \in {"PENDING", "FINISHED"}
    BY DEF ToAskNotRun
  <2>1. CASE q = r
    BY <1>1, <1>4, <1>5, <2>1
  <2>2. CASE q # r
    <3>1. run[q].pc = "ask" /\ c \in run[q].todo /\ c \in Calls /\ c \notin g.todo
      BY <1>4, <2>2 DEF TypeOK, Generator
    <3>2. /\ calls[c].behavior = "ASK" /\ spawned[c] = 0
          /\ calls[c].state \in {"PENDING", "FINISHED"}
      BY <3>1 DEF ConsentInv, ToAskNotRun
    <3>3. calls'[c] = calls[c]
      BY <1>1, <1>5, <3>1, <3>2
    <3> QED BY <3>2, <3>3
  <2> QED BY <2>1, <2>2
<1>10. AskedByOneRun'
  <2> SUFFICES ASSUME NEW p \in Runs, NEW q \in Runs, p # q,
                      run'[p].pc = "ask", run'[q].pc = "ask"
               PROVE  run'[p].todo \cap run'[q].todo = {}
    BY DEF AskedByOneRun
  <2>1. CASE p = r
    BY <1>4, <2>1
  <2>2. CASE q = r
    BY <1>4, <2>2
  <2>3. CASE p # r /\ q # r
    BY <1>4, <2>3 DEF ConsentInv, AskedByOneRun
  <2> QED BY <2>1, <2>2, <2>3
<1>11. UnmadeNotRun'
  BY <1>1, <1>5 DEF ConsentInv, UnmadeNotRun
<1> QED BY <1>6, <1>7, <1>8, <1>9, <1>10, <1>11 DEF ConsentInv

\* The user's answer about call c is recorded, and the calls recorded as
\* allowed may be run.
LEMMA AnswerPreserves ==
  ASSUME TypeOK, ConsentInv, NEW c \in Calls, NEW ok \in BOOLEAN, NoNewAsk,
         calls[c].state \in {"ASKING", Expected(ok)},
         NEW cs \in CS, cs = SetToolCallState(calls, c, Expected(ok)), FinishedFrom(cs),
         decided' = IF calls[c].state = "ASKING"
                      THEN [decided EXCEPT ![c] = Answer(ok)] ELSE decided,
         \A d \in Calls : spawned'[d] = spawned[d] \/ cs[d].state = "ALLOWED"
  PROVE  ConsentInv'
<1>1. /\ cs[c].state = Expected(ok) /\ cs[c].behavior = calls[c].behavior
      /\ \A d \in Calls : d # c => cs[d] = calls[d]
  BY DEF SetToolCallState, TypeOK, ContextTypeOK, ToolCallBlock
<1>2. \A d \in Calls : calls'[d].behavior = calls[d].behavior
  BY <1>1 DEF FinishedFrom
<1>3. \A d \in Calls : cs[d].state = "ALLOWED" =>
        calls[d].behavior = "ASK" /\ decided'[d] = "yes"
  <2> SUFFICES ASSUME NEW d \in Calls, cs[d].state = "ALLOWED"
               PROVE  calls[d].behavior = "ASK" /\ decided'[d] = "yes"
    OBVIOUS
  <2>1. CASE d # c
    BY <1>1, <2>1 DEF ConsentInv, AllowedByUser, TypeOK
  <2>2. CASE d = c
    <3>1. ok = TRUE
      BY <1>1, <2>2 DEF Expected
    <3>2. CASE calls[c].state = "ASKING"
      BY <2>2, <3>1, <3>2 DEF ConsentInv, AskingNotRun, Answer, TypeOK
    <3>3. CASE calls[c].state = "ALLOWED"
      BY <2>2, <3>3 DEF ConsentInv, AllowedByUser
    <3> QED BY <3>1, <3>2, <3>3 DEF Expected
  <2> QED BY <2>1, <2>2
<1>4. Consent'
  <2> SUFFICES ASSUME NEW d \in Calls, spawned'[d] > 0
               PROVE  \/ calls'[d].behavior = "ALLOW"
                      \/ calls'[d].behavior = "ASK" /\ decided'[d] = "yes"
    BY DEF Consent
  <2>1. CASE cs[d].state = "ALLOWED"
    BY <1>2, <1>3, <2>1
  <2>2. CASE spawned'[d] = spawned[d]
    <3>1. ~(d = c /\ calls[c].state = "ASKING")
      BY <2>2 DEF ConsentInv, AskingNotRun
    <3>2. decided'[d] = decided[d]
      BY <3>1 DEF TypeOK
    <3> QED BY <1>2, <2>2, <3>2 DEF ConsentInv, Consent
  <2> QED BY <2>1, <2>2
<1>5. AllowedByUser'
  BY <1>2, <1>3 DEF AllowedByUser, FinishedFrom
<1>6. AskingNotRun'
  <2> SUFFICES ASSUME NEW d \in Calls, calls'[d].state = "ASKING"
               PROVE  calls'[d].behavior = "ASK" /\ spawned'[d] = 0
    BY DEF AskingNotRun
  <2>1. cs[d].state = "ASKING"
    BY DEF FinishedFrom
  <2>2. d # c
    BY <1>1, <2>1 DEF Expected
  <2> QED BY <1>1, <1>2, <2>1, <2>2 DEF ConsentInv, AskingNotRun
<1>7. ToAskNotRun'
  <2> SUFFICES ASSUME NEW q \in Runs, run'[q].pc = "ask", NEW d \in run'[q].todo
               PROVE  /\ calls'[d].behavior = "ASK" /\ spawned'[d] = 0
                      /\ calls'[d].state \in {"PENDING", "FINISHED"}
    BY DEF ToAskNotRun
  <2>1. run[q].pc = "ask" /\ d \in run[q].todo /\ d \in Calls
    BY DEF NoNewAsk, TypeOK, Generator
  <2>2. /\ calls[d].behavior = "ASK" /\ spawned[d] = 0
        /\ calls[d].state \in {"PENDING", "FINISHED"}
    BY <2>1 DEF ConsentInv, ToAskNotRun
  <2>3. cs[d].state \in {"PENDING", "FINISHED"}
    BY <1>1, <2>1, <2>2 DEF Expected
  <2> QED BY <1>2, <2>1, <2>2, <2>3 DEF FinishedFrom
<1>8. AskedByOneRun'
  BY DEF ConsentInv, AskedByOneRun, NoNewAsk
<1>9. UnmadeNotRun'
  <2> SUFFICES ASSUME NEW d \in Calls, calls'[d].state = "none" PROVE spawned'[d] = 0
    BY DEF UnmadeNotRun
  <2>1. cs[d].state = "none" /\ d # c
    BY <1>1 DEF FinishedFrom, Expected
  <2> QED BY <1>1, <2>1 DEF ConsentInv, UnmadeNotRun
<1> QED BY <1>4, <1>5, <1>6, <1>7, <1>8, <1>9 DEF ConsentInv

\* A batch of new calls is recorded; only calls the rules allow are run.
LEMMA BatchPreserves ==
  ASSUME TypeOK, ConsentInv, NEW batch \in NewBatches, NoNewAsk, decided' = decided,
         \A c \in Calls : c \notin batch => calls'[c] = calls[c] /\ spawned'[c] = spawned[c],
         \A c \in batch : /\ calls'[c].state = "PENDING"
                          /\ spawned'[c] = spawned[c] \/ calls'[c].behavior = "ALLOW"
  PROVE  ConsentInv'
<1>1. \A c \in batch : c \in Calls /\ calls[c].state = "none" /\ spawned[c] = 0
  BY BatchFacts DEF Made, ConsentInv, UnmadeNotRun
<1>2. Consent'
  BY <1>1 DEF ConsentInv, Consent
<1>3. AllowedByUser' /\ AskingNotRun'
  BY <1>1 DEF ConsentInv, AllowedByUser, AskingNotRun
<1>4. ToAskNotRun'
  <2> SUFFICES ASSUME NEW q \in Runs, run'[q].pc = "ask", NEW d \in run'[q].todo
               PROVE  /\ calls'[d].behavior = "ASK" /\ spawned'[d] = 0
                      /\ calls'[d].state \in {"PENDING", "FINISHED"}
    BY DEF ToAskNotRun
  <2>1. run[q].pc = "ask" /\ d \in run[q].todo /\ d \in Calls
    BY DEF NoNewAsk, TypeOK, Generator
  <2>2. /\ calls[d].behavior = "ASK" /\ spawned[d] = 0
        /\ calls[d].state \in {"PENDING", "FINISHED"}
    BY <2>1 DEF ConsentInv, ToAskNotRun
  <2> QED BY <1>1, <2>1, <2>2
<1>5. AskedByOneRun'
  BY DEF ConsentInv, AskedByOneRun, NoNewAsk
<1>6. UnmadeNotRun'
  BY <1>1 DEF ConsentInv, UnmadeNotRun
<1> QED BY <1>2, <1>3, <1>4, <1>5, <1>6 DEF ConsentInv

LEMMA HostConsent ==
  ASSUME TypeOK, ConsentInv, HostStep
  PROVE  ConsentInv'
<1> USE DEF ids, history, context
<1>c. calls \in CS
  BY DEF TypeOK, ContextTypeOK, CS
<1>1. ASSUME NEW r \in Runs, NewReply(r) PROVE ConsentInv'
  <2>1. [NewGenerator(nreplies + 1) EXCEPT !.pc = "start"].pc # "ask"
    BY DEF NewGenerator, IdleGenerator
  <2>2. NoNewAsk
    BY <1>1, <2>1, NoNewAskBy DEF NewReply
  <2> QED BY <1>1, <2>2, SameCalls, FramePreserves DEF NewReply, ConsentFrame
<1>2. ASSUME NEW r \in Runs, NEW c \in Calls, NEW ok \in BOOLEAN, Confirm(r, c, ok)
      PROVE ConsentInv'
  <2> DEFINE cs == SetToolCallState(calls, c, Expected(ok))
             s == [Redirected(c) EXCEPT !.status = "RUNNING"]
             pending == PendingToolCalls(cs)
             allowed == AllowedCalls(cs, pending)
             g == [NewGenerator(s.reply_id) EXCEPT !.prologue = TRUE, !.msg = s.message_id]
             gd == [g EXCEPT !.denied = pending \ allowed]
             gt == [g EXCEPT !.todo = pending]
  <2>1. cs \in CS
    BY <1>c, SetStateType DEF Expected, ToolCallState
  <2>2. NoNewAsk /\ FinishedFrom(cs)
        /\ \A d \in Calls : spawned'[d] = spawned[d] \/ cs[d].state = "ALLOWED"
    <3>1. CASE run' = run /\ calls' = cs /\ spawned' = spawned
      BY <3>1, SameRuns, SameCalls
    <3>2. CASE Resume(r, cs, s)
      <4>1. s \in RS
        BY RedirectedType DEF RunStatus
      <4>2. g \in Generator
        BY <4>1 DEF NewGenerator, IdleGenerator, Generator, Points, RS, RunState
      <4>3. gd \in Generator /\ gt \in Generator
        BY <4>2 DEF Generator, PendingToolCalls
      <4>4. CASE Spawn(r, gd, s, allowed) /\ calls' = cs
        <5>1. \A d \in Calls : spawned'[d] = spawned[d] \/ d \in allowed
          BY <4>4 DEF Spawn
        <5> QED BY <4>3, <4>4, <5>1, SpawnNoAsk, SameCalls DEF AllowedCalls
      <4>5. CASE DenyRest(r, gt, cs, s) /\ spawned' = spawned
        BY <2>1, <4>3, <4>5, DenyRestFrame
      <4> QED BY <3>2, <4>4, <4>5 DEF Resume
    <3> QED BY <1>2, <3>1, <3>2 DEF Confirm
  <2> QED BY <1>2, <2>1, <2>2, AnswerPreserves DEF Confirm
<1>3. ASSUME NEW r \in Runs, NEW c \in Calls, NEW ok \in BOOLEAN, ConfirmConflict(r, c, ok)
      PROVE ConsentInv'
  BY <1>3, SameRuns, SameCalls, FramePreserves DEF ConfirmConflict, ConsentFrame
<1>4. CASE CancelNowait
  <2>1. NoNewAsk
    BY <1>4 DEF CancelNowait, NoNewAsk, TypeOK, Generator
  <2> QED BY <1>4, <2>1, SameCalls, FramePreserves DEF CancelNowait, ConsentFrame
<1>5. CASE SetCancellation
  BY <1>5, SameRuns, SameCalls, FramePreserves DEF SetCancellation, ConsentFrame
<1>6. ASSUME NEW c \in Calls, NEW ok \in BOOLEAN, HostCheckpoint(c, ok) PROVE ConsentInv'
  <2>1. SetToolCallState(calls, c, Expected(ok)) \in CS
    BY <1>c, SetStateType DEF Expected, ToolCallState
  <2> QED BY <1>6, <2>1, SameRuns, SameCalls, AnswerPreserves DEF HostCheckpoint
<1>7. CASE Crash
  <2>1. IdleGenerator.pc # "ask"
    BY DEF IdleGenerator
  <2>2. \A q \in Runs : run'[q].pc # "ask"
    BY <1>7, <2>1 DEF Crash
  <2>3. calls' = calls /\ decided' = decided /\ \A c \in Calls : spawned'[c] = 0
    BY <1>7 DEF Crash
  <2> QED BY <2>2, <2>3 DEF ConsentInv, Consent, AllowedByUser, AskingNotRun, ToAskNotRun,
             AskedByOneRun, UnmadeNotRun
<1>8. ASSUME NEW r \in Runs, NEW done \in BOOLEAN, Abandon(r, done) PROVE ConsentInv'
  <2>1. \A p \in {"idle", "orphan"} : [IdleGenerator EXCEPT !.pc = p, !.done = done].pc # "ask"
    BY DEF IdleGenerator
  <2>2. NoNewAsk
    BY <1>8, <2>1, NoNewAskBy DEF Abandon
  <2> QED BY <1>8, <2>2, SameCalls, FramePreserves DEF Abandon, ConsentFrame
<1>9. ASSUME NEW r \in Runs, HostTaskEnds(r) PROVE ConsentInv'
  <2>1. NoNewAsk
    BY <1>9 DEF HostTaskEnds, NoNewAsk, TypeOK, Generator
  <2> QED BY <1>9, <2>1, SameCalls, FramePreserves DEF HostTaskEnds, ConsentFrame
<1> QED BY <1>1, <1>2, <1>3, <1>4, <1>5, <1>6, <1>7, <1>8, <1>9 DEF HostStep

LEMMA BatchConsent ==
  ASSUME TypeOK, ConsentInv, NEW r \in Runs, NEW batch \in NewBatches,
         NEW f \in [batch -> Behaviors], LLMCalls(r, batch, f)
  PROVE  ConsentInv'
<1> USE DEF ids, history, context
<1> DEFINE g == run[r]
           b(c) == [state |-> "PENDING", msg |-> g.msg, reply |-> st.reply_id,
                    behavior |-> f[c]]
           cs == [c \in Calls |-> IF c \in batch THEN b(c) ELSE calls[c]]
           asks == {c \in batch : f[c] = "ASK"}
<1>1. g \in Generator /\ g.pc = "llm" /\ decided' = decided
  BY DEF LLMCalls, TypeOK
<1>2. /\ \A c \in batch : c \in Calls /\ calls[c].state = "none" /\ spawned[c] = 0
      /\ batch \subseteq Calls
  BY BatchFacts DEF Made, ConsentInv, UnmadeNotRun
<1>3. /\ \A c \in batch : cs[c].state = "PENDING" /\ cs[c].behavior = f[c]
      /\ \A c \in Calls : c \notin batch => cs[c] = calls[c]
  BY <1>2
<1>4. CASE ~HasPause(batch, f) /\ calls' = cs /\ Spawn(r, g, st, batch)
  <2>1. \A c \in batch : cs[c].behavior = "ALLOW"
    BY <1>3, <1>4 DEF HasPause
  <2>2. \A c \in Calls : c \notin batch => spawned'[c] = spawned[c]
    BY <1>4 DEF Spawn
  <2>3. NoNewAsk
    BY <1>1, <1>4, SpawnNoAsk
  <2> HIDE DEF cs
  <2> QED BY <1>1, <1>3, <1>4, <2>1, <2>2, <2>3, BatchPreserves
<1>5. CASE asks # {} /\ Ask(r, [g EXCEPT !.todo = asks], cs) /\ spawned' = spawned
  <2> DEFINE h == [g EXCEPT !.todo = asks]
  <2>1. h \in Generator /\ h.todo = asks
    BY <1>1, <1>2 DEF Generator
  <2>2. cs \in CS
    <3>1. \A c \in batch : b(c) \in ToolCallBlock
      BY <1>1, RunnerAssumption DEF ToolCallBlock, ToolCallState, TypeOK, RunState, Generator
    <3> QED BY <3>1 DEF CS, TypeOK, ContextTypeOK
  <2>3. \A c \in asks : /\ cs[c].behavior = "ASK" /\ spawned[c] = 0
                        /\ cs[c].state \in {"PENDING", "FINISHED"}
    BY <1>2, <1>3
  <2>4. \A q \in Runs : q # r /\ run[q].pc = "ask" => run[q].todo \cap asks = {}
    <3>1. \A q \in Runs : run[q].pc = "ask" => \A c \in run[q].todo : calls[c].state # "none"
      BY DEF ConsentInv, ToAskNotRun
    <3> QED BY <1>2, <3>1
  <2>5. Ask(r, h, cs) /\ asks # {} /\ spawned' = spawned
    BY <1>5
  <2>6. \A c \in batch : c \in asks \/ (calls[c].state = "none" /\ cs[c].state = "PENDING")
    BY <1>2, <1>3
  <2> HIDE DEF cs, h, asks
  <2>7. \A c \in Calls : \/ cs[c] = calls[c]
                         \/ c \in h.todo
                         \/ calls[c].state = "none" /\ cs[c].state = "PENDING"
    BY <1>3, <2>1, <2>6
  <2> QED BY <1>1, <2>1, <2>2, <2>3, <2>4, <2>5, <2>7, AskPreserves
<1>6. CASE calls' = cs /\ LoopTop(r, g, st, "none") /\ spawned' = spawned
  <2>1. NoNewAsk
    BY <1>1, <1>6, LoopTopNoAsk
  <2> HIDE DEF cs
  <2> QED BY <1>1, <1>3, <1>6, <2>1, BatchPreserves
<1> QED BY <1>4, <1>5, <1>6 DEF LLMCalls

LEMMA StepConsent ==
  ASSUME TypeOK, ConsentInv, NEW r \in Runs, Step(r)
  PROVE  ConsentInv'
<1> USE DEF ids, history, context
<1> DEFINE g == run[r]
<1>g. g \in Generator /\ calls \in CS
  BY DEF TypeOK, ContextTypeOK, CS
<1>1. ASSUME NEW batch \in NewBatches, NEW f \in [batch -> Behaviors], LLMCalls(r, batch, f)
      PROVE ConsentInv'
  BY <1>1, BatchConsent
<1>2. CASE NextAsk(r)
  BY <1>2, <1>g, AskPreserves DEF NextAsk, ConsentInv, ToAskNotRun, AskedByOneRun
<1>3. CASE Begin(r)
  <2>1. [g EXCEPT !.reply = st.reply_id] \in Generator
    BY <1>g DEF TypeOK, Generator, RunState
  <2>2. NoNewAsk
    BY <1>3, <2>1, LoopTopNoAsk DEF Begin
  <2> QED BY <1>3, <2>2, SameCalls, FramePreserves DEF Begin, ConsentFrame
<1>4. ASSUME NEW u \in BOOLEAN, HookReturns(r, u) PROVE ConsentInv'
  <2>1. ASSUME NEW m PROVE [g EXCEPT !.pc = "llm", !.msg = m].pc # "ask"
    BY <1>g DEF Generator
  <2>2. NoNewAsk
    BY <1>4, <1>g, <2>1, InterruptNoAsk, NoNewAskBy DEF HookReturns
  <2> QED BY <1>4, <2>2, SameCalls, FramePreserves DEF HookReturns, ConsentFrame
<1>5. ASSUME NEW prev, NEW blocks, LLMReturns(r, prev, blocks) PROVE ConsentInv'
  <2>1. NoNewAsk
    BY <1>5, <1>g, LoopTopNoAsk DEF LLMReturns
  <2> QED BY <1>5, <2>1, SameCalls, FramePreserves DEF LLMReturns, ConsentFrame
<1>6. ASSUME NEW self \in BOOLEAN, NEW result, ToolsDone(r, self, result) PROVE ConsentInv'
  <2> DEFINE h == [g EXCEPT !.cancelled = @ \/ self \/ st.status = "CANCELLED"]
  <2>1. h \in Generator
    BY <1>g DEF Generator
  <2>2. NoNewAsk /\ FinishedFrom(calls)
    BY <1>6, <1>g, <2>1, WriteResultFrame DEF ToolsDone
  <2> QED BY <1>6, <2>2, FramePreserves DEF ToolsDone, ConsentFrame
<1>7. CASE ToolsCancelled(r)
  <2>1. NoNewAsk
    BY <1>7 DEF ToolsCancelled, NoNewAsk, TypeOK, Generator
  <2> QED BY <1>7, <2>1, SameCalls, FramePreserves DEF ToolsCancelled, ConsentFrame
<1>8. CASE CancelDelivered(r)
  <2>1. NoNewAsk
    BY <1>8, <1>g, InterruptNoAsk DEF CancelDelivered
  <2> QED BY <1>8, <2>1, SameCalls, FramePreserves DEF CancelDelivered, ConsentFrame
<1>9. CASE HookRaises(r)
  <2>1. NoNewAsk
    BY <1>9, <1>g, AbortNoAsk DEF HookRaises
  <2> QED BY <1>9, <2>1, SameCalls, FramePreserves DEF HookRaises, ConsentFrame
<1>10. ASSUME NEW result, NextResult(r, result) PROVE ConsentInv'
  <2>1. NoNewAsk /\ FinishedFrom(calls)
    BY <1>10, <1>g, WriteResultFrame DEF NextResult
  <2> QED BY <1>10, <2>1, FramePreserves DEF NextResult, ConsentFrame
<1>11. CASE BatchDone(r)
  <2> DEFINE h == [g EXCEPT !.todo = g.denied, !.denied = {}, !.msg = st.message_id]
  <2>1. h \in Generator
    BY <1>g DEF Generator, TypeOK, RunState
  <2>2. NoNewAsk /\ FinishedFrom(calls)
    <3>1. CASE Abort(r, g, st, g.reply, "ERROR") /\ UNCHANGED context
      BY <3>1, <1>g, AbortNoAsk, SameCalls
    <3>2. CASE Abort(r, g, st, st.reply_id, "INTERRUPTED") /\ UNCHANGED context
      BY <3>2, <1>g, AbortNoAsk, SameCalls
    <3>3. CASE DenyRest(r, h, calls, st)
      BY <3>3, <1>g, <2>1, DenyRestFrame
    <3>4. CASE LoopTop(r, g, st, "none") /\ UNCHANGED context
      BY <3>4, <1>g, LoopTopNoAsk, SameCalls
    <3> QED BY <1>11, <3>1, <3>2, <3>3, <3>4 DEF BatchDone
  <2> QED BY <1>11, <2>2, FramePreserves DEF BatchDone, ConsentFrame
<1>12. CASE NextDenied(r)
  <2>1. NoNewAsk /\ FinishedFrom(calls)
    BY <1>12, <1>g, DenyRestFrame DEF NextDenied
  <2> QED BY <1>12, <2>1, FramePreserves DEF NextDenied, ConsentFrame
<1>13. CASE Pause(r) \/ Return(r)
  <2>1. IdleGenerator.pc # "ask"
    BY DEF IdleGenerator
  <2>2. NoNewAsk
    BY <1>13, <2>1, NoNewAskBy DEF Pause, Return
  <2> QED BY <1>13, <2>2, SameCalls, FramePreserves DEF Pause, Return, ConsentFrame
<1>14. CASE StopTurn(r)
  <2>1. NoNewAsk
    BY <1>14, <1>g, AbortNoAsk DEF StopTurn
  <2> QED BY <1>14, <2>1, SameCalls, FramePreserves DEF StopTurn, ConsentFrame
<1>15. CASE ContinueTurn(r)
  <2>1. NoNewAsk
    BY <1>15 DEF ContinueTurn, NoNewAsk, TypeOK, Generator
  <2> QED BY <1>15, <2>1, SameCalls, FramePreserves DEF ContinueTurn, ConsentFrame
<1>16. CASE AfterHint(r)
  <2>1. NoNewAsk
    BY <1>16, <1>g, LoopTopNoAsk DEF AfterHint
  <2> QED BY <1>16, <2>1, SameCalls, FramePreserves DEF AfterHint, ConsentFrame
<1>17. CASE CloseOrphan(r)
  <2>1. NoNewAsk
    BY <1>17 DEF CloseOrphan, NoNewAsk, TypeOK, Generator
  <2> QED BY <1>17, <2>1, SameCalls, FramePreserves DEF CloseOrphan, ConsentFrame
<1> QED
  BY <1>1, <1>2, <1>3, <1>4, <1>5, <1>6, <1>7, <1>8, <1>9, <1>10, <1>11, <1>12, <1>13,
     <1>14, <1>15, <1>16, <1>17 DEF Step, LLMStep, ToolStep

LEMMA InitConsent == Init => ConsentInv
BY DEF Init, ContextInit, NoCall, IdleGenerator, ConsentInv, Consent, AllowedByUser,
       AskingNotRun, ToAskNotRun, AskedByOneRun, UnmadeNotRun

\* The strengthened invariant, under any behaviour of the host.
THEOREM ConsentInvariant == Spec => []ConsentInv
<1>1. TypeOK /\ ConsentInv /\ [Next]_vars => ConsentInv'
  <2>1. ASSUME TypeOK, ConsentInv, UNCHANGED vars PROVE ConsentInv'
    BY <2>1, SameRuns, SameCalls, FramePreserves DEF vars, history, context, ConsentFrame
  <2> QED BY <2>1, HostConsent, StepConsent DEF Next
<1> QED BY <1>1, InitConsent, TypeCorrect, PTL DEF Spec

\* A tool runs only if the permission rules allow its call or the user said
\* yes to it: for any host, and any number of runs, calls and crashes.
THEOREM ConsentHolds == Spec => []Consent
<1>1. ConsentInv => Consent
  BY DEF ConsentInv
<1> QED BY <1>1, ConsentInvariant, PTL


-----------------------------------------------------------------------------
(***************************************************************************)
(* The replies.  Every step of the run in flight is of one of eight kinds  *)
(* (StepEffect), and from them follow, each over the one before,           *)
(*    ReplyInv   how runs, open calls and ended replies fit together       *)
(*    PairedInv  which calls of the reply in progress have their results   *)
(*    PauseInv   when the agent is paused, and the reply lifecycle         *)
(*    ExecInv    what is executed, and where its result goes               *)
(***************************************************************************)
Batch == {"tools", "regather", "result"}

\* The calls of a reply in progress the user is being asked about, or whose
\* answer has not led to a result yet.
Open ==
    {c \in Calls : /\ calls[c].state \in {"ASKING", "ALLOWED", "FINISHED"}
                   /\ results[c] = << >>
                   /\ ends[calls[c].reply] = << >>}

EndsInv == \A p \in Replies : Len(ends[p]) <= 1 /\ (ends[p] # << >> => p <= nreplies)

CallInv(c) ==
    /\ c \in Made => calls[c].reply \in 1..nreplies
    /\ c \notin Made => results[c] = << >>
    /\ calls[c].state = "ASKING" => c \in Open
    /\ calls[c].state \in {"ALLOWED", "FINISHED"} /\ results[c] = << >> => decided[c] # "none"

OneOpen == \A c, d \in Open : calls[c].reply = calls[d].reply /\ calls[c].msg = calls[d].msg

\* A call the run in flight will ask about.
ToAsk(r, cs, c) ==
    /\ cs[c].state = "PENDING" /\ results[c] = << >>
    /\ cs[c].reply = run[r].reply /\ cs[c].msg = run[r].msg

\* The run in flight works on the reply of RunState.  Only while it asks, or
\* resumes, does that reply have open calls.
RunInv(r) ==
    LET g == run[r]
    IN  /\ g.reply = st.reply_id /\ g.reply \in 1..nreplies
        /\ g.pc = "stop" => g.exit = g.reply
        /\ g.pc = "end" <=> ends[g.reply] # << >>
        /\ g.cancelled => g.pc \in {"regather", "result", "end"}
        /\ g.prologue => g.pc \in Batch \cup {"deny", "end"}
        /\ g.pc = "deny" => g.prologue /\ g.denied = {}
        /\ g.pc \in {"tools", "regather"} => g.todo # {}
        /\ g.pc \in Batch \cup {"deny"} => g.todo \subseteq Made
        /\ g.pc \in Batch /\ g.prologue => g.denied \subseteq Made
        /\ g.pc # "ask" => ToolCallsInState(calls, "ASKING") = {}
        /\ g.pc = "ask" => /\ \A c \in g.todo : ToAsk(r, calls, c)
                           /\ \A c \in Open : calls[c].msg = g.msg
        /\ \A c \in Open : calls[c].reply = g.reply
        /\ g.pc # "ask" /\ ~g.prologue => Open = {}
        /\ g.prologue /\ g.pc # "end" =>
             \A c \in Made : results[c] = << >> => c \in g.todo \cup g.denied
        /\ g.pc = "end" /\ g.cancelled /\ ~g.prologue => LastEnd(g.reply) = "INTERRUPTED"

ReplyInv ==
    /\ EndsInv /\ \A c \in Calls : CallInv(c)
    /\ OneOpen /\ \A r \in Runs : Live(r) => RunInv(r)

(***************************************************************************)
(* Every step of a run in flight is of one of eight kinds.                 *)
(***************************************************************************)

\* Nothing is left to do of a batch, or there is none.
AtRest(r) ==
    \/ run[r].pc \in {"start", "hook", "llm", "stop", "hint"}
    \/ /\ run[r].pc \in {"result", "deny"} /\ run[r].todo = {}
       /\ run[r].prologue => run[r].denied = {}

Others(r) == \A q \in Runs : q # r => run'[q] = run[q]

\* The calls cs are those of the context and new ones of the run's response.
Extended(r, cs) ==
    \A c \in Calls :
      \/ cs[c] = calls[c]
      \/ /\ calls[c].state = "none" /\ cs[c].state = "PENDING"
         /\ cs[c].reply = st.reply_id /\ cs[c].msg = run[r].msg

Ended(r) ==
    /\ Others(r)
    /\ run'[r].pc = "end" /\ run'[r].reply = st.reply_id
    /\ st'.reply_id = st.reply_id /\ st'.span = st.span
    /\ st'.status \in {"COMPLETED", "ERROR", "CANCELLED"}
    /\ \E reason \in FinishedReason :
         /\ ReplyEnd(st.reply_id, reason)
         /\ run'[r].cancelled /\ ~run'[r].prologue => reason = "INTERRUPTED"

Looped(r) ==
    /\ Others(r)
    /\ run'[r].pc \in {"hook", "llm", "stop", "hint"} /\ run'[r].reply = st.reply_id
    /\ ~run'[r].prologue /\ ~run'[r].cancelled
    /\ run'[r].pc = "stop" => run'[r].exit = st.reply_id
    /\ run'[r].pc = "llm" => run'[r].msg = st'.message_id
    /\ st'.reply_id = st.reply_id /\ st'.span = st.span /\ st'.status = st.status
    /\ ends' = ends

EndStep(r) ==
    /\ run[r].pc \notin {"ask", "tools", "end"}
    /\ run[r].pc = "regather" => run[r].cancelReq
    /\ run[r].pc \in {"result", "deny"} => run[r].todo = {}
    /\ Ended(r) /\ Extended(r, calls')
    /\ UNCHANGED <<results, decided, spawned, nreplies>>

LoopStep(r) ==
    /\ AtRest(r) /\ Looped(r) /\ Extended(r, calls')
    /\ "DENY" \notin Behaviors => calls' = calls
    /\ UNCHANGED <<results, decided, spawned, nreplies>>

\* The answer of call c is written, of those in todo.
Written(r, c, todo, result, at) ==
    /\ Others(r)
    /\ c \in todo
    /\ run'[r].todo = todo \ {c} /\ run'[r].pc = at
    /\ run'[r].reply = run[r].reply /\ run'[r].prologue = run[r].prologue
    /\ results' = [results EXCEPT ![c] = Append(@, [msg |-> run'[r].msg, state |-> result])]
    /\ calls' = [calls EXCEPT ![c].state = "FINISHED"]
    /\ UNCHANGED <<st, ends, decided, spawned, nreplies>>

AnswerStep(r) ==
    /\ run[r].pc \in Batch
    /\ \E c \in Calls, result \in {"SUCCESS", "ERROR"} : Written(r, c, run[r].todo, result, "result")
    /\ run'[r].denied = run[r].denied /\ run'[r].msg = run[r].msg

DenyStep(r) ==
    /\ run[r].prologue
    /\ \/ \E c \in Calls : run[r].pc = "deny" /\ Written(r, c, run[r].todo, "DENIED", "deny")
       \/ \E c \in Calls : /\ run[r].pc = "result" /\ run[r].todo = {}
                          /\ Written(r, c, run[r].denied, "DENIED", "deny")
    /\ run'[r].denied = {} /\ ~run'[r].cancelled

SpawnStep(r) ==
    \E batch \in SUBSET Calls :
      /\ run[r].pc = "llm"
      /\ batch # {} /\ batch \cap Made = {}
      /\ Others(r)
      /\ run'[r] = [run[r] EXCEPT !.pc = "tools", !.todo = batch, !.msg = st.message_id]
      /\ Extended(r, calls') /\ \A c \in Calls : c \in batch <=> calls'[c] # calls[c]
      /\ spawned' = [c \in Calls |-> IF c \in batch THEN Bump(spawned[c]) ELSE spawned[c]]
      /\ UNCHANGED <<st, results, ends, decided, nreplies>>

\* Call c of todo is asked about, of a context with the calls cs.
AskStep(r) ==
    \E cs \in CS, todo \in SUBSET Calls, c \in Calls :
      /\ c \in todo /\ \A d \in todo : ToAsk(r, cs, d)
      /\ \/ run[r].pc = "llm" /\ Extended(r, cs)
         \/ run[r].pc = "ask" /\ cs = calls
      /\ Others(r)
      /\ run'[r] = [run[r] EXCEPT !.pc = "ask", !.todo = todo \ {c}]
      /\ calls' = [cs EXCEPT ![c].state = "ASKING"]
      /\ UNCHANGED <<st, results, ends, decided, spawned, nreplies>>

RegatherStep(r) ==
    /\ run[r].pc = "tools" /\ Others(r)
    /\ run'[r] = [run[r] EXCEPT !.pc = "regather", !.cancelReq = FALSE, !.cancelled = TRUE]
    /\ UNCHANGED <<st, calls, results, ends, decided, spawned, nreplies>>

LeaveStep(r) ==
    /\ \/ run[r].pc = "ask" /\ run[r].todo = {}
       \/ run[r].pc = "end"
    /\ run' = [run EXCEPT ![r] = IdleGenerator]
    /\ Finally(IF run[r].pc = "ask" THEN [st EXCEPT !.status = "PAUSED"] ELSE st)
    /\ UNCHANGED <<calls, results, ends, decided, spawned, nreplies>>

(***************************************************************************)
(* The building blocks, of the run in flight.                              *)
(***************************************************************************)

LEMMA AbortEnds ==
  ASSUME TypeOK, NEW r \in Runs, NEW g \in Generator, g.reply = st.reply_id,
         NEW s \in RS, s.reply_id = st.reply_id, s.span = st.span,
         NEW reason \in FinishedReason, Abort(r, g, s, st.reply_id, reason),
         g.cancelled /\ ~g.prologue => reason = "INTERRUPTED"
  PROVE  Ended(r)
<1> DEFINE h == [g EXCEPT !.pc = "end", !.cancelReq = FALSE]
<1>1. /\ h.pc = "end" /\ h.reply = g.reply
      /\ h.cancelled = g.cancelled /\ h.prologue = g.prologue
  BY DEF Generator
<1>2. Others(r) /\ run'[r] = h
  BY DEF Abort, Others, TypeOK
<1>3. /\ st'.reply_id = s.reply_id /\ st'.span = s.span
      /\ st'.status \in {"COMPLETED", "ERROR", "CANCELLED"}
  BY DEF Abort, Finalize, StatusOf, RS, RunState
<1>4. ReplyEnd(st.reply_id, reason)
  BY DEF Abort
<1> QED BY <1>1, <1>2, <1>3, <1>4 DEF Ended

LEMMA InterruptEnds ==
  ASSUME TypeOK, NEW r \in Runs, NEW g \in Generator, g.reply = st.reply_id,
         NEW s \in RS, s.reply_id = st.reply_id, s.span = st.span, Interrupt(r, g, s)
  PROVE  Ended(r)
<1>1. /\ [g EXCEPT !.cancelled = TRUE] \in Generator
      /\ [g EXCEPT !.cancelled = TRUE].reply = st.reply_id
  BY DEF Generator
<1>2. "INTERRUPTED" \in FinishedReason
  BY DEF FinishedReason
<1> QED BY <1>1, <1>2, AbortEnds DEF Interrupt

LEMMA LoopTopEffect ==
  ASSUME TypeOK, NEW r \in Runs, NEW g \in Generator, g.reply = st.reply_id,
         ~g.prologue, ~g.cancelled, NEW prev \in TurnResult, LoopTop(r, g, st, prev)
  PROVE  Ended(r) \/ Looped(r)
<1> DEFINE d == Decide(st, prev)
           t == Decided(st, prev)
<1>1. t \in RS /\ (d.action = "Exit" => d.reason \in FinishedReason)
  BY DecideType DEF TypeOK, RS
<1>2. /\ t.reply_id = st.reply_id /\ t.span = st.span
      /\ t.status = st.status /\ t.message_id = st.message_id
  BY DEF TypeOK, RunState, Decided
<1>3. CASE d.action = "Reasoning" /\ EnterReasoning(r, g, t, d.hint)
  <2> DEFINE u == [t EXCEPT !.iteration = @ + 1]
             h == [g EXCEPT !.pc = "hook", !.hint = d.hint]
  <2>1. /\ u \in RS /\ u.reply_id = st.reply_id /\ u.span = st.span /\ u.status = st.status
    BY <1>1, <1>2 DEF RS, RunState
  <2>2. CASE Interrupt(r, g, u)
    BY <2>1, <2>2, InterruptEnds
  <2>3. CASE st' = u /\ run' = [run EXCEPT ![r] = h] /\ ends' = ends
    <3>1. h.pc = "hook" /\ h.reply = g.reply /\ ~h.prologue /\ ~h.cancelled
      BY DEF Generator
    <3>2. Others(r) /\ run'[r] = h
      BY <2>3 DEF Others, TypeOK
    <3> QED BY <2>1, <2>3, <3>1, <3>2 DEF Looped
  <2> QED BY <1>3, <2>2, <2>3 DEF EnterReasoning
<1>4. CASE d.action = "Exit" /\ EnterExit(r, g, t, d.reason)
  <2> DEFINE h == [g EXCEPT !.pc = "stop", !.exit = t.reply_id, !.msg = t.message_id]
  <2>1. CASE Abort(r, g, t, t.reply_id, d.reason)
    BY <1>1, <1>2, <1>4, <2>1, AbortEnds
  <2>2. CASE st' = t /\ run' = [run EXCEPT ![r] = h] /\ ends' = ends
    <3>1. h.pc = "stop" /\ h.reply = g.reply /\ ~h.prologue /\ ~h.cancelled /\ h.exit = t.reply_id
      BY DEF Generator
    <3>2. Others(r) /\ run'[r] = h
      BY <2>2 DEF Others, TypeOK
    <3> QED BY <1>2, <2>2, <3>1, <3>2 DEF Looped
  <2> QED BY <1>4, <2>1, <2>2 DEF EnterExit
<1> QED BY <1>3, <1>4 DEF LoopTop

\* A result is written of a generator h, which is run[r] but for the calls it
\* goes through.
LEMMA WriteEffect ==
  ASSUME TypeOK, NEW r \in Runs, NEW h \in Generator, h.todo # {},
         h.reply = run[r].reply, h.prologue = run[r].prologue,
         NEW result, NEW at, WriteResult(r, h, calls, result, at),
         UNCHANGED <<st, ends, decided, spawned, nreplies>>
  PROVE  /\ \E c \in Calls : Written(r, c, h.todo, result, at)
         /\ run'[r].denied = h.denied /\ run'[r].msg = h.msg /\ run'[r].cancelled = h.cancelled
<1> DEFINE c == First(h.todo)
           k == [h EXCEPT !.pc = at, !.todo = @ \ {c}]
<1>1. c \in h.todo /\ c \in Calls
  BY FirstIn DEF Generator
<1>2. /\ k.todo = h.todo \ {c} /\ k.pc = at /\ k.reply = h.reply /\ k.prologue = h.prologue
      /\ k.denied = h.denied /\ k.msg = h.msg /\ k.cancelled = h.cancelled
  BY DEF Generator
<1>3. Others(r) /\ run'[r] = k
  BY DEF WriteResult, Others, TypeOK
<1>4. /\ results' = [results EXCEPT ![c] = Append(@, [msg |-> h.msg, state |-> result])]
      /\ calls' = [calls EXCEPT ![c].state = "FINISHED"]
  BY DEF WriteResult, AddToolResult, SetToolCallState
<1> QED BY <1>1, <1>2, <1>3, <1>4 DEF Written

\* resume_execute once the allowed calls are done, of a generator h that is
\* run[r] but for the calls it goes through.
LEMMA DenyRestEffect ==
  ASSUME TypeOK, NEW r \in Runs, NEW h \in Generator, h.reply = st.reply_id,
         h.reply = run[r].reply, h.prologue = run[r].prologue, h.prologue,
         ~h.cancelled, h.denied = {}, DenyRest(r, h, calls, st),
         UNCHANGED <<decided, spawned, nreplies>>
  PROVE  \/ /\ \E c \in Calls : Written(r, c, h.todo, "DENIED", "deny")
            /\ run'[r].denied = {} /\ ~run'[r].cancelled
         \/ h.todo = {} /\ (Ended(r) \/ Looped(r)) /\ UNCHANGED <<calls, results>>
<1>1. CASE h.todo # {} /\ WriteResult(r, h, calls, "DENIED", "deny") /\ st' = st /\ ends' = ends
  BY <1>1, WriteEffect
<1>2. CASE /\ h.todo = {} /\ LoopTop(r, [h EXCEPT !.prologue = FALSE], st, "none")
           /\ calls' = calls /\ results' = results
  <2> DEFINE k == [h EXCEPT !.prologue = FALSE]
  <2>1. k \in Generator /\ k.reply = st.reply_id /\ ~k.prologue /\ ~k.cancelled
    BY DEF Generator
  <2>2. "none" \in TurnResult
    BY DEF TurnResult
  <2> QED BY <1>2, <2>1, <2>2, LoopTopEffect
<1> QED BY <1>1, <1>2 DEF DenyRest

RunStep(r) ==
    \/ EndStep(r) \/ LoopStep(r) \/ LeaveStep(r)
    \/ SpawnStep(r) \/ AskStep(r) \/ RegatherStep(r)
    \/ AnswerStep(r) \/ DenyStep(r)

LEMMA SameExtended ==
  ASSUME NEW r, calls' = calls
  PROVE  Extended(r, calls')
BY DEF Extended

\* The provider's response holds tool calls.
LEMMA CallsEffect ==
  ASSUME TypeOK, NEW r \in Runs, RunInv(r), \A c \in Calls : CallInv(c),
         NEW batch \in NewBatches, NEW f \in [batch -> Behaviors], LLMCalls(r, batch, f)
  PROVE  RunStep(r)
<1> DEFINE g == run[r]
           cs == [c \in Calls |->
                    IF c \in batch
                      THEN [state |-> "PENDING", msg |-> g.msg, reply |-> st.reply_id,
                            behavior |-> f[c]]
                      ELSE calls[c]]
           asks == {c \in batch : f[c] = "ASK"}
<1> USE DEF ids
<1>1. g \in Generator /\ g.pc = "llm" /\ ~g.prologue /\ ~g.cancelled /\ g.reply = st.reply_id
  BY DEF TypeOK, LLMCalls, RunInv, Batch
<1>2. batch \in SUBSET Calls /\ batch \cap Made = {} /\ batch # {}
  BY BatchFacts
<1>3. \A c \in batch : calls[c].state = "none" /\ results[c] = << >>
  BY <1>2 DEF Made, CallInv
<1>4. Extended(r, cs)
  BY <1>3 DEF Extended
<1>5. cs \in CS
  <2> SUFFICES ASSUME NEW c \in Calls PROVE cs[c] \in ToolCallBlock
    BY DEF CS
  <2>1. CASE c \in batch
    <3>1. f[c] \in PermissionBehavior
      BY <2>1, RunnerAssumption
    <3>2. g.msg \in Msgs \cup {0} /\ st.reply_id \in Replies \cup {0}
      BY <1>1 DEF Generator, TypeOK, RunState
    <3> QED BY <2>1, <3>1, <3>2 DEF ToolCallBlock, ToolCallState
  <2>2. CASE c \notin batch
    BY <2>2 DEF TypeOK, ContextTypeOK
  <2> QED BY <2>1, <2>2
<1>6. CASE calls' = cs /\ Spawn(r, g, st, batch)
  <2>1. Others(r) /\ run'[r] = [g EXCEPT !.pc = "tools", !.todo = batch, !.msg = st.message_id]
    BY <1>6 DEF Spawn, Others, TypeOK
  <2>2. \A c \in Calls : c \in batch <=> calls'[c] # calls[c]
    BY <1>3, <1>6
  <2>3. SpawnStep(r)
    BY <1>1, <1>2, <1>4, <1>6, <2>1, <2>2 DEF Spawn, LLMCalls, SpawnStep
  <2> QED BY <2>3 DEF RunStep
<1>7. CASE asks # {} /\ Ask(r, [g EXCEPT !.todo = asks], cs) /\ UNCHANGED <<st, spawned, ends>>
  <2> DEFINE c == First(asks)
             h == [g EXCEPT !.todo = asks]
             k == [h EXCEPT !.pc = "ask", !.todo = @ \ {c}]
  <2>1. asks \in SUBSET Calls /\ c \in asks /\ c \in Calls
    BY <1>2, <1>7, FirstIn
  <2>2. h.todo = asks /\ k = [g EXCEPT !.pc = "ask", !.todo = asks \ {c}]
    BY <1>1 DEF Generator
  <2>3. Others(r) /\ run'[r] = k /\ calls' = [cs EXCEPT ![c].state = "ASKING"]
    BY <1>7, <2>2 DEF Ask, Others, TypeOK, SetToolCallState
  <2>4. \A d \in asks : ToAsk(r, cs, d)
    BY <1>1, <1>2, <1>3 DEF ToAsk
  <2>5. AskStep(r)
    BY <1>1, <1>4, <1>5, <1>7, <2>1, <2>2, <2>3, <2>4 DEF LLMCalls, AskStep
  <2> QED BY <2>5 DEF RunStep
<1>8. CASE /\ HasPause(batch, f) /\ asks = {} /\ calls' = cs
           /\ LoopTop(r, g, st, "none") /\ UNCHANGED spawned
  <2>1. "DENY" \in Behaviors
    BY <1>8, RunnerAssumption DEF HasPause, PermissionBehavior
  <2>2. Ended(r) \/ Looped(r)
    BY <1>1, <1>8, LoopTopEffect DEF TurnResult
  <2>3. EndStep(r) \/ LoopStep(r)
    BY <1>1, <1>4, <1>8, <2>1, <2>2 DEF EndStep, LoopStep, AtRest, LLMCalls
  <2> QED BY <2>3 DEF RunStep
<1> QED BY <1>6, <1>7, <1>8 DEF LLMCalls

LEMMA StepEffect ==
  ASSUME TypeOK, NEW r \in Runs, Live(r), RunInv(r), \A c \in Calls : CallInv(c), Step(r)
  PROVE  RunStep(r)
<1> DEFINE g == run[r]
<1> USE DEF ids, history, context
<1>1. g \in Generator /\ st \in RS /\ g.reply = st.reply_id
  BY DEF TypeOK, RS, RunInv
<1>2. g.pc \in {"start", "hook", "llm", "stop", "hint"} => ~g.prologue /\ ~g.cancelled
  BY DEF RunInv, Batch
<1>3. ASSUME Ended(r) \/ Looped(r), g.pc \in {"start", "hook", "llm", "stop", "hint"},
             UNCHANGED <<calls, results, decided, spawned, nreplies>>
      PROVE RunStep(r)
  BY <1>3, SameExtended DEF EndStep, LoopStep, AtRest, RunStep
<1>4. CASE Begin(r)
  <2>1. [g EXCEPT !.reply = st.reply_id] = g
    BY <1>1 DEF Generator
  <2>2. Ended(r) \/ Looped(r)
    BY <1>1, <1>2, <1>4, <2>1, LoopTopEffect DEF Begin, TurnResult
  <2> QED BY <1>3, <1>4, <2>2 DEF Begin
<1>5. ASSUME NEW u \in BOOLEAN, HookReturns(r, u) PROVE RunStep(r)
  <2> DEFINE rotate == u /\ st.message_id \in assistants
             m == IF rotate THEN nmsgs + 1 ELSE st.message_id
             h == [g EXCEPT !.pc = "llm", !.msg = m]
  <2>1. CASE Interrupt(r, g, st)
    BY <1>1, <1>3, <1>5, <2>1, InterruptEnds DEF HookReturns
  <2>2. CASE st' = [st EXCEPT !.message_id = m] /\ run' = [run EXCEPT ![r] = h] /\ ends' = ends
    <3>1. /\ h.pc = "llm" /\ h.reply = g.reply /\ h.msg = m
          /\ h.prologue = g.prologue /\ h.cancelled = g.cancelled
      BY <1>1 DEF Generator
    <3>2. /\ st'.reply_id = st.reply_id /\ st'.span = st.span /\ st'.status = st.status
          /\ st'.message_id = m
      BY <1>1, <2>2 DEF RS, RunState
    <3>3. Others(r) /\ run'[r] = h
      BY <2>2 DEF Others, TypeOK
    <3>4. Looped(r)
      BY <1>1, <1>2, <1>5, <2>2, <3>1, <3>2, <3>3 DEF HookReturns, Looped
    <3> QED BY <1>3, <1>5, <3>4 DEF HookReturns
  <2> QED BY <1>5, <2>1, <2>2 DEF HookReturns
<1>6. ASSUME NEW prev \in {"text", "empty", "error"}, NEW blocks \in BOOLEAN,
             LLMReturns(r, prev, blocks)
      PROVE RunStep(r)
  <2>1. Ended(r) \/ Looped(r)
    BY <1>1, <1>2, <1>6, LoopTopEffect DEF LLMReturns, TurnResult
  <2> QED BY <1>3, <1>6, <2>1 DEF LLMReturns
<1>7. ASSUME NEW self \in BOOLEAN, NEW result \in {"SUCCESS", "ERROR"}, ToolsDone(r, self, result)
      PROVE RunStep(r)
  <2> DEFINE h == [g EXCEPT !.cancelled = @ \/ self \/ st.status = "CANCELLED"]
  <2>1. /\ h \in Generator /\ h.todo = g.todo /\ h.reply = g.reply /\ h.prologue = g.prologue
        /\ h.denied = g.denied /\ h.msg = g.msg
    BY <1>1 DEF Generator
  <2>2. h.todo # {}
    BY <1>7, <2>1 DEF ToolsDone, RunInv
  <2>3. AnswerStep(r)
    BY <1>7, <2>1, <2>2, WriteEffect DEF ToolsDone, AnswerStep, Batch
  <2> QED BY <2>3 DEF RunStep
<1>8. ASSUME NEW result \in {"SUCCESS", "ERROR"}, NextResult(r, result) PROVE RunStep(r)
  <2>1. AnswerStep(r)
    BY <1>1, <1>8, WriteEffect DEF NextResult, AnswerStep, Batch
  <2> QED BY <2>1 DEF RunStep
<1>9. CASE ToolsCancelled(r)
  <2>1. RegatherStep(r)
    BY <1>1, <1>9 DEF ToolsCancelled, RegatherStep, Others, TypeOK
  <2> QED BY <2>1 DEF RunStep
<1>10. CASE CancelDelivered(r)
  <2>1. Ended(r)
    BY <1>1, <1>10, InterruptEnds DEF CancelDelivered
  <2>2. EndStep(r)
    BY <1>10, <2>1, SameExtended DEF CancelDelivered, EndStep, Awaits
  <2> QED BY <2>2 DEF RunStep
<1>11. CASE HookRaises(r) \/ StopTurn(r)
  <2>1. g.pc = "stop" => g.exit = st.reply_id
    BY <1>1 DEF RunInv
  <2>2. "ERROR" \in FinishedReason /\ "COMPLETED" \in FinishedReason
    BY DEF FinishedReason
  <2>3. Ended(r)
    BY <1>1, <1>2, <1>11, <2>1, <2>2, AbortEnds DEF HookRaises, StopTurn
  <2> QED BY <1>3, <1>11, <2>3 DEF HookRaises, StopTurn
<1>12. CASE BatchDone(r)
  <2> DEFINE h == [g EXCEPT !.todo = g.denied, !.denied = {}, !.msg = st.message_id]
  <2>1. "ERROR" \in FinishedReason /\ "INTERRUPTED" \in FinishedReason
    BY DEF FinishedReason
  <2>2. CASE g.cancelled
    <3>1. /\ Abort(r, g, st, st.reply_id, IF g.prologue THEN "ERROR" ELSE "INTERRUPTED")
          /\ calls' = calls /\ results' = results
      BY <1>1, <1>12, <2>2 DEF BatchDone
    <3>2. Ended(r)
      BY <1>1, <2>1, <3>1, AbortEnds
    <3>3. EndStep(r)
      BY <1>12, <3>1, <3>2, SameExtended DEF BatchDone, EndStep
    <3> QED BY <3>3 DEF RunStep
  <2>3. CASE ~g.cancelled /\ g.prologue
    <3>1. /\ h \in Generator /\ h.reply = g.reply /\ h.prologue = g.prologue
          /\ ~h.cancelled /\ h.todo = g.denied /\ h.denied = {}
      BY <1>1, <2>3 DEF Generator, RS, RunState
    <3>2. DenyRest(r, h, calls, st) /\ UNCHANGED <<decided, spawned, nreplies>>
      BY <1>12, <2>3 DEF BatchDone
    <3>3. \/ /\ \E c \in Calls : Written(r, c, g.denied, "DENIED", "deny")
             /\ run'[r].denied = {} /\ ~run'[r].cancelled
          \/ /\ g.denied = {} /\ (Ended(r) \/ Looped(r)) /\ UNCHANGED <<calls, results>>
      BY <1>1, <2>3, <3>1, <3>2, DenyRestEffect
    <3>4. DenyStep(r) \/ EndStep(r) \/ LoopStep(r)
      BY <1>12, <2>3, <3>3, SameExtended DEF BatchDone, DenyStep, EndStep, LoopStep, AtRest
    <3> QED BY <3>4 DEF RunStep
  <2>4. CASE ~g.cancelled /\ ~g.prologue
    <3>1. LoopTop(r, g, st, "none") /\ UNCHANGED <<calls, results>>
      BY <1>12, <2>4 DEF BatchDone
    <3>2. Ended(r) \/ Looped(r)
      BY <1>1, <2>4, <3>1, LoopTopEffect DEF TurnResult
    <3>3. EndStep(r) \/ LoopStep(r)
      BY <1>12, <2>4, <3>1, <3>2, SameExtended DEF BatchDone, EndStep, LoopStep, AtRest
    <3> QED BY <3>3 DEF RunStep
  <2> QED BY <2>2, <2>3, <2>4
<1>13. CASE NextDenied(r)
  <2>1. g.pc = "deny" /\ g.prologue /\ g.denied = {} /\ ~g.cancelled
    BY <1>13 DEF NextDenied, RunInv
  <2>2. DenyRest(r, g, calls, st) /\ UNCHANGED <<decided, spawned, nreplies>>
    BY <1>13 DEF NextDenied
  <2>3. \/ /\ \E c \in Calls : Written(r, c, g.todo, "DENIED", "deny")
           /\ run'[r].denied = {} /\ ~run'[r].cancelled
        \/ /\ g.todo = {} /\ (Ended(r) \/ Looped(r)) /\ UNCHANGED <<calls, results>>
    BY <1>1, <2>1, <2>2, DenyRestEffect
  <2>4. DenyStep(r) \/ EndStep(r) \/ LoopStep(r)
    BY <2>1, <2>2, <2>3, SameExtended DEF DenyStep, EndStep, LoopStep, AtRest
  <2> QED BY <2>4 DEF RunStep
<1>14. CASE NextAsk(r)
  <2> DEFINE c == First(g.todo)
             k == [g EXCEPT !.pc = "ask", !.todo = @ \ {c}]
  <2>1. g.todo \in SUBSET Calls /\ c \in g.todo /\ c \in Calls /\ calls \in CS
    BY <1>1, <1>14, FirstIn DEF NextAsk, Generator, TypeOK, ContextTypeOK, CS
  <2>2. /\ Others(r) /\ run'[r] = [g EXCEPT !.pc = "ask", !.todo = g.todo \ {c}]
        /\ calls' = [calls EXCEPT ![c].state = "ASKING"]
    BY <1>1, <1>14 DEF NextAsk, Ask, Others, TypeOK, SetToolCallState
  <2>3. \A d \in g.todo : ToAsk(r, calls, d)
    BY <1>14 DEF NextAsk, RunInv
  <2>4. AskStep(r)
    BY <1>14, <2>1, <2>2, <2>3 DEF NextAsk, AskStep
  <2> QED BY <2>4 DEF RunStep
<1>15. CASE Pause(r) \/ Return(r)
  <2>1. LeaveStep(r)
    BY <1>15 DEF Pause, Return, LeaveStep
  <2> QED BY <2>1 DEF RunStep
<1>16. CASE ContinueTurn(r)
  <2> DEFINE h == [g EXCEPT !.pc = "hint"]
  <2>1. h.pc = "hint" /\ h.reply = g.reply /\ h.prologue = g.prologue /\ h.cancelled = g.cancelled
    BY <1>1 DEF Generator
  <2>2. Others(r) /\ run'[r] = h
    BY <1>1, <1>16 DEF ContinueTurn, Others, TypeOK
  <2>3. st'.reply_id = st.reply_id /\ st'.span = st.span /\ st'.status = st.status
    BY <1>1, <1>16 DEF ContinueTurn, RS, RunState
  <2>4. Looped(r)
    BY <1>1, <1>2, <1>16, <2>1, <2>2, <2>3 DEF ContinueTurn, Looped
  <2> QED BY <1>3, <1>16, <2>4 DEF ContinueTurn
<1>17. CASE AfterHint(r)
  <2>1. Ended(r) \/ Looped(r)
    BY <1>1, <1>2, <1>17, LoopTopEffect DEF AfterHint, TurnResult
  <2> QED BY <1>3, <1>17, <2>1 DEF AfterHint
<1>18. CASE CloseOrphan(r)
  BY <1>18 DEF CloseOrphan, Live
<1>19. ASSUME NEW batch \in NewBatches, NEW f \in [batch -> Behaviors], LLMCalls(r, batch, f)
       PROVE RunStep(r)
  BY <1>19, CallsEffect
<1> QED
  BY <1>4, <1>5, <1>6, <1>7, <1>8, <1>9, <1>10, <1>11, <1>12, <1>13, <1>14, <1>15, <1>16,
     <1>17, <1>18, <1>19 DEF Step, LLMStep, ToolStep

(***************************************************************************)
(* Each kind of step preserves ReplyInv.                                   *)
(***************************************************************************)

LEMMA OnlyOneLive ==
  ASSUME LockInv, NEW r \in Runs, Live(r), Others(r)
  PROVE  \A q \in Runs : Live(q)' => q = r
BY DEF LockInv, LockHeldByRunner, Live, Others

LEMMA ReplyInvBy ==
  ASSUME LockInv, NEW r \in Runs, Live(r), Others(r),
         EndsInv', \A c \in Calls : CallInv(c)', OneOpen', RunInv(r)'
  PROVE  ReplyInv'
<1>1. \A q \in Runs : Live(q)' => RunInv(q)'
  BY OnlyOneLive
<1> QED BY <1>1 DEF ReplyInv

\* At rest a run has no open call.
LEMMA RestNotOpen ==
  ASSUME NEW r \in Runs, RunInv(r), AtRest(r)
  PROVE  Open = {}
<1>1. Open \subseteq Made /\ \A c \in Open : results[c] = << >>
  BY DEF Open, Made
<1> QED BY <1>1 DEF RunInv, AtRest, Batch

\* The reply of a call the model made exists.
LEMMA KnownReply ==
  ASSUME TypeOK, NEW c \in Made, CallInv(c)
  PROVE  calls[c].reply \in Replies
<1>1. calls[c].reply \in 1..nreplies /\ nreplies \in 0..MaxReplies
  BY DEF CallInv, TypeOK
<1> QED BY <1>1, ContextBounds DEF Replies

\* A call with a new state has one of the states a new call has.
LEMMA ExtendedFacts ==
  ASSUME NEW r \in Runs, NEW cs, Extended(r, cs), NEW c \in Calls,
         \A d \in Calls : CallInv(d)
  PROVE  /\ cs[c].state \in {"ASKING", "ALLOWED", "FINISHED"} => cs[c] = calls[c]
         /\ cs[c].state = "none" => c \notin Made
         /\ cs[c] # calls[c] => results[c] = << >> /\ cs[c].reply = st.reply_id
         /\ c \in Made => cs[c] = calls[c]
BY DEF Extended, Made, CallInv

LEMMA LoopReply ==
  ASSUME TypeOK, LockInv, ReplyInv, NEW r \in Runs, Live(r), LoopStep(r)
  PROVE  ReplyInv'
<1>1. RunInv(r) /\ \A c \in Calls : CallInv(c)
  BY DEF ReplyInv
<1>2. Open = {}
  BY <1>1, RestNotOpen DEF LoopStep
<1>3. /\ results' = results /\ ends' = ends /\ decided' = decided /\ nreplies' = nreplies
      /\ st'.reply_id = st.reply_id
  BY DEF LoopStep, Looped
<1>4. Extended(r, calls') /\ Looped(r)
  BY DEF LoopStep
<1>5. Open' = {}
  BY <1>1, <1>2, <1>3, <1>4, ExtendedFacts DEF Open
<1>6. ASSUME NEW c \in Calls PROVE CallInv(c)'
  <2>1. CallInv(c)
    BY <1>1
  <2>2. st.reply_id \in 1..nreplies
    BY <1>1 DEF RunInv
  <2>3. calls'[c].state # "ASKING"
    BY <1>1, <1>2, <1>4, ExtendedFacts DEF CallInv
  <2> QED BY <1>1, <1>3, <1>4, <2>1, <2>2, <2>3, ExtendedFacts DEF CallInv, Made
<1>7. EndsInv'
  BY <1>3 DEF ReplyInv, EndsInv
<1>8. OneOpen'
  BY <1>5 DEF OneOpen
<1>9. RunInv(r)'
  <2>1. ToolCallsInState(calls, "ASKING")' = {}
    BY <1>5, <1>6 DEF CallInv, ToolCallsInState
  <2>2. ends[st.reply_id] = << >>
    BY <1>1 DEF RunInv, LoopStep, AtRest
  <2> QED BY <1>1, <1>3, <1>4, <1>5, <2>1, <2>2 DEF RunInv, Looped, Batch
<1> QED BY <1>4, <1>6, <1>7, <1>8, <1>9, ReplyInvBy DEF Looped

\* The announcement of the end of the reply in progress.
LEMMA EndsAfter ==
  ASSUME TypeOK, EndsInv, NEW r \in Runs, RunInv(r), run[r].pc # "end",
         NEW reason \in FinishedReason, ReplyEnd(st.reply_id, reason)
  PROVE  /\ st.reply_id \in Replies
         /\ ends'[st.reply_id] # << >> /\ Len(ends'[st.reply_id]) = 1
         /\ ends'[st.reply_id][1] = reason
         /\ \A p \in Replies : p # st.reply_id => ends'[p] = ends[p]
<1> DEFINE p == st.reply_id
<1>1. p \in Replies /\ p \in 1..nreplies /\ ends[p] = << >>
  BY ContextBounds DEF TypeOK, RunInv, Replies
<1>2. ends' = [ends EXCEPT ![p] = Append(@, reason)]
  BY <1>1 DEF ReplyEnd
<1>3. ends'[p] = << reason >>
  BY <1>1, <1>2 DEF TypeOK
<1> QED BY <1>1, <1>2, <1>3 DEF TypeOK

LEMMA EndReply ==
  ASSUME TypeOK, LockInv, ReplyInv, NEW r \in Runs, Live(r), EndStep(r)
  PROVE  ReplyInv'
<1> DEFINE p == st.reply_id
<1>1. RunInv(r) /\ \A c \in Calls : CallInv(c)
  BY DEF ReplyInv
<1>2. Ended(r) /\ Extended(r, calls') /\ UNCHANGED <<results, decided, nreplies>>
  BY DEF EndStep
<1>3. PICK reason \in FinishedReason :
        /\ ReplyEnd(p, reason)
        /\ run'[r].cancelled /\ ~run'[r].prologue => reason = "INTERRUPTED"
  BY <1>2 DEF Ended
<1>4. /\ p \in Replies /\ p \in 1..nreplies
      /\ ends'[p] # << >> /\ Len(ends'[p]) = 1 /\ ends'[p][1] = reason
      /\ \A q \in Replies : q # p => ends'[q] = ends[q]
  BY <1>1, <1>3, EndsAfter DEF EndStep, ReplyInv, RunInv
<1>5. \A c \in Made : calls[c].reply \in Replies
  BY <1>1, KnownReply DEF Made
<1>6. Open' = {}
  <2> SUFFICES ASSUME NEW c \in Open' PROVE FALSE
    OBVIOUS
  <2>1. calls'[c] = calls[c] /\ c \in Calls
    BY <1>1, <1>2, ExtendedFacts DEF Open
  <2>2. c \in Made /\ results[c] = << >> /\ ends'[calls[c].reply] = << >>
    BY <1>2, <2>1 DEF Open, Made
  <2>3. calls[c].reply # p /\ ends[calls[c].reply] = << >>
    BY <1>4, <1>5, <2>2
  <2>4. c \in Open
    BY <2>1, <2>2, <2>3 DEF Open
  <2> QED BY <1>1, <2>3, <2>4 DEF RunInv
<1>7. ASSUME NEW c \in Calls PROVE CallInv(c)'
  <2>1. calls'[c].state # "ASKING"
    BY <1>1, <1>2, ExtendedFacts DEF EndStep, RunInv, ToolCallsInState
  <2>2. CallInv(c)
    BY <1>1
  <2> QED BY <1>1, <1>2, <1>4, <2>1, <2>2, ExtendedFacts DEF CallInv, Made
<1>8. EndsInv'
  <2> SUFFICES ASSUME NEW q \in Replies
               PROVE  Len(ends'[q]) <= 1 /\ (ends'[q] # << >> => q <= nreplies')
    BY DEF EndsInv
  <2>1. CASE q = p
    <3>1. p <= nreplies /\ nreplies' = nreplies /\ Len(ends'[p]) <= 1
      BY <1>2, <1>4
    <3> QED BY <2>1, <3>1
  <2>2. CASE q # p
    BY <1>2, <1>4, <2>2 DEF ReplyInv, EndsInv
  <2> QED BY <2>1, <2>2
<1>9. OneOpen'
  BY <1>6 DEF OneOpen
<1>10. RunInv(r)'
  <2>1. ToolCallsInState(calls, "ASKING")' = {}
    BY <1>6, <1>7 DEF CallInv, ToolCallsInState
  <2>2. run'[r].cancelled /\ ~run'[r].prologue => ends'[p][Len(ends'[p])] = "INTERRUPTED"
    BY <1>3, <1>4
  <2> QED BY <1>1, <1>2, <1>4, <1>6, <2>1, <2>2 DEF RunInv, Ended, Batch, LastEnd
<1> QED BY <1>2, <1>7, <1>8, <1>9, <1>10, ReplyInvBy DEF Ended

\* A call that gets its result is open no more; nothing else changes of any.
LEMMA WrittenFacts ==
  ASSUME TypeOK, NEW r \in Runs, NEW c \in Calls, NEW todo \in SUBSET Made, NEW result, NEW at,
         Written(r, c, todo, result, at)
  PROVE  /\ Made' = Made /\ Open' \subseteq Open /\ results'[c] # << >>
         /\ calls'[c].reply = calls[c].reply /\ calls'[c].msg = calls[c].msg
         /\ calls'[c].state = "FINISHED"
         /\ \A d \in Calls : d # c => calls'[d] = calls[d] /\ results'[d] = results[d]
<1>1. /\ calls'[c].reply = calls[c].reply /\ calls'[c].msg = calls[c].msg
      /\ calls'[c].state = "FINISHED"
      /\ \A d \in Calls : d # c => calls'[d] = calls[d] /\ results'[d] = results[d]
  BY DEF Written, TypeOK, ContextTypeOK, ToolCallBlock
<1>2. results'[c] # << >>
  <2>1. results[c] \in Seq(ToolResultBlock)
    BY DEF TypeOK, ContextTypeOK
  <2>2. results'[c] = Append(results[c], [msg |-> run'[r].msg, state |-> result])
    BY DEF Written, TypeOK, ContextTypeOK
  <2> QED BY <2>1, <2>2
<1>3. c \in Made
  BY DEF Written
<1>4. Made' = Made
  BY <1>1, <1>3 DEF Made
<1>5. Open' \subseteq Open
  BY <1>1, <1>2 DEF Open, Written
<1> QED BY <1>1, <1>2, <1>4, <1>5

LEMMA WrittenReply ==
  ASSUME TypeOK, LockInv, ReplyInv, NEW r \in Runs, Live(r),
         NEW c \in Calls, NEW todo \in SUBSET Made, NEW result, NEW at \in {"result", "deny"},
         run[r].pc \in Batch \cup {"deny"}, Written(r, c, todo, result, at),
         run'[r].cancelled => at = "result",
         at = "deny" => run[r].prologue /\ run'[r].denied = {},
         run[r].prologue => /\ run'[r].denied \subseteq Made
                           /\ \A d \in Made : results[d] = << >> => d \in todo \cup run'[r].denied
  PROVE  ReplyInv'
<1>1. RunInv(r) /\ \A d \in Calls : CallInv(d)
  BY DEF ReplyInv
<1>2. /\ Made' = Made /\ Open' \subseteq Open /\ results'[c] # << >>
      /\ calls'[c].reply = calls[c].reply /\ calls'[c].msg = calls[c].msg
      /\ calls'[c].state = "FINISHED"
      /\ \A d \in Calls : d # c => calls'[d] = calls[d] /\ results'[d] = results[d]
  BY WrittenFacts
<1>3. /\ UNCHANGED <<st, ends, decided, nreplies>> /\ Others(r) /\ c \in todo
      /\ run'[r].todo = todo \ {c} /\ run'[r].pc = at
      /\ run'[r].reply = run[r].reply /\ run'[r].prologue = run[r].prologue
  BY DEF Written
<1>4. ToolCallsInState(calls, "ASKING") = {} /\ ToolCallsInState(calls, "ASKING")' = {}
  BY <1>1, <1>2 DEF RunInv, ToolCallsInState, Batch
<1>5. ASSUME NEW d \in Calls PROVE CallInv(d)'
  <2>1. CallInv(d) /\ calls'[d].state # "ASKING"
    BY <1>1, <1>4 DEF ToolCallsInState
  <2>2. CASE d = c
    BY <1>2, <1>3, <2>1, <2>2 DEF CallInv
  <2>3. CASE d # c
    BY <1>2, <1>3, <2>1, <2>3 DEF CallInv
  <2> QED BY <2>2, <2>3
<1>6. EndsInv'
  BY <1>3 DEF ReplyInv, EndsInv
<1>7. \A d \in Open' : calls'[d].reply = calls[d].reply /\ calls'[d].msg = calls[d].msg
  BY <1>2 DEF Open
<1>8. OneOpen'
  BY <1>2, <1>7 DEF ReplyInv, OneOpen
<1>9. RunInv(r)'
  <2>1. \A d \in Open' : calls'[d].reply = run[r].reply
    BY <1>1, <1>2, <1>7 DEF RunInv
  <2>2. ~run[r].prologue => Open' = {}
    BY <1>1, <1>2 DEF RunInv, Batch
  <2>3. ends[run[r].reply] = << >> /\ run[r].reply = st.reply_id /\ run[r].reply \in 1..nreplies
    BY <1>1 DEF RunInv, Batch
  <2>4. run[r].prologue =>
          \A d \in Made : results'[d] = << >> => d \in (todo \ {c}) \cup run'[r].denied
    BY <1>2 DEF Made
  <2> QED BY <1>2, <1>3, <1>4, <2>1, <2>2, <2>3, <2>4 DEF RunInv, Batch
<1> QED BY <1>3, <1>5, <1>6, <1>8, <1>9, ReplyInvBy

LEMMA AnswerReply ==
  ASSUME TypeOK, LockInv, ReplyInv, NEW r \in Runs, Live(r), AnswerStep(r) \/ DenyStep(r)
  PROVE  ReplyInv'
<1>1. RunInv(r)
  BY DEF ReplyInv
<1>2. CASE AnswerStep(r)
  <2>1. PICK c \in Calls, result \in {"SUCCESS", "ERROR"} :
          Written(r, c, run[r].todo, result, "result")
    BY <1>2 DEF AnswerStep
  <2>2. /\ run[r].pc \in Batch /\ run[r].todo \in SUBSET Made /\ run'[r].denied = run[r].denied
        /\ run[r].prologue => /\ run[r].denied \subseteq Made
                              /\ \A d \in Made : results[d] = << >> => d \in run[r].todo \cup run[r].denied
    BY <1>1, <1>2 DEF AnswerStep, RunInv, Batch
  <2> QED BY <2>1, <2>2, WrittenReply
<1>3. CASE DenyStep(r)
  <2>1. /\ run[r].prologue /\ run'[r].denied = {} /\ ~run'[r].cancelled
        /\ run[r].pc \in Batch \cup {"deny"}
    BY <1>3 DEF DenyStep, Batch
  <2>2. \A d \in Made : results[d] = << >> => d \in run[r].todo \cup run[r].denied
    BY <1>1, <2>1 DEF RunInv, Batch
  <2>3. CASE \E c \in Calls : run[r].pc = "deny" /\ Written(r, c, run[r].todo, "DENIED", "deny")
    <3>1. run[r].todo \in SUBSET Made /\ run[r].denied = {}
      BY <1>1, <2>3 DEF RunInv
    <3> QED BY <2>1, <2>2, <2>3, <3>1, WrittenReply
  <2>4. CASE \E c \in Calls : /\ run[r].pc = "result" /\ run[r].todo = {}
                              /\ Written(r, c, run[r].denied, "DENIED", "deny")
    <3>1. run[r].denied \in SUBSET Made
      BY <1>1, <2>1, <2>4 DEF RunInv, Batch
    <3> QED BY <2>1, <2>2, <2>4, <3>1, WrittenReply
  <2> QED BY <1>3, <2>3, <2>4 DEF DenyStep
<1> QED BY <1>2, <1>3

LEMMA SpawnReply ==
  ASSUME TypeOK, LockInv, ReplyInv, NEW r \in Runs, Live(r), SpawnStep(r)
  PROVE  ReplyInv'
<1>1. RunInv(r) /\ \A c \in Calls : CallInv(c)
  BY DEF ReplyInv
<1>2. PICK batch \in SUBSET Calls :
        /\ batch # {}
        /\ run'[r] = [run[r] EXCEPT !.pc = "tools", !.todo = batch, !.msg = st.message_id]
        /\ Extended(r, calls') /\ \A c \in Calls : c \in batch <=> calls'[c] # calls[c]
  BY DEF SpawnStep
<1>3. /\ run[r].pc = "llm" /\ Others(r) /\ UNCHANGED <<st, results, ends, decided, nreplies>>
  BY DEF SpawnStep
<1>4. /\ run'[r].pc = "tools" /\ run'[r].todo = batch /\ run'[r].reply = run[r].reply
      /\ run'[r].prologue = run[r].prologue /\ run'[r].cancelled = run[r].cancelled
  BY <1>2 DEF TypeOK, Generator
<1>5. ~run[r].prologue /\ ~run[r].cancelled /\ Open = {}
  BY <1>1, <1>3 DEF RunInv, Batch
<1>6. Open' = {}
  BY <1>1, <1>2, <1>3, <1>5, ExtendedFacts DEF Open
<1>7. ASSUME NEW c \in Calls PROVE CallInv(c)'
  <2>1. calls'[c].state # "ASKING"
    BY <1>1, <1>2, <1>5, ExtendedFacts DEF CallInv
  <2>2. st.reply_id \in 1..nreplies /\ CallInv(c)
    BY <1>1 DEF RunInv
  <2> QED BY <1>1, <1>2, <1>3, <2>1, <2>2, ExtendedFacts DEF CallInv, Made
<1>8. EndsInv'
  BY <1>3 DEF ReplyInv, EndsInv
<1>9. OneOpen'
  BY <1>6 DEF OneOpen
<1>10. RunInv(r)'
  <2>1. ToolCallsInState(calls, "ASKING")' = {}
    BY <1>6, <1>7 DEF CallInv, ToolCallsInState
  <2>2. ends[st.reply_id] = << >>
    BY <1>1, <1>3 DEF RunInv
  <2>3. batch \subseteq Made'
    BY <1>1, <1>2 DEF Made, Extended
  <2> QED BY <1>1, <1>2, <1>3, <1>4, <1>5, <1>6, <2>1, <2>2, <2>3 DEF RunInv, Batch
<1> QED BY <1>3, <1>7, <1>8, <1>9, <1>10, ReplyInvBy

LEMMA AskReply ==
  ASSUME TypeOK, LockInv, ReplyInv, NEW r \in Runs, Live(r), AskStep(r)
  PROVE  ReplyInv'
<1>1. RunInv(r) /\ \A d \in Calls : CallInv(d)
  BY DEF ReplyInv
<1>2. PICK cs \in CS, todo \in SUBSET Calls, c \in Calls :
      /\ c \in todo /\ \A d \in todo : ToAsk(r, cs, d)
      /\ \/ run[r].pc = "llm" /\ Extended(r, cs)
         \/ run[r].pc = "ask" /\ cs = calls
      /\ Others(r)
      /\ run'[r] = [run[r] EXCEPT !.pc = "ask", !.todo = todo \ {c}]
      /\ calls' = [cs EXCEPT ![c].state = "ASKING"]
      /\ UNCHANGED <<st, results, ends, decided, spawned, nreplies>>
  BY DEF AskStep
<1>3. /\ run'[r].pc = "ask" /\ run'[r].todo = todo \ {c} /\ run'[r].reply = run[r].reply
      /\ run'[r].prologue = run[r].prologue /\ run'[r].cancelled = run[r].cancelled
      /\ run'[r].msg = run[r].msg
  BY <1>2 DEF TypeOK, Generator
<1>4. ~run[r].prologue /\ ~run[r].cancelled /\ ends[run[r].reply] = << >>
      /\ \A d \in Open : calls[d].reply = run[r].reply /\ calls[d].msg = run[r].msg
  BY <1>1, <1>2 DEF RunInv, Batch
<1>5. /\ calls'[c].state = "ASKING" /\ calls'[c].reply = cs[c].reply /\ calls'[c].msg = cs[c].msg
      /\ \A d \in Calls : d # c => calls'[d] = cs[d]
  BY <1>2 DEF CS, ToolCallBlock
<1>6. Extended(r, cs)
  BY <1>2 DEF Extended
<1>7. /\ results[c] = << >> /\ cs[c].reply = run[r].reply /\ cs[c].msg = run[r].msg
  BY <1>2 DEF ToAsk
<1>8. c \in Open' /\ \A d \in Calls : d # c => (d \in Open' <=> d \in Open)
  <2>1. c \in Open'
    BY <1>2, <1>4, <1>5, <1>7 DEF Open
  <2>2. ASSUME NEW d \in Calls, d # c, d \in Open' PROVE d \in Open
    BY <1>1, <1>2, <1>5, <1>6, <2>2, ExtendedFacts DEF Open
  <2>3. ASSUME NEW d \in Calls, d # c, d \in Open PROVE d \in Open'
    <3>1. d \in Made
      BY <2>3 DEF Open, Made
    <3> QED BY <1>1, <1>2, <1>5, <1>6, <2>3, <3>1, ExtendedFacts DEF Open
  <2> QED BY <2>1, <2>2, <2>3
<1>9. \A d \in Open' : calls'[d].reply = run[r].reply /\ calls'[d].msg = run[r].msg
  <2> SUFFICES ASSUME NEW d \in Open'
               PROVE  calls'[d].reply = run[r].reply /\ calls'[d].msg = run[r].msg
    OBVIOUS
  <2>1. CASE d = c
    BY <1>5, <1>7, <2>1
  <2>2. CASE d # c
    <3>1. d \in Calls /\ d \in Open /\ d \in Made
      BY <1>8, <2>2 DEF Open, Made
    <3> QED BY <1>1, <1>4, <1>5, <1>6, <2>2, <3>1, ExtendedFacts
  <2> QED BY <2>1, <2>2
<1>10. ASSUME NEW d \in Calls PROVE CallInv(d)'
  <2>1. CallInv(d) /\ st.reply_id \in 1..nreplies /\ run[r].reply = st.reply_id
    BY <1>1 DEF RunInv
  <2>2. CASE d = c
    BY <1>2, <1>5, <1>7, <1>8, <2>1, <2>2 DEF CallInv, Made
  <2>3. CASE d # c
    <3>1. calls'[d] = cs[d]
      BY <1>5, <2>3
    <3>2. d \in Made' => calls'[d].reply \in 1..nreplies
      BY <1>1, <1>6, <2>1, <3>1, ExtendedFacts DEF CallInv, Made
    <3>3. calls'[d].state \in {"ASKING", "ALLOWED", "FINISHED"} => calls'[d] = calls[d]
      BY <1>1, <1>6, <3>1, ExtendedFacts
    <3>4. d \notin Made' => d \notin Made
      BY <1>1, <1>6, <3>1, ExtendedFacts DEF Made
    <3> QED BY <1>2, <1>8, <2>1, <2>3, <3>2, <3>3, <3>4 DEF CallInv
  <2> QED BY <2>2, <2>3
<1>11. EndsInv'
  BY <1>2 DEF ReplyInv, EndsInv
<1>12. OneOpen'
  BY <1>9 DEF OneOpen
<1>13. RunInv(r)'
  <2>1. \A d \in todo \ {c} : ToAsk(r, calls, d)'
    BY <1>2, <1>3, <1>5 DEF ToAsk
  <2>2. run[r].reply = st.reply_id /\ run[r].reply \in 1..nreplies
    BY <1>1 DEF RunInv
  <2> QED BY <1>2, <1>3, <1>4, <1>9, <2>1, <2>2 DEF RunInv, Batch
<1> QED BY <1>2, <1>10, <1>11, <1>12, <1>13, ReplyInvBy

LEMMA RegatherReply ==
  ASSUME TypeOK, LockInv, ReplyInv, NEW r \in Runs, Live(r), RegatherStep(r)
  PROVE  ReplyInv'
<1>1. UNCHANGED <<st, calls, results, ends, decided, nreplies>> /\ Others(r)
  BY DEF RegatherStep
<1>2. /\ run'[r].pc = "regather" /\ run'[r].todo = run[r].todo /\ run'[r].reply = run[r].reply
      /\ run'[r].prologue = run[r].prologue /\ run'[r].denied = run[r].denied
  BY DEF RegatherStep, TypeOK, Generator
<1>3. EndsInv' /\ OneOpen' /\ \A c \in Calls : CallInv(c)'
  BY <1>1 DEF ReplyInv, EndsInv, OneOpen, CallInv, Open, Made
<1>4. RunInv(r) /\ run[r].pc = "tools"
  BY DEF ReplyInv, RegatherStep
<1>5. RunInv(r)'
  BY <1>1, <1>2, <1>4 DEF RunInv, Batch, Open, Made, ToolCallsInState
<1> QED BY <1>1, <1>3, <1>5, ReplyInvBy

LEMMA LeaveReply ==
  ASSUME TypeOK, LockInv, ReplyInv, NEW r \in Runs, Live(r), LeaveStep(r)
  PROVE  ReplyInv'
<1>1. UNCHANGED <<calls, results, ends, decided, nreplies>>
  BY DEF LeaveStep
<1>2. Others(r) /\ ~Live(r)'
  BY DEF LeaveStep, Others, IdleGenerator, Live, TypeOK
<1>3. \A q \in Runs : ~Live(q)'
  BY <1>2, OnlyOneLive
<1>4. EndsInv' /\ OneOpen' /\ \A c \in Calls : CallInv(c)'
  BY <1>1 DEF ReplyInv, EndsInv, OneOpen, CallInv, Open, Made
<1> QED BY <1>3, <1>4 DEF ReplyInv

\* Only a run in flight takes steps: no generator has been dropped.
LEMMA StepLive ==
  ASSUME LockInv, NEW r \in Runs, Step(r) PROVE Live(r)
<1>1. CASE CloseOrphan(r)
  BY <1>1 DEF CloseOrphan, LockInv
<1>2. CASE ~CloseOrphan(r)
  BY <1>2, Zenon DEF Live, Step, LLMStep, ToolStep, Begin, HookReturns, LLMReturns, LLMCalls,
     ToolsDone, ToolsCancelled, CancelDelivered, HookRaises, NextResult, BatchDone,
     NextDenied, NextAsk, Pause, StopTurn, ContinueTurn, AfterHint, Return, Awaits
<1> QED BY <1>1, <1>2

LEMMA StepReply ==
  ASSUME TypeOK, LockInv, ReplyInv, NEW r \in Runs, Step(r)
  PROVE  ReplyInv' /\ Live(r) /\ RunStep(r)
<1>1. Live(r)
  BY StepLive
<1>2. RunStep(r)
  BY <1>1, StepEffect DEF ReplyInv
<1> QED BY <1>1, <1>2, LoopReply, EndReply, AnswerReply, SpawnReply, AskReply, RegatherReply,
           LeaveReply DEF RunStep

(***************************************************************************)
(* The host.                                                               *)
(***************************************************************************)

\* The user's answer for an open call is recorded: the calls become cs.
LEMMA AnsweredFacts ==
  ASSUME TypeOK, NEW c \in Open, NEW ok \in BOOLEAN, NEW cs,
         cs = SetToolCallState(calls, c, Expected(ok))
  PROVE  /\ cs \in CS /\ c \in Calls
         /\ cs[c].state \in {"ALLOWED", "FINISHED"} /\ (ok <=> cs[c].state = "ALLOWED")
         /\ cs[c].behavior = calls[c].behavior
         /\ \A d \in Calls : cs[d].reply = calls[d].reply /\ cs[d].msg = calls[d].msg
         /\ \A d \in Calls : d # c => cs[d] = calls[d]
         /\ PendingToolCalls(cs) = {d \in Made : results[d] = << >>}
         /\ c \in Made /\ results[c] = << >> /\ ends[calls[c].reply] = << >>
<1>1. c \in Calls /\ c \in Made /\ results[c] = << >> /\ ends[calls[c].reply] = << >>
  BY DEF Open, Made
<1>2. Expected(ok) \in {"ALLOWED", "FINISHED"} /\ (ok <=> Expected(ok) = "ALLOWED")
  BY DEF Expected
<1>3. /\ cs[c].state = Expected(ok) /\ cs[c].reply = calls[c].reply
      /\ cs[c].msg = calls[c].msg /\ cs[c].behavior = calls[c].behavior
      /\ \A d \in Calls : d # c => cs[d] = calls[d]
  BY <1>1 DEF SetToolCallState, TypeOK, ContextTypeOK, ToolCallBlock
<1>4. cs \in CS
  BY <1>2, SetStateType DEF ToolCallState, TypeOK, ContextTypeOK, CS
<1>5. PendingToolCalls(cs) = {d \in Made : results[d] = << >>}
  BY <1>1, <1>2, <1>3 DEF PendingToolCalls, Made
<1> QED BY <1>1, <1>2, <1>3, <1>4, <1>5

\* An answer is recorded and no run starts.
LEMMA RecordedReply ==
  ASSUME TypeOK, ReplyInv, NEW c \in Open, NEW ok \in BOOLEAN,
         calls' = SetToolCallState(calls, c, Expected(ok)),
         \A q \in Runs : ~Live(q)', decided'[c] # "none",
         \A d \in Calls : d # c => decided'[d] = decided[d],
         UNCHANGED <<results, ends, nreplies>>
  PROVE  ReplyInv' /\ Open' = Open /\ Made' = Made
<1>1. /\ c \in Calls /\ calls'[c].state \in {"ALLOWED", "FINISHED"}
      /\ \A d \in Calls : calls'[d].reply = calls[d].reply /\ calls'[d].msg = calls[d].msg
      /\ \A d \in Calls : d # c => calls'[d] = calls[d]
      /\ c \in Made
  BY AnsweredFacts
<1>2. Made' = Made
  BY <1>1 DEF Made
<1>3. Open' = Open
  BY <1>1 DEF Open
<1>4. EndsInv' /\ OneOpen'
  BY <1>1, <1>3 DEF ReplyInv, EndsInv, OneOpen, Open
<1>5. ASSUME NEW d \in Calls PROVE CallInv(d)'
  <2>1. CallInv(d)
    BY DEF ReplyInv
  <2>2. CASE d = c
    BY <1>1, <1>2, <2>1, <2>2 DEF CallInv
  <2>3. CASE d # c
    BY <1>1, <1>2, <1>3, <2>1, <2>3 DEF CallInv
  <2> QED BY <2>2, <2>3
<1> QED BY <1>2, <1>3, <1>4, <1>5 DEF ReplyInv

\* A polite answer is to an open call.
LEMMA PoliteOpen ==
  ASSUME ReplyInv, NEW c \in Calls, NEW ok, Polite(c, ok)
  PROVE  c \in Open /\ (calls[c].state # "ASKING" => decided[c] # "none")
<1>1. CASE calls[c].state = "ASKING"
  BY <1>1 DEF ReplyInv, CallInv
<1>2. CASE c \in Undelivered
  BY <1>2 DEF Undelivered, Open
<1> QED BY <1>1, <1>2 DEF Polite

\* resume_execute, up to its first suspension, is a run in its prologue with
\* every call that has no result before it.
ResumeRun(r, c, cs) ==
    /\ Others(r)
    /\ run'[r].reply = calls[c].reply /\ run'[r].prologue
    /\ ~run'[r].cancelled /\ ~run'[r].cancelReq
    /\ st' = [Redirected(c) EXCEPT !.status = "RUNNING"]
    /\ ends' = ends
    /\ \/ /\ run'[r].pc = "tools" /\ run'[r].todo # {}
          /\ run'[r].todo = AllowedCalls(cs, PendingToolCalls(cs))
          /\ run'[r].denied = PendingToolCalls(cs) \ run'[r].todo
          /\ run'[r].msg = calls[c].msg
          /\ calls' = cs /\ results' = results
          /\ spawned' = [d \in Calls |-> IF d \in run'[r].todo THEN Bump(spawned[d])
                                                              ELSE spawned[d]]
       \/ /\ run'[r].pc = "deny" /\ run'[r].denied = {}
          /\ AllowedCalls(cs, PendingToolCalls(cs)) = {}
          /\ \E d \in PendingToolCalls(cs) :
               /\ run'[r].todo = PendingToolCalls(cs) \ {d}
               /\ results' = [results EXCEPT ![d] = Append(@, [msg |-> run'[r].msg, state |-> "DENIED"])]
               /\ calls' = [cs EXCEPT ![d].state = "FINISHED"]
          /\ spawned' = spawned

LEMMA ResumeEffect ==
  ASSUME TypeOK, NEW r \in Runs, NEW c \in Open, NEW ok \in BOOLEAN, NEW cs,
         cs = SetToolCallState(calls, c, Expected(ok)),
         Resume(r, cs, [Redirected(c) EXCEPT !.status = "RUNNING"])
  PROVE  ResumeRun(r, c, cs)
<1> DEFINE s == [Redirected(c) EXCEPT !.status = "RUNNING"]
           pending == PendingToolCalls(cs)
           allowed == AllowedCalls(cs, pending)
           g == [NewGenerator(s.reply_id) EXCEPT !.prologue = TRUE, !.msg = s.message_id]
           gd == [g EXCEPT !.denied = pending \ allowed]
           gt == [g EXCEPT !.todo = pending]
<1>1. s \in RS /\ s.reply_id = calls[c].reply /\ s.message_id = calls[c].msg
  <2>1. c \in Calls
    BY DEF Open
  <2>2. s \in RS
    BY <2>1, RedirectedType DEF RunStatus
  <2> QED BY <2>2 DEF Redirected, TypeOK, RunState
<1>2. /\ g \in Generator /\ g.reply = calls[c].reply /\ g.msg = calls[c].msg /\ g.prologue
      /\ ~g.cancelled /\ ~g.cancelReq /\ g.denied = {} /\ g.todo = {}
  BY <1>1 DEF NewGenerator, IdleGenerator, Generator, Points, RS, RunState
<1>3. pending \in SUBSET Calls /\ allowed \in SUBSET pending /\ c \in pending /\ cs \in CS
  BY AnsweredFacts DEF PendingToolCalls, AllowedCalls, Made
<1>4. CASE allowed # {} /\ Spawn(r, gd, s, allowed) /\ calls' = cs /\ results' = results
  <2> DEFINE h == [gd EXCEPT !.pc = "tools", !.todo = allowed, !.msg = s.message_id]
  <2>1. /\ h.pc = "tools" /\ h.todo = allowed /\ h.denied = pending \ allowed
        /\ h.msg = s.message_id /\ h.reply = g.reply /\ h.prologue = g.prologue
        /\ h.cancelled = g.cancelled /\ h.cancelReq = g.cancelReq
    BY <1>2 DEF Generator
  <2>2. Others(r) /\ run'[r] = h
    BY <1>4 DEF Spawn, Others, TypeOK
  <2>3. /\ run'[r].pc = "tools" /\ run'[r].todo = allowed /\ run'[r].denied = pending \ allowed
        /\ run'[r].msg = calls[c].msg /\ run'[r].reply = calls[c].reply /\ run'[r].prologue
        /\ ~run'[r].cancelled /\ ~run'[r].cancelReq
    BY <1>1, <1>2, <2>1, <2>2
  <2>4. /\ spawned' = [d \in Calls |-> IF d \in run'[r].todo THEN Bump(spawned[d]) ELSE spawned[d]]
        /\ st' = s /\ ends' = ends
    BY <1>4, <2>3 DEF Spawn
  <2> QED BY <1>4, <2>2, <2>3, <2>4 DEF ResumeRun
<1>5. CASE /\ allowed = {} /\ WriteResult(r, gt, cs, "DENIED", "deny")
           /\ st' = s /\ ends' = ends /\ spawned' = spawned
  <2> DEFINE d == First(gt.todo)
             h == [gt EXCEPT !.pc = "deny", !.todo = @ \ {d}]
  <2>1. gt.todo = pending /\ gt.msg = g.msg
    BY <1>2 DEF Generator
  <2>2. d \in pending
    BY <1>3, <2>1, FirstIn
  <2>3. /\ h.pc = "deny" /\ h.todo = pending \ {d} /\ h.denied = {} /\ h.msg = g.msg
        /\ h.reply = g.reply /\ h.prologue = g.prologue
        /\ h.cancelled = g.cancelled /\ h.cancelReq = g.cancelReq
    BY <1>2, <2>1 DEF Generator
  <2>4. Others(r) /\ run'[r] = h
    BY <1>5 DEF WriteResult, Others, TypeOK
  <2>5. /\ results' = [results EXCEPT ![d] = Append(@, [msg |-> h.msg, state |-> "DENIED"])]
        /\ calls' = [cs EXCEPT ![d].state = "FINISHED"]
    BY <1>5, <2>1, <2>3 DEF WriteResult, AddToolResult, SetToolCallState
  <2> QED BY <1>1, <1>2, <1>5, <2>2, <2>3, <2>4, <2>5 DEF ResumeRun
<1>6. gt.todo # {}
  BY <1>2, <1>3 DEF Generator
<1> QED BY <1>4, <1>5, <1>6 DEF Resume, DenyRest

\* What it leaves of the calls: at most one has got its result.
ResumedCalls(r, cs) ==
    /\ Made' = Made
    /\ \A d \in Calls :
         /\ calls'[d].reply = calls[d].reply /\ calls'[d].msg = calls[d].msg
         /\ calls'[d].state # "ASKING"
         /\ \/ calls'[d] = cs[d] /\ results'[d] = results[d]
            \/ calls'[d].state = "FINISHED" /\ results'[d] # << >> /\ results[d] = << >>
         /\ d \in Made /\ results'[d] = << >> => d \in run'[r].todo \cup run'[r].denied

LEMMA ResumedFacts ==
  ASSUME TypeOK, NEW r \in Runs, NEW c \in Open, NEW ok \in BOOLEAN, NEW cs,
         cs = SetToolCallState(calls, c, Expected(ok)), ResumeRun(r, c, cs),
         ToolCallsInState(cs, "ASKING") = {}
  PROVE  /\ ResumedCalls(r, cs)
         /\ run'[r].todo \subseteq Made /\ run'[r].denied \subseteq Made
<1> DEFINE pending == PendingToolCalls(cs)
<1>1. /\ cs \in CS /\ c \in Calls /\ cs[c].state \in {"ALLOWED", "FINISHED"}
      /\ \A d \in Calls : cs[d].reply = calls[d].reply /\ cs[d].msg = calls[d].msg
      /\ \A d \in Calls : d # c => cs[d] = calls[d]
      /\ pending = {d \in Made : results[d] = << >>} /\ c \in Made
  BY AnsweredFacts
<1>2. \A d \in Calls : cs[d].state # "ASKING" /\ (cs[d].state # "none" <=> d \in Made)
  BY <1>1 DEF ToolCallsInState, Made
<1>3. CASE /\ calls' = cs /\ results' = results
           /\ run'[r].todo = AllowedCalls(cs, pending)
           /\ run'[r].denied = pending \ run'[r].todo
  <2>1. Made' = Made
    BY <1>2, <1>3 DEF Made
  <2>2. run'[r].todo \subseteq Made /\ run'[r].denied \subseteq Made
    BY <1>1, <1>3 DEF AllowedCalls
  <2> QED BY <1>1, <1>2, <1>3, <2>1, <2>2 DEF ResumedCalls
<1>4. ASSUME NEW d \in pending,
             run'[r].todo = pending \ {d}, run'[r].denied = {},
             results' = [results EXCEPT ![d] = Append(@, [msg |-> run'[r].msg, state |-> "DENIED"])],
             calls' = [cs EXCEPT ![d].state = "FINISHED"]
      PROVE  ResumedCalls(r, cs) /\ run'[r].todo \subseteq Made /\ run'[r].denied \subseteq Made
  <2>1. d \in Calls /\ d \in Made /\ results[d] = << >>
    BY <1>1 DEF Made
  <2>2. results'[d] # << >>
    BY <1>4, <2>1 DEF TypeOK, ContextTypeOK
  <2>3. /\ calls'[d].reply = cs[d].reply /\ calls'[d].msg = cs[d].msg
        /\ calls'[d].state = "FINISHED"
        /\ \A e \in Calls : e # d => calls'[e] = cs[e] /\ results'[e] = results[e]
    BY <1>1, <1>4, <2>1 DEF CS, ToolCallBlock, TypeOK, ContextTypeOK
  <2>4. Made' = Made
    BY <1>2, <2>1, <2>3 DEF Made
  <2>5. ASSUME NEW e \in Calls
        PROVE  /\ calls'[e].reply = calls[e].reply /\ calls'[e].msg = calls[e].msg
               /\ calls'[e].state # "ASKING"
               /\ \/ calls'[e] = cs[e] /\ results'[e] = results[e]
                  \/ calls'[e].state = "FINISHED" /\ results'[e] # << >> /\ results[e] = << >>
               /\ e \in Made /\ results'[e] = << >> => e \in run'[r].todo \cup run'[r].denied
    <3>1. CASE e = d
      BY <1>1, <2>1, <2>2, <2>3, <3>1
    <3>2. CASE e # d
      BY <1>1, <1>2, <1>4, <2>3, <3>2
    <3> QED BY <3>1, <3>2
  <2> QED BY <1>1, <1>4, <2>4, <2>5 DEF ResumedCalls
<1> QED BY <1>3, <1>4 DEF ResumeRun

LEMMA ResumeReply ==
  ASSUME TypeOK, ReplyInv, NEW r \in Runs, NEW c \in Open, NEW ok \in BOOLEAN, NEW cs,
         cs = SetToolCallState(calls, c, Expected(ok)), ResumeRun(r, c, cs),
         \A q \in Runs : ~Live(q), ToolCallsInState(cs, "ASKING") = {}, nreplies' = nreplies,
         decided'[c] # "none", \A d \in Calls : d # c => decided'[d] = decided[d]
  PROVE  ReplyInv' /\ Live(r)'
<1> DEFINE rep == calls[c].reply
<1>1. /\ c \in Calls /\ c \in Made /\ results[c] = << >> /\ ends[rep] = << >>
      /\ \A d \in Calls : d # c => cs[d] = calls[d]
  BY AnsweredFacts
<1>2. /\ Others(r) /\ run'[r].reply = rep /\ run'[r].prologue /\ ~run'[r].cancelled
      /\ st'.reply_id = rep /\ ends' = ends
  <2>1. [Redirected(c) EXCEPT !.status = "RUNNING"].reply_id = rep
    BY DEF Redirected, TypeOK, RunState
  <2> QED BY <2>1 DEF ResumeRun
<1>3. /\ run'[r].pc \in {"tools", "deny"} /\ (run'[r].pc = "tools" => run'[r].todo # {})
      /\ run'[r].pc = "deny" => run'[r].denied = {}
      /\ run'[r].todo \subseteq Made /\ run'[r].denied \subseteq Made
  BY ResumedFacts DEF ResumeRun
<1>4. ResumedCalls(r, cs)
  BY ResumedFacts
<1>5. \A d \in Open' : d \in Calls /\ d \in Open
  <2> SUFFICES ASSUME NEW d \in Open' PROVE d \in Calls /\ d \in Open
    OBVIOUS
  <2>1. d \in Calls /\ results'[d] = << >> /\ calls'[d].state \in {"ASKING", "ALLOWED", "FINISHED"}
        /\ ends'[calls'[d].reply] = << >>
    BY DEF Open
  <2>2. results[d] = << >> /\ calls'[d] = cs[d] /\ calls'[d].reply = calls[d].reply
    BY <1>4, <2>1 DEF ResumedCalls
  <2> QED BY <1>1, <1>2, <2>1, <2>2 DEF Open
<1>6. ASSUME NEW d \in Calls PROVE CallInv(d)'
  <2>1. CallInv(d) /\ calls'[d].state # "ASKING" /\ calls'[d].reply = calls[d].reply /\ Made' = Made
    BY <1>4 DEF ReplyInv, ResumedCalls
  <2>2. d \notin Made => results'[d] = results[d]
    BY <1>4, <2>1 DEF ResumedCalls, Made
  <2>3. results'[d] = << >> => results[d] = << >> /\ calls'[d] = cs[d]
    BY <1>4 DEF ResumedCalls
  <2>4. d # c => cs[d] = calls[d]
    BY <1>1
  <2> QED BY <1>1, <2>1, <2>2, <2>3, <2>4 DEF CallInv
<1>7. EndsInv' /\ OneOpen'
  BY <1>2, <1>4, <1>5 DEF ReplyInv, EndsInv, OneOpen, ResumedCalls
<1>8. RunInv(r)'
  <2>1. ToolCallsInState(calls, "ASKING")' = {}
    BY <1>4 DEF ResumedCalls, ToolCallsInState
  <2>2. \A d \in Open' : calls'[d].reply = rep
    BY <1>4, <1>5 DEF ReplyInv, OneOpen, ResumedCalls
  <2>3. rep \in 1..nreplies
    BY <1>1 DEF ReplyInv, CallInv
  <2>4. /\ Made' = Made
        /\ \A d \in Made' : results'[d] = << >> => d \in run'[r].todo \cup run'[r].denied
    BY <1>4 DEF ResumedCalls, Made
  <2> QED BY <1>1, <1>2, <1>3, <2>1, <2>2, <2>3, <2>4 DEF RunInv, Batch
<1>9. \A q \in Runs : Live(q)' => q = r
  BY <1>2 DEF Live, Others
<1>10. Live(r)'
  BY <1>3 DEF Live
<1> QED BY <1>6, <1>7, <1>8, <1>9, <1>10 DEF ReplyInv

\* A host that follows the protocol confirms while no run is in flight.
LEMMA ConfirmEffect ==
  ASSUME FollowsProtocol, TypeOK, ReplyInv, NEW r \in Runs, NEW c \in Calls, NEW ok \in BOOLEAN,
         Confirm(r, c, ok), NEW cs, cs = SetToolCallState(calls, c, Expected(ok))
  PROVE  /\ c \in Open /\ \A q \in Runs : ~Live(q)
         /\ decided'[c] # "none" /\ \A d \in Calls : d # c => decided'[d] = decided[d]
         /\ nreplies' = nreplies
         /\ \/ /\ ToolCallsInState(cs, "ASKING") # {} /\ calls' = cs
               /\ st' = [Redirected(c) EXCEPT !.status = "PAUSED"]
               /\ UNCHANGED <<run, results, spawned, ends>>
            \/ ToolCallsInState(cs, "ASKING") = {} /\ ResumeRun(r, c, cs)
<1>1. Polite(c, ok)
  BY DEF Confirm, FollowsProtocol
<1>2. c \in Open /\ (calls[c].state # "ASKING" => decided[c] # "none")
  BY <1>1, PoliteOpen
<1>3. \A q \in Runs : ~Live(q)
  BY <1>1 DEF Polite, Live
<1>4. decided'[c] # "none" /\ \A d \in Calls : d # c => decided'[d] = decided[d]
  BY <1>2 DEF Confirm, Answer, TypeOK
<1> QED BY <1>2, <1>3, <1>4, ResumeEffect DEF Confirm, ids

LEMMA NewReplyOpen ==
  ASSUME FollowsProtocol, LockInv, ReplyInv, NEW r \in Runs, NewReply(r)
  PROVE  (\A q \in Runs : ~Live(q)) /\ Open = {}
<1>1. \A q \in Runs : ~Live(q)
  BY RunnerAssumption DEF NewReply, LockFree, LockInv, LockHeldByRunner
<1>2. Undelivered = {} /\ ToolCallsInState(calls, "ASKING") = {}
  BY DEF NewReply, FollowsProtocol
<1>3. ASSUME NEW c \in Open PROVE FALSE
  <2>1. c \in Calls /\ CallInv(c)
    BY DEF Open, ReplyInv
  <2> QED BY <1>2, <2>1 DEF Open, CallInv, Undelivered, ToolCallsInState
<1> QED BY <1>1, <1>3

\* All but a request to cancel the task of run q is as before.
SameRun(q) ==
    /\ run'[q].pc = run[q].pc /\ run'[q].reply = run[q].reply /\ run'[q].exit = run[q].exit
    /\ run'[q].todo = run[q].todo /\ run'[q].denied = run[q].denied /\ run'[q].msg = run[q].msg
    /\ run'[q].prologue = run[q].prologue /\ run'[q].cancelled = run[q].cancelled

\* Steps of the host that touch no run in flight and no call.
LEMMA FrameReply ==
  ASSUME ReplyInv, UNCHANGED <<calls, results, ends, decided, nreplies>>, st'.reply_id = st.reply_id,
         \A q \in Runs : SameRun(q)
  PROVE  ReplyInv'
<1>1. EndsInv' /\ OneOpen' /\ \A c \in Calls : CallInv(c)'
  BY DEF ReplyInv, EndsInv, OneOpen, CallInv, Open, Made
<1>2. ASSUME NEW q \in Runs, Live(q)' PROVE RunInv(q)'
  <2>1. Live(q)
    BY <1>2 DEF Live, SameRun
  <2>2. RunInv(q)
    BY <2>1 DEF ReplyInv
  <2>3. SameRun(q)
    OBVIOUS
  <2>4. /\ Open' = Open /\ Made' = Made
        /\ ToolCallsInState(calls, "ASKING")' = ToolCallsInState(calls, "ASKING")
    BY DEF Open, Made, ToolCallsInState
  <2>5. \A c : ToAsk(q, calls, c)' <=> ToAsk(q, calls, c)
    BY <2>3 DEF ToAsk, SameRun
  <2>6. LastEnd(run[q].reply)' = LastEnd(run[q].reply)
    BY <2>3 DEF LastEnd, SameRun
  <2> QED BY <2>2, <2>3, <2>4, <2>5, <2>6 DEF RunInv, SameRun
<1> QED BY <1>1, <1>2 DEF ReplyInv

LEMMA HostReply ==
  ASSUME FollowsProtocol, TypeOK, LockInv, ReplyInv, HostStep
  PROVE  ReplyInv'
<1> USE DEF ids, history, context
<1>1. ASSUME NEW r \in Runs, NewReply(r) PROVE ReplyInv'
  <2>1. (\A q \in Runs : ~Live(q)) /\ Open = {}
    BY <1>1, NewReplyOpen
  <2>2. UNCHANGED <<calls, results, ends, decided>> /\ nreplies' = nreplies + 1
        /\ nreplies' \in Replies /\ nreplies \in Nat
    BY <1>1, ContextBounds DEF NewReply, TypeOK, Replies
  <2>3. /\ run'[r].pc = "start" /\ run'[r].reply = nreplies' /\ ~run'[r].prologue
        /\ ~run'[r].cancelled /\ st'.reply_id = nreplies' /\ Others(r)
    BY <1>1 DEF NewReply, NewGenerator, IdleGenerator, Started, FreshRunState, TypeOK, Others
  <2>4. Open' = {} /\ Made' = Made /\ ToolCallsInState(calls, "ASKING")' = {}
    BY <1>1, <2>1, <2>2 DEF Open, Made, ToolCallsInState, NewReply
  <2>5. \A c \in Calls : CallInv(c)'
    BY <2>1, <2>2, <2>4 DEF ReplyInv, CallInv
  <2>6. EndsInv' /\ OneOpen'
    BY <2>2, <2>4 DEF ReplyInv, EndsInv, OneOpen
  <2>7. ends[nreplies'] = << >>
    BY <2>2 DEF ReplyInv, EndsInv
  <2>8. RunInv(r)'
    BY <2>2, <2>3, <2>4, <2>7 DEF RunInv, Batch
  <2>9. \A q \in Runs : Live(q)' => q = r
    BY <2>1, <2>3 DEF Live, Others
  <2> QED BY <2>5, <2>6, <2>8, <2>9 DEF ReplyInv
<1>2. ASSUME NEW r \in Runs, NEW c \in Calls, NEW ok \in BOOLEAN, Confirm(r, c, ok)
      PROVE ReplyInv'
  <2> DEFINE cs == SetToolCallState(calls, c, Expected(ok))
  <2>1. /\ c \in Open /\ \A q \in Runs : ~Live(q)
        /\ decided'[c] # "none" /\ \A d \in Calls : d # c => decided'[d] = decided[d]
        /\ nreplies' = nreplies
        /\ \/ ToolCallsInState(cs, "ASKING") # {} /\ calls' = cs /\ UNCHANGED <<run, results, ends>>
           \/ ToolCallsInState(cs, "ASKING") = {} /\ ResumeRun(r, c, cs)
    BY <1>2, ConfirmEffect
  <2>2. CASE calls' = cs /\ UNCHANGED <<run, results, ends>>
    <3>1. \A q \in Runs : ~Live(q)'
      BY <2>1, <2>2 DEF Live
    <3> QED BY <2>1, <2>2, <3>1, RecordedReply
  <2>3. CASE ToolCallsInState(cs, "ASKING") = {} /\ ResumeRun(r, c, cs)
    BY <2>1, <2>3, ResumeReply
  <2> QED BY <2>1, <2>2, <2>3
<1>3. ASSUME NEW c \in Calls, NEW ok \in BOOLEAN, HostCheckpoint(c, ok) PROVE ReplyInv'
  <2>1. c \in Open
    BY <1>3 DEF HostCheckpoint, ReplyInv, CallInv
  <2>2. decided'[c] # "none" /\ \A d \in Calls : d # c => decided'[d] = decided[d]
    BY <1>3 DEF HostCheckpoint, Answer, TypeOK
  <2>3. \A q \in Runs : ~Live(q)'
    BY <1>3 DEF HostCheckpoint, Live
  <2> QED BY <1>3, <2>1, <2>2, <2>3, RecordedReply DEF HostCheckpoint
<1>4. CASE CancelNowait
  BY <1>4, FrameReply DEF CancelNowait, TypeOK, Generator, SameRun
<1>5. CASE SetCancellation
  BY <1>5, FrameReply DEF SetCancellation, TypeOK, RunState, SameRun
<1>6. CASE Crash
  <2>1. \A q \in Runs : ~Live(q)'
    BY <1>6 DEF Crash, IdleGenerator, Live
  <2>2. EndsInv' /\ OneOpen' /\ \A c \in Calls : CallInv(c)'
    BY <1>6 DEF Crash, ReplyInv, EndsInv, OneOpen, CallInv, Open, Made
  <2> QED BY <2>1, <2>2 DEF ReplyInv
<1>7. ASSUME NEW r \in Runs, HostTaskEnds(r) PROVE ReplyInv'
  BY <1>7, FrameReply DEF HostTaskEnds, TypeOK, Generator, SameRun
<1>8. ASSUME NEW r \in Runs, NEW c \in Calls, NEW ok \in BOOLEAN, ConfirmConflict(r, c, ok)
      PROVE ReplyInv'
  BY <1>8 DEF ConfirmConflict, FollowsProtocol
<1>9. ASSUME NEW r \in Runs, NEW done \in BOOLEAN, Abandon(r, done) PROVE ReplyInv'
  BY <1>9 DEF Abandon, FollowsProtocol
<1> QED BY <1>1, <1>2, <1>3, <1>4, <1>5, <1>6, <1>7, <1>8, <1>9 DEF HostStep

LEMMA ReplyCorrect == ASSUME FollowsProtocol PROVE Spec => [](TypeOK /\ LockInv /\ ReplyInv)
<1>1. Init => ReplyInv
  <2> SUFFICES ASSUME Init PROVE ReplyInv
    OBVIOUS
  <2>1. Made = {} /\ Open = {} /\ \A c \in Calls : results[c] = << >>
    BY DEF Init, ContextInit, NoCall, Made, Open
  <2>2. \A c \in Calls : CallInv(c)
    BY <2>1 DEF CallInv, Init, ContextInit, NoCall
  <2>3. EndsInv /\ \A r \in Runs : ~Live(r)
    BY DEF Init, EndsInv, IdleGenerator, Live
  <2> QED BY <2>1, <2>2, <2>3 DEF ReplyInv, OneOpen
<1>2. TypeOK /\ LockInv /\ ReplyInv /\ [Next]_vars => ReplyInv'
  <2>1. ASSUME ReplyInv, UNCHANGED vars PROVE ReplyInv'
    BY <2>1, FrameReply DEF vars, ids, history, context, SameRun
  <2> QED BY <2>1, HostReply, StepReply DEF Next
<1> QED BY <1>1, <1>2, TypeCorrect, LockInductive, PTL DEF Spec

\* ReplyEnd, of run() and _loop: a reply is announced as ended once at most, and
\* no run works on a reply that has ended.
THEOREM RepliesEndOnce == ASSUME FollowsProtocol PROVE Spec => []EndedOnce
<1>1. ReplyInv => EndedOnce
  BY DEF ReplyInv, EndsInv, RunInv, EndedOnce
<1> QED BY <1>1, ReplyCorrect, PTL

\* run() and _loop: a cancellation that reaches a run in its loop ends the
\* reply INTERRUPTED.
THEOREM CancelIsInterrupt == ASSUME FollowsProtocol PROVE Spec => []CancelInLoopInterrupts
<1>1. ReplyInv => CancelInLoopInterrupts
  BY DEF ReplyInv, RunInv, CancelInLoopInterrupts, Live
<1> QED BY <1>1, ReplyCorrect, PTL

(***************************************************************************)
(* Every call of the reply in progress is answered before the provider is  *)
(* called, if the rules never deny: a batch that is only denied is         *)
(* answered by no one (the run DenyUnpaired).                              *)
(***************************************************************************)

\* A run in its loop has answered every call of its reply but those of the
\* batch it is working on.
Paired(r) ==
    ~run[r].prologue /\ run[r].pc \notin {"ask", "end"} =>
      \A c \in Made : calls[c].reply = run[r].reply =>
        results[c] # << >> \/ (run[r].pc \in Batch /\ c \in run[r].todo)

PairedInv == \A r \in Runs : Live(r) => Paired(r)

LEMMA StepPaired ==
  ASSUME "DENY" \notin Behaviors, TypeOK, LockInv, ReplyInv, PairedInv, NEW r \in Runs, Step(r)
  PROVE  PairedInv'
<1>1. Live(r)
  BY StepLive
<1>2. RunStep(r) /\ RunInv(r) /\ Paired(r) /\ \A c \in Calls : CallInv(c)
  BY <1>1, StepReply DEF ReplyInv, PairedInv
<1>3. Others(r)
  BY <1>2 DEF RunStep, EndStep, Ended, LoopStep, Looped, AnswerStep, DenyStep, Written,
     SpawnStep, AskStep, RegatherStep, LeaveStep, Others, TypeOK
<1>4. SUFFICES ASSUME run'[r].pc \notin {"idle", "ask", "end"}, ~run'[r].prologue,
                      NEW c \in Calls, calls'[c].state # "none", calls'[c].reply = run'[r].reply
               PROVE  results'[c] # << >> \/ (run'[r].pc \in Batch /\ c \in run'[r].todo)
  <2>1. Live(r)' => Paired(r)'
    BY <1>4 DEF Paired, Made, Live
  <2>2. \A q \in Runs : Live(q)' => q = r
    BY <1>1, <1>3, OnlyOneLive
  <2> QED BY <2>1, <2>2 DEF PairedInv
<1>5. ASSUME ~run[r].prologue, run[r].pc \notin {"ask", "end"}, calls'[c] = calls[c],
             run'[r].reply = run[r].reply
      PROVE  results[c] # << >> \/ (run[r].pc \in Batch /\ c \in run[r].todo)
  BY <1>2, <1>4, <1>5 DEF Paired, Made
<1>6. CASE EndStep(r)
  BY <1>4, <1>6 DEF EndStep, Ended
<1>7. CASE LoopStep(r)
  <2>1. UNCHANGED <<calls, results>> /\ run'[r].reply = run[r].reply /\ c \in Made
    BY <1>2, <1>4, <1>7 DEF LoopStep, Looped, RunInv, Made
  <2>2. AtRest(r)
    BY <1>7 DEF LoopStep
  <2>3. CASE run[r].prologue
    BY <1>2, <2>1, <2>2, <2>3 DEF AtRest, RunInv, Batch
  <2>4. CASE ~run[r].prologue
    BY <1>5, <2>1, <2>2, <2>4 DEF AtRest, Batch
  <2> QED BY <2>3, <2>4
<1>8. CASE AnswerStep(r)
  <2>1. PICK d \in Calls, result \in {"SUCCESS", "ERROR"} :
          Written(r, d, run[r].todo, result, "result")
    BY <1>8 DEF AnswerStep
  <2>2. run[r].todo \in SUBSET Made /\ run[r].pc \in Batch
    BY <1>2, <1>8 DEF AnswerStep, RunInv
  <2>3. /\ results'[d] # << >>
        /\ c # d => calls'[c] = calls[c] /\ results'[c] = results[c]
    BY <2>1, <2>2, WrittenFacts
  <2>4. /\ run'[r].todo = run[r].todo \ {d} /\ run'[r].pc = "result"
        /\ run'[r].reply = run[r].reply /\ run'[r].prologue = run[r].prologue
    BY <2>1 DEF Written
  <2>5. ~run[r].prologue /\ run[r].pc \notin {"ask", "end"}
    BY <1>4, <2>2, <2>4 DEF Batch
  <2>6. CASE c = d
    BY <2>3, <2>6
  <2>7. CASE c # d
    <3>1. results[c] # << >> \/ (run[r].pc \in Batch /\ c \in run[r].todo)
      BY <1>5, <2>3, <2>4, <2>5, <2>7
    <3> QED BY <2>3, <2>4, <2>7, <3>1 DEF Batch
  <2> QED BY <2>6, <2>7
<1>9. CASE DenyStep(r)
  BY <1>4, <1>9 DEF DenyStep, Written
<1>10. CASE SpawnStep(r)
  <2>1. PICK batch \in SUBSET Calls :
          /\ run'[r] = [run[r] EXCEPT !.pc = "tools", !.todo = batch, !.msg = st.message_id]
          /\ \A d \in Calls : d \in batch <=> calls'[d] # calls[d]
    BY <1>10 DEF SpawnStep
  <2>2. /\ run'[r].pc = "tools" /\ run'[r].todo = batch /\ run'[r].reply = run[r].reply
        /\ run'[r].prologue = run[r].prologue
    BY <2>1 DEF TypeOK, Generator
  <2>3. run[r].pc = "llm" /\ results' = results
    BY <1>10 DEF SpawnStep
  <2>4. CASE c \in batch
    BY <2>2, <2>4 DEF Batch
  <2>5. CASE c \notin batch
    BY <1>4, <1>5, <2>1, <2>2, <2>3, <2>5 DEF Batch
  <2> QED BY <2>4, <2>5
<1>11. CASE AskStep(r)
  BY <1>4, <1>11 DEF AskStep, TypeOK, Generator
<1>12. CASE RegatherStep(r)
  <2>1. /\ run'[r].pc = "regather" /\ run'[r].todo = run[r].todo /\ run'[r].reply = run[r].reply
        /\ run'[r].prologue = run[r].prologue /\ run[r].pc = "tools" /\ UNCHANGED <<calls, results>>
    BY <1>12 DEF RegatherStep, TypeOK, Generator
  <2> QED BY <1>4, <1>5, <2>1 DEF Batch
<1>13. CASE LeaveStep(r)
  BY <1>4, <1>13 DEF LeaveStep, IdleGenerator, TypeOK
<1> QED BY <1>2, <1>6, <1>7, <1>8, <1>9, <1>10, <1>11, <1>12, <1>13 DEF RunStep

LEMMA HostPaired ==
  ASSUME FollowsProtocol, TypeOK, LockInv, ReplyInv, PairedInv, HostStep
  PROVE  PairedInv'
<1> USE DEF ids, history, context
<1>1. ASSUME \A q \in Runs : ~Live(q)' PROVE PairedInv'
  BY <1>1 DEF PairedInv
<1>2. ASSUME NEW r \in Runs, NewReply(r) PROVE PairedInv'
  <2>1. /\ \A q \in Runs : ~Live(q)
        /\ Others(r) /\ run'[r].reply = nreplies + 1 /\ calls' = calls
    BY <1>2, NewReplyOpen DEF NewReply, NewGenerator, IdleGenerator, TypeOK, Others
  <2>2. \A c \in Made' : calls'[c].reply # run'[r].reply
    BY <2>1 DEF ReplyInv, CallInv, Made, TypeOK
  <2>3. \A q \in Runs : Live(q)' => q = r
    BY <2>1 DEF Live, Others
  <2> QED BY <2>2, <2>3 DEF PairedInv, Paired
<1>3. ASSUME NEW r \in Runs, NEW c \in Calls, NEW ok \in BOOLEAN, Confirm(r, c, ok)
      PROVE PairedInv'
  <2> DEFINE cs == SetToolCallState(calls, c, Expected(ok))
  <2>1. /\ \A q \in Runs : ~Live(q)
        /\ run' = run \/ ResumeRun(r, c, cs)
    BY <1>3, ConfirmEffect
  <2>2. CASE run' = run
    BY <2>1, <2>2, <1>1 DEF Live
  <2>3. CASE ResumeRun(r, c, cs)
    <3>1. \A q \in Runs : Live(q)' => q = r
      BY <2>1, <2>3 DEF ResumeRun, Live, Others
    <3>2. run'[r].prologue
      BY <2>3 DEF ResumeRun
    <3> QED BY <3>1, <3>2 DEF PairedInv, Paired
  <2> QED BY <2>1, <2>2, <2>3
<1>4. ASSUME NEW c \in Calls, NEW ok \in BOOLEAN, HostCheckpoint(c, ok) PROVE PairedInv'
  BY <1>1, <1>4 DEF HostCheckpoint, Live
<1>5. ASSUME UNCHANGED <<calls, results>>, \A q \in Runs : SameRun(q) PROVE PairedInv'
  BY <1>5 DEF PairedInv, Paired, Live, SameRun, Made
<1>6. CASE CancelNowait
  BY <1>5, <1>6 DEF CancelNowait, TypeOK, Generator, SameRun
<1>7. CASE SetCancellation
  BY <1>5, <1>7 DEF SetCancellation, SameRun
<1>8. CASE Crash
  BY <1>1, <1>8 DEF Crash, IdleGenerator, Live
<1>9. ASSUME NEW r \in Runs, HostTaskEnds(r) PROVE PairedInv'
  BY <1>5, <1>9 DEF HostTaskEnds, TypeOK, Generator, SameRun
<1>10. ASSUME NEW r \in Runs, NEW c \in Calls, NEW ok \in BOOLEAN,
              ConfirmConflict(r, c, ok)
       PROVE  PairedInv'
  BY <1>10 DEF ConfirmConflict, FollowsProtocol
<1>11. ASSUME NEW r \in Runs, NEW done \in BOOLEAN, Abandon(r, done) PROVE PairedInv'
  BY <1>11 DEF Abandon, FollowsProtocol
<1> QED BY <1>2, <1>3, <1>4, <1>6, <1>7, <1>8, <1>9, <1>10, <1>11 DEF HostStep

\* _call_with_events and resume_execute: a provider is sent a conversation in
\* which every tool call of the reply is answered, if the rules deny no call.
THEOREM ProviderSeesAnswers ==
  ASSUME FollowsProtocol, "DENY" \notin Behaviors PROVE Spec => []PairedBeforeReasoning
<1>1. Init => PairedInv
  BY DEF Init, IdleGenerator, Live, PairedInv
<1>2. TypeOK /\ LockInv /\ ReplyInv /\ PairedInv /\ [Next]_vars => PairedInv'
  <2>1. ASSUME PairedInv, UNCHANGED vars PROVE PairedInv'
    BY <2>1 DEF PairedInv, Paired, Live, Made, Batch, vars, context
  <2> QED BY <2>1, HostPaired, StepPaired DEF Next
<1>3. ReplyInv /\ PairedInv => PairedBeforeReasoning
  <2> SUFFICES ASSUME ReplyInv, PairedInv, NEW r \in Runs, run[r].pc = "llm",
                      NEW c \in Made, calls[c].reply = st.reply_id
               PROVE  results[c] # << >>
    BY DEF PairedBeforeReasoning
  <2>1. Live(r) /\ RunInv(r) /\ Paired(r)
    BY DEF ReplyInv, PairedInv, Live
  <2> QED BY <2>1 DEF RunInv, Paired, Batch
<1> QED BY <1>1, <1>2, <1>3, ReplyCorrect, PTL DEF Spec

(***************************************************************************)
(* Paused and resumed: in a process that does not die, a run at work has   *)
(* an open root span, and with none at work the agent is paused exactly    *)
(* when a reply has an open call.                                          *)
(***************************************************************************)

BusyInv(r) ==
    /\ st.span = "open"
    /\ run[r].pc # "end" => st.status = "RUNNING"
    /\ run[r].pc = "end" => st.status # "PAUSED"
    /\ run[r].pc = "ask" => ToolCallsInState(calls, "ASKING") # {}
    /\ \A p \in 1..nreplies : ends[p] = << >> => p = run[r].reply

RestInv ==
    (\A r \in Runs : ~Live(r)) =>
      /\ Open # {} <=> st.status = "PAUSED"
      /\ st.span = "open" <=> st.status = "PAUSED"
      /\ \A p \in 1..nreplies : ends[p] = << >> => \E c \in Open : calls[c].reply = p

PauseInv == RestInv /\ \A r \in Runs : Live(r) => BusyInv(r)

\* Every kind of step but LeaveStep leaves the run in flight, on its reply, and
\* no other step ends one.
LEMMA StaysLive ==
  ASSUME TypeOK, LockInv, NEW r \in Runs, Live(r), RunInv(r), RunStep(r), ~LeaveStep(r)
  PROVE  /\ Others(r) /\ Live(r)'
         /\ run'[r].reply = run[r].reply
         /\ nreplies' = nreplies
         /\ EndStep(r) \/ ends' = ends
<1>1. CASE EndStep(r)
  BY <1>1 DEF EndStep, Ended, RunInv, Live
<1>2. CASE LoopStep(r)
  BY <1>2 DEF LoopStep, Looped, RunInv, Live
<1>3. CASE AnswerStep(r) \/ DenyStep(r)
  BY <1>3 DEF AnswerStep, DenyStep, Written, Live
<1>4. CASE SpawnStep(r)
  BY <1>4 DEF SpawnStep, Live, TypeOK, Generator
<1>5. CASE AskStep(r)
  BY <1>5 DEF AskStep, Live, TypeOK, Generator
<1>6. CASE RegatherStep(r)
  BY <1>6 DEF RegatherStep, Live, TypeOK, Generator
<1> QED BY <1>1, <1>2, <1>3, <1>4, <1>5, <1>6 DEF RunStep

LEMMA StepPause ==
  ASSUME TypeOK, LockInv, ReplyInv, PauseInv, NEW r \in Runs, Step(r)
  PROVE  PauseInv'
<1>1. Live(r)
  BY StepLive
<1>2. RunStep(r) /\ RunInv(r) /\ BusyInv(r) /\ (\A c \in Calls : CallInv(c)) /\ OneOpen
  BY <1>1, StepReply DEF ReplyInv, PauseInv
<1>3. ASSUME Others(r), Live(r)', BusyInv(r)' PROVE PauseInv'
  <2>1. \A q \in Runs : Live(q)' => q = r
    BY <1>1, <1>3, OnlyOneLive
  <2> QED BY <1>3, <2>1 DEF PauseInv, RestInv
<1>4. CASE LeaveStep(r)
  <2>1. /\ \A q \in Runs : ~Live(q)'
        /\ Open' = Open /\ ends' = ends /\ nreplies' = nreplies /\ calls' = calls
    <3>1. Others(r) /\ run'[r].pc = "idle"
      BY <1>4 DEF LeaveStep, Others, IdleGenerator, TypeOK
    <3>2. UNCHANGED <<calls, results, ends, nreplies>>
      BY <1>4 DEF LeaveStep
    <3>3. \A q \in Runs : Live(q)' => q = r
      BY <1>1, <3>1, OnlyOneLive
    <3> QED BY <3>1, <3>2, <3>3 DEF Live, Others, PauseInv, Open
  <2>2. CASE run[r].pc = "ask"
    <3>1. st' = [st EXCEPT !.status = "PAUSED"]
      BY <1>2, <1>4, <2>2 DEF LeaveStep, Finally, BusyInv, TypeOK, RunState
    <3>2. st'.status = "PAUSED" /\ st'.span = "open"
      BY <1>2, <3>1 DEF BusyInv, TypeOK, RunState
    <3>3. PICK c \in Open : calls[c].reply = run[r].reply
      BY <1>2, <2>2 DEF BusyInv, RunInv, CallInv, ToolCallsInState
    <3> QED BY <1>2, <2>1, <3>2, <3>3 DEF PauseInv, RestInv, BusyInv
  <2>3. CASE run[r].pc = "end"
    <3>1. st' = [st EXCEPT !.span = "ended"]
      BY <1>2, <1>4, <2>3 DEF LeaveStep, Finally, BusyInv
    <3>2. st'.status # "PAUSED" /\ st'.span # "open"
      BY <1>2, <2>3, <3>1 DEF BusyInv, TypeOK, RunState
    <3>3. Open = {} /\ \A p \in 1..nreplies : ends[p] # << >>
      BY <1>2, <2>3 DEF RunInv, BusyInv, Open
    <3> QED BY <2>1, <3>2, <3>3 DEF PauseInv, RestInv
  <2> QED BY <1>4, <2>2, <2>3 DEF LeaveStep
<1>5. CASE ~LeaveStep(r)
  <2>1. /\ Others(r) /\ Live(r)' /\ run'[r].reply = run[r].reply
        /\ nreplies' = nreplies /\ (EndStep(r) \/ ends' = ends)
    BY <1>1, <1>2, <1>5, StaysLive
  <2>2. CASE EndStep(r)
    <3>1. /\ run'[r].pc = "end" /\ st'.span = st.span /\ st'.status # "PAUSED"
      BY <2>2 DEF EndStep, Ended
    <3>2. \A p \in 1..nreplies : ends'[p] = << >> => ends[p] = << >>
      <4>1. PICK reason \in FinishedReason : ReplyEnd(st.reply_id, reason)
        BY <2>2 DEF EndStep, Ended
      <4>2. \A p \in Replies : ends'[p] = << >> => ends[p] = << >>
        BY <1>2, <2>2, <4>1, EndsAfter DEF ReplyInv, EndStep
      <4> QED BY <4>2, ContextBounds DEF TypeOK, Replies
    <3> QED BY <1>2, <1>3, <2>1, <3>1, <3>2 DEF BusyInv
  <2>3. CASE LoopStep(r)
    <3>1. /\ run'[r].pc \in {"hook", "llm", "stop", "hint"} /\ run[r].pc # "end"
          /\ st'.span = st.span /\ st'.status = st.status /\ ends' = ends
      BY <2>3 DEF LoopStep, Looped, AtRest
    <3> QED BY <1>2, <1>3, <2>1, <3>1 DEF BusyInv
  <2>4. CASE SpawnStep(r) \/ RegatherStep(r) \/ AnswerStep(r) \/ DenyStep(r)
    <3>1. /\ run[r].pc # "end" /\ st' = st /\ ends' = ends
      BY <2>4 DEF SpawnStep, RegatherStep, AnswerStep, DenyStep, Written, Batch
    <3>2. run'[r].pc \in Batch \cup {"deny"}
      BY <2>4 DEF SpawnStep, RegatherStep, AnswerStep, DenyStep, Written, Batch, TypeOK, Generator
    <3> QED BY <1>2, <1>3, <2>1, <3>1, <3>2 DEF BusyInv, Batch
  <2>5. CASE AskStep(r)
    <3>1. run[r].pc # "end" /\ st' = st /\ ends' = ends
      BY <2>5 DEF AskStep
    <3>2. run'[r].pc = "ask"
      BY <2>5 DEF AskStep, TypeOK, Generator
    <3>3. PICK cs \in CS, c \in Calls : calls' = [cs EXCEPT ![c].state = "ASKING"]
      BY <2>5 DEF AskStep
    <3>4. calls'[c].state = "ASKING"
      BY <3>3 DEF CS, ToolCallBlock
    <3>5. ToolCallsInState(calls, "ASKING")' # {}
      BY <3>4 DEF ToolCallsInState
    <3> QED BY <1>2, <1>3, <2>1, <3>1, <3>2, <3>5 DEF BusyInv
  <2> QED BY <1>2, <1>5, <2>2, <2>3, <2>4, <2>5 DEF RunStep
<1> QED BY <1>4, <1>5

\* The user's answer is recorded and no run starts.
LEMMA RecordedPause ==
  ASSUME TypeOK, ReplyInv, PauseInv, NEW c \in Open, NEW ok \in BOOLEAN,
         calls' = SetToolCallState(calls, c, Expected(ok)),
         \A q \in Runs : ~Live(q), UNCHANGED <<run, ends, nreplies>>, Open' = Open,
         st'.status = "PAUSED", st'.span = st.span
  PROVE  PauseInv'
<1>1. \A q \in Runs : ~Live(q)'
  BY DEF Live
<1>2. \A d \in Open : d \in Calls /\ calls'[d].reply = calls[d].reply
  BY AnsweredFacts DEF Open
<1>3. st.span = "open" /\ \A p \in 1..nreplies : ends[p] = << >> => \E d \in Open : calls[d].reply = p
  BY DEF PauseInv, RestInv
<1> QED BY <1>1, <1>2, <1>3 DEF PauseInv, RestInv

LEMMA ResumedPause ==
  ASSUME TypeOK, ReplyInv, PauseInv, NEW r \in Runs, NEW c \in Open, NEW cs,
         ResumeRun(r, c, cs), \A q \in Runs : ~Live(q), nreplies' = nreplies
  PROVE  PauseInv' /\ Live(r)' /\ \A q \in Runs : Live(q)' => q = r
<1>1. /\ Others(r) /\ run'[r].pc \in {"tools", "deny"} /\ run'[r].reply = calls[c].reply
      /\ ends' = ends
  BY DEF ResumeRun
<1>2. Live(r)' /\ \A q \in Runs : Live(q)' => q = r
  BY <1>1 DEF Live, Others
<1>3. st'.status = "RUNNING" /\ st'.span = st.span
  BY DEF ResumeRun, Redirected, TypeOK, RunState
<1>4. /\ st.span = "open"
      /\ \A p \in 1..nreplies : ends[p] = << >> => p = calls[c].reply
  BY DEF PauseInv, RestInv, ReplyInv, OneOpen
<1> QED BY <1>1, <1>2, <1>3, <1>4 DEF PauseInv, RestInv, BusyInv

LEMMA HostPause ==
  ASSUME FollowsProtocol, "crash" \notin Host, TypeOK, LockInv, ReplyInv, PauseInv, HostStep
  PROVE  PauseInv'
<1> USE DEF ids, history, context
<1>1. ASSUME NEW r \in Runs, NewReply(r) PROVE PauseInv'
  <2>1. (\A q \in Runs : ~Live(q)) /\ Open = {}
    BY <1>1, NewReplyOpen
  <2>2. /\ run'[r].pc = "start" /\ run'[r].reply = nreplies + 1 /\ Others(r)
        /\ st'.status = "RUNNING" /\ st'.span = "open"
    BY <1>1 DEF NewReply, NewGenerator, IdleGenerator, Started, FreshRunState, TypeOK, Others
  <2>3. Live(r)' /\ \A q \in Runs : Live(q)' => q = r
    BY <2>1, <2>2 DEF Live, Others
  <2>4. ends' = ends /\ nreplies' = nreplies + 1 /\ nreplies \in Nat
    BY <1>1 DEF NewReply, TypeOK
  <2>5. \A p \in 1..nreplies : ends[p] # << >>
    BY <2>1 DEF PauseInv, RestInv
  <2>6. BusyInv(r)'
    BY <2>2, <2>4, <2>5 DEF BusyInv
  <2> QED BY <2>3, <2>6 DEF PauseInv, RestInv
<1>2. ASSUME NEW r \in Runs, NEW c \in Calls, NEW ok \in BOOLEAN, Confirm(r, c, ok)
      PROVE PauseInv'
  <2> DEFINE cs == SetToolCallState(calls, c, Expected(ok))
  <2>1. /\ c \in Open /\ (\A q \in Runs : ~Live(q)) /\ nreplies' = nreplies
        /\ decided'[c] # "none" /\ \A d \in Calls : d # c => decided'[d] = decided[d]
        /\ \/ /\ calls' = cs /\ st' = [Redirected(c) EXCEPT !.status = "PAUSED"]
              /\ UNCHANGED <<run, results, ends>>
           \/ ResumeRun(r, c, cs)
    BY <1>2, ConfirmEffect
  <2>2. CASE /\ calls' = cs /\ st' = [Redirected(c) EXCEPT !.status = "PAUSED"]
             /\ UNCHANGED <<run, results, ends>>
    <3>1. \A q \in Runs : ~Live(q)'
      BY <2>1, <2>2 DEF Live
    <3>2. Open' = Open
      BY <2>1, <2>2, <3>1, RecordedReply
    <3>3. st'.status = "PAUSED" /\ st'.span = st.span
      BY <2>2 DEF Redirected, TypeOK, RunState
    <3> QED BY <2>1, <2>2, <3>2, <3>3, RecordedPause
  <2>3. CASE ResumeRun(r, c, cs)
    BY <2>1, <2>3, ResumedPause
  <2> QED BY <2>1, <2>2, <2>3
<1>3. ASSUME NEW c \in Calls, NEW ok \in BOOLEAN, HostCheckpoint(c, ok) PROVE PauseInv'
  <2>1. c \in Open /\ (\A q \in Runs : ~Live(q))
    BY <1>3 DEF HostCheckpoint, ReplyInv, CallInv, Live
  <2>2. decided'[c] # "none" /\ \A d \in Calls : d # c => decided'[d] = decided[d]
    BY <1>3 DEF HostCheckpoint, Answer, TypeOK
  <2>3. \A q \in Runs : ~Live(q)'
    BY <1>3, <2>1 DEF HostCheckpoint, Live
  <2>4. Open' = Open
    BY <1>3, <2>1, <2>2, <2>3, RecordedReply DEF HostCheckpoint
  <2>5. st.status = "PAUSED"
    BY <2>1 DEF PauseInv, RestInv
  <2> QED BY <1>3, <2>1, <2>4, <2>5, RecordedPause DEF HostCheckpoint
<1>4. ASSUME UNCHANGED <<calls, results, ends, nreplies>>, \A q \in Runs : SameRun(q),
             st'.status = st.status, st'.span = st.span
      PROVE  PauseInv'
  <2>1. /\ Open' = Open /\ ToolCallsInState(calls, "ASKING")' = ToolCallsInState(calls, "ASKING")
        /\ \A q \in Runs : Live(q)' <=> Live(q)
    BY <1>4 DEF Open, ToolCallsInState, Live, SameRun
  <2>2. ASSUME NEW q \in Runs, Live(q)' PROVE BusyInv(q)'
    BY <1>4, <2>1, <2>2 DEF PauseInv, BusyInv, SameRun
  <2> QED BY <1>4, <2>1, <2>2 DEF PauseInv, RestInv, SameRun
<1>5. CASE CancelNowait
  BY <1>4, <1>5 DEF CancelNowait, TypeOK, Generator, SameRun
<1>6. CASE SetCancellation
  BY <1>4, <1>6 DEF SetCancellation, TypeOK, RunState, SameRun
<1>7. ASSUME NEW r \in Runs, HostTaskEnds(r) PROVE PauseInv'
  BY <1>4, <1>7 DEF HostTaskEnds, TypeOK, Generator, SameRun
<1>8. ASSUME NEW r \in Runs, NEW c \in Calls, NEW ok \in BOOLEAN, ConfirmConflict(r, c, ok)
      PROVE  PauseInv'
  BY <1>8 DEF ConfirmConflict, FollowsProtocol
<1>9. ASSUME NEW r \in Runs, NEW done \in BOOLEAN, Abandon(r, done) PROVE PauseInv'
  BY <1>9 DEF Abandon, FollowsProtocol
<1>10. CASE Crash
  BY <1>10 DEF Crash
<1> QED BY <1>1, <1>2, <1>3, <1>5, <1>6, <1>7, <1>8, <1>9, <1>10 DEF HostStep

LEMMA PauseCorrect ==
  ASSUME FollowsProtocol, "crash" \notin Host
  PROVE  Spec => [](TypeOK /\ LockInv /\ ReplyInv /\ PauseInv)
<1>1. Init => PauseInv
  <2> SUFFICES ASSUME Init PROVE PauseInv
    OBVIOUS
  <2>1. Open = {} /\ nreplies = 0 /\ st.status = "IDLE" /\ st.span = "none"
    BY DEF Init, ContextInit, NoCall, Open, FreshRunState
  <2>2. \A r \in Runs : ~Live(r)
    BY DEF Init, IdleGenerator, Live
  <2> QED BY <2>1, <2>2 DEF PauseInv, RestInv
<1>2. TypeOK /\ LockInv /\ ReplyInv /\ PauseInv /\ [Next]_vars => PauseInv'
  <2>1. ASSUME PauseInv, UNCHANGED vars PROVE PauseInv'
    BY <2>1 DEF PauseInv, RestInv, BusyInv, Live, Open, ToolCallsInState,
       vars, context, ids, history
  <2> QED BY <2>1, HostPause, StepPause DEF Next
<1> QED BY <1>1, <1>2, ReplyCorrect, PTL DEF Spec

\* run() with a confirmation, and its finally block: an agent with no run in
\* flight is paused exactly when a call waits for the user's answer, or the
\* answer for a run, and then its root span is open, so that it can be resumed.
THEOREM PausedCanResume ==
  ASSUME FollowsProtocol, "crash" \notin Host PROVE Spec => []PauseIsResumable
<1>1. ReplyInv /\ PauseInv => PauseIsResumable
  <2> SUFFICES ASSUME ReplyInv, PauseInv, Quiet PROVE PauseIsResumable
    BY DEF PauseIsResumable
  <2>1. \A r \in Runs : ~Live(r)
    BY DEF Quiet, Live
  <2>2. Open = ToolCallsInState(calls, "ASKING") \cup Undelivered
    <3> SUFFICES ASSUME NEW c \in Calls
                 PROVE  c \in Open <=> calls[c].state = "ASKING" \/ c \in Undelivered
      BY DEF Open, Undelivered, ToolCallsInState
    <3> QED BY DEF ReplyInv, CallInv, Open, Undelivered
  <2> QED BY <2>1, <2>2 DEF PauseInv, RestInv, PauseIsResumable
<1> QED BY <1>1, PauseCorrect, PTL

(***************************************************************************)
(* The lifecycle: every step of the runner is a step of ReplyLifecycle, or *)
(* leaves the phase of every reply as it is.                               *)
(***************************************************************************)

phases == [p \in Replies |-> Phase(p)]

\* What the phases are, when only r may be in flight.
PhaseIs(r, p, ph) ==
    /\ p > nreplies => ph = "unborn"
    /\ p <= nreplies /\ ends[p] # << >> => ph = "ended"
    /\ p <= nreplies /\ ends[p] = << >> =>
         ph = IF Live(r) /\ run[r].reply = p THEN "running" ELSE "paused"

LEMMA PhaseOfReply ==
  ASSUME NEW r \in Runs, \A q \in Runs : Live(q) => q = r, NEW p \in Replies, nreplies \in Nat
  PROVE  PhaseIs(r, p, phases[p])
<1>1. (\E q \in Runs : Live(q) /\ run[q].reply = p) <=> Live(r) /\ run[r].reply = p
  OBVIOUS
<1>2. phases[p] = Phase(p)
  BY DEF phases
<1> QED BY <1>1, <1>2 DEF PhaseIs, Phase, Replies

LEMMA PhaseOfReplyNext ==
  ASSUME NEW r \in Runs, \A q \in Runs : Live(q)' => q = r, NEW p \in Replies, nreplies' \in Nat
  PROVE  PhaseIs(r, p, phases[p])'
<1>1. (\E q \in Runs : Live(q)' /\ run'[q].reply = p) <=> Live(r)' /\ run'[r].reply = p
  OBVIOUS
<1>2. phases'[p] = Phase(p)'
  BY DEF phases
<1> QED BY <1>1, <1>2 DEF PhaseIs, Phase, Replies

\* A reply moves to another phase and the others stay where they are.
LEMMA PhaseMoves ==
  ASSUME NEW p \in Replies, \A q \in Replies : q # p => phases'[q] = phases[q]
  PROVE  phases' = [phases EXCEPT ![p] = phases'[p]]
BY DEF phases

LEMMA PhasesSame ==
  ASSUME \A q \in Replies : phases'[q] = phases[q] PROVE phases' = phases
BY DEF phases

\* The run in flight stays so, and no reply ends.
LEMMA StaysPhase ==
  ASSUME TypeOK, NEW r \in Runs, \A q \in Runs : Live(q) => q = r,
         \A q \in Runs : Live(q)' => q = r, Live(r)' <=> Live(r),
         Live(r) => run'[r].reply = run[r].reply, UNCHANGED <<ends, nreplies>>
  PROVE  phases' = phases
<1>1. ASSUME NEW p \in Replies PROVE phases'[p] = phases[p]
  <2>1. PhaseIs(r, p, phases[p]) /\ PhaseIs(r, p, phases[p])' /\ nreplies \in Nat
    BY PhaseOfReply, PhaseOfReplyNext DEF TypeOK
  <2> QED BY <2>1 DEF PhaseIs, Replies
<1> QED BY <1>1, PhasesSame

LEMMA StepLifecycle ==
  ASSUME TypeOK, LockInv, ReplyInv, PauseInv, NEW r \in Runs, Step(r)
  PROVE  Lifecycle!Next \/ phases' = phases
<1> DEFINE p == run[r].reply
<1>1. Live(r)
  BY StepLive
<1>2. RunStep(r) /\ RunInv(r) /\ EndsInv
  BY <1>1, StepReply DEF ReplyInv
<1>3. p \in Replies /\ p <= nreplies /\ nreplies \in Nat /\ p = st.reply_id
  BY <1>2, ContextBounds DEF RunInv, TypeOK, Replies
<1>4. \A q \in Runs : Live(q) => q = r
  BY <1>1 DEF LockInv, MutualExclusion, LockHeldByRunner
<1>5. ASSUME phases[p] = "running", phases'[p] \in {"paused", "ended"},
             \A q \in Replies : q # p => phases'[q] = phases[q]
      PROVE  Lifecycle!Next
  <2>1. phases' = [phases EXCEPT ![p] = phases'[p]]
    BY <1>3, <1>5, PhaseMoves
  <2>2. Lifecycle!Pause(p) \/ Lifecycle!End(p)
    BY <1>5, <2>1 DEF Lifecycle!Pause, Lifecycle!End, Lifecycle!Move, phases
  <2> QED BY <1>3, <2>2 DEF Lifecycle!Next, Lifecycle!Leave, Replies
<1>6. CASE LeaveStep(r)
  <2>1. Others(r) /\ ~Live(r)' /\ nreplies' = nreplies /\ ends' = ends
    BY <1>6 DEF LeaveStep, Others, IdleGenerator, TypeOK, Live
  <2>2. \A q \in Runs : Live(q)' => q = r
    BY <1>1, <2>1, OnlyOneLive
  <2>3. \A q \in Replies : PhaseIs(r, q, phases[q]) /\ PhaseIs(r, q, phases[q])'
    BY <1>3, <1>4, <2>1, <2>2, PhaseOfReply, PhaseOfReplyNext
  <2>4. \A q \in Replies : q # p => phases'[q] = phases[q]
    BY <1>3, <2>1, <2>3 DEF PhaseIs, Replies
  <2>5. CASE run[r].pc = "ask"
    <3>1. phases[p] = "running" /\ phases'[p] = "paused"
      BY <1>1, <1>2, <1>3, <2>1, <2>3, <2>5 DEF PhaseIs, RunInv
    <3> QED BY <1>5, <2>4, <3>1
  <2>6. CASE run[r].pc = "end"
    <3>1. phases'[p] = phases[p]
      BY <1>2, <1>3, <2>1, <2>3, <2>6 DEF PhaseIs, RunInv
    <3> QED BY <2>4, <3>1, PhasesSame
  <2> QED BY <1>6, <2>5, <2>6 DEF LeaveStep
<1>7. CASE ~LeaveStep(r)
  <2>1. /\ Others(r) /\ Live(r)' /\ run'[r].reply = p
        /\ nreplies' = nreplies /\ (EndStep(r) \/ ends' = ends)
    BY <1>1, <1>2, <1>7, StaysLive
  <2>2. \A q \in Runs : Live(q)' => q = r
    BY <1>1, <2>1, OnlyOneLive
  <2>3. CASE ends' = ends
    BY <1>1, <1>4, <2>1, <2>2, <2>3, StaysPhase
  <2>4. CASE EndStep(r)
    <3>1. PICK reason \in FinishedReason : ReplyEnd(st.reply_id, reason)
      BY <2>4 DEF EndStep, Ended
    <3>2. ends'[p] # << >> /\ \A q \in Replies : q # p => ends'[q] = ends[q]
      BY <1>2, <1>3, <2>4, <3>1, EndsAfter DEF EndStep
    <3>3. \A q \in Replies : PhaseIs(r, q, phases[q]) /\ PhaseIs(r, q, phases[q])'
      BY <1>3, <1>4, <2>1, <2>2, PhaseOfReply, PhaseOfReplyNext
    <3>4. \A q \in Replies : q # p => phases'[q] = phases[q]
      BY <1>1, <1>3, <2>1, <3>2, <3>3 DEF PhaseIs, Replies
    <3>5. phases[p] = "running" /\ phases'[p] = "ended"
      BY <1>1, <1>2, <1>3, <2>1, <2>4, <3>2, <3>3 DEF PhaseIs, RunInv, EndStep
    <3> QED BY <1>5, <3>4, <3>5
  <2> QED BY <2>1, <2>3, <2>4
<1> QED BY <1>6, <1>7

LEMMA HostLifecycle ==
  ASSUME FollowsProtocol, "crash" \notin Host, TypeOK, LockInv, ReplyInv, PauseInv, HostStep
  PROVE  Lifecycle!Next \/ phases' = phases
<1> USE DEF ids, history, context
<1>1. ASSUME NEW r \in Runs, NewReply(r) PROVE Lifecycle!Next
  <2> DEFINE p == nreplies + 1
  <2>1. (\A q \in Runs : ~Live(q)) /\ Open = {}
    BY <1>1, NewReplyOpen
  <2>2. /\ p \in Replies /\ nreplies \in Nat /\ nreplies' = p /\ ends' = ends
        /\ run'[r].pc = "start" /\ run'[r].reply = p /\ Others(r)
    BY <1>1, ContextBounds DEF NewReply, NewGenerator, IdleGenerator, TypeOK, Others, Replies
  <2>3. Live(r)' /\ \A q \in Runs : Live(q)' => q = r
    BY <2>1, <2>2 DEF Live, Others
  <2>4. \A q \in Replies : PhaseIs(r, q, phases[q]) /\ PhaseIs(r, q, phases[q])'
    BY <2>1, <2>2, <2>3, PhaseOfReply, PhaseOfReplyNext
  <2>5. \A q \in Replies : q <= nreplies => ends[q] # << >>
    BY <2>1 DEF PauseInv, RestInv, Replies
  <2>6. ends[p] = << >>
    BY <2>2 DEF ReplyInv, EndsInv
  <2>7. \A q \in Replies : phases[q] \in {"unborn", "ended"}
    BY <2>2, <2>4, <2>5 DEF PhaseIs, Replies
  <2>8. phases[p] = "unborn" /\ phases'[p] = "running"
    BY <2>2, <2>3, <2>4, <2>6 DEF PhaseIs
  <2>9. \A q \in Replies : q # p => phases'[q] = phases[q]
    BY <2>2, <2>4, <2>5 DEF PhaseIs, Replies
  <2>10. phases' = [phases EXCEPT ![p] = phases'[p]]
    BY <2>2, <2>9, PhaseMoves
  <2>11. Lifecycle!Start(p)
    BY <2>7, <2>8, <2>10 DEF Lifecycle!Start, Lifecycle!Move, phases, Replies
  <2> QED BY <2>2, <2>11 DEF Lifecycle!Next, Replies
<1>2. ASSUME NEW r \in Runs, run' = run, UNCHANGED <<ends, nreplies>>, \A q \in Runs : ~Live(q)
      PROVE  phases' = phases
  <2>1. \A q \in Runs : ~Live(q)'
    BY <1>2 DEF Live
  <2> QED BY <1>2, <2>1, StaysPhase
<1>3. ASSUME NEW r \in Runs, NEW c \in Calls, NEW ok \in BOOLEAN, Confirm(r, c, ok)
      PROVE  Lifecycle!Next \/ phases' = phases
  <2> DEFINE cs == SetToolCallState(calls, c, Expected(ok))
             p == calls[c].reply
  <2>1. /\ c \in Open /\ (\A q \in Runs : ~Live(q)) /\ nreplies' = nreplies
        /\ \/ UNCHANGED <<run, ends>>
           \/ ResumeRun(r, c, cs)
    BY <1>3, ConfirmEffect
  <2>2. CASE UNCHANGED <<run, ends>>
    BY <1>2, <2>1, <2>2
  <2>3. CASE ResumeRun(r, c, cs)
    <3>1. Live(r)' /\ \A q \in Runs : Live(q)' => q = r
      BY <2>1, <2>3, ResumedPause
    <3>2. ends' = ends /\ run'[r].reply = p
      BY <2>3 DEF ResumeRun
    <3>3. p \in Replies /\ p <= nreplies /\ nreplies \in Nat /\ ends[p] = << >>
      BY <2>1, AnsweredFacts, ContextBounds DEF ReplyInv, CallInv, Open, Made, TypeOK, Replies
    <3>4. \A q \in Replies : PhaseIs(r, q, phases[q]) /\ PhaseIs(r, q, phases[q])'
      BY <2>1, <3>1, <3>3, PhaseOfReply, PhaseOfReplyNext
    <3>5. phases[p] = "paused" /\ phases'[p] = "running"
      BY <2>1, <3>1, <3>2, <3>3, <3>4 DEF PhaseIs
    <3>6. \A q \in Replies : phases[q] # "running" /\ (q # p => phases'[q] = phases[q])
      BY <2>1, <3>2, <3>3, <3>4 DEF PhaseIs, Replies
    <3>7. phases' = [phases EXCEPT ![p] = phases'[p]]
      BY <3>3, <3>6, PhaseMoves
    <3>8. Lifecycle!Resume(p)
      BY <3>5, <3>6, <3>7 DEF Lifecycle!Resume, Lifecycle!Move, phases, Replies
    <3> QED BY <3>3, <3>8 DEF Lifecycle!Next, Replies
  <2> QED BY <2>1, <2>2, <2>3
<1>4. ASSUME NEW c \in Calls, NEW ok \in BOOLEAN, HostCheckpoint(c, ok) PROVE phases' = phases
  BY <1>4 DEF HostCheckpoint, phases, Phase, Live
<1>5. ASSUME UNCHANGED <<ends, nreplies>>, \A q \in Runs : SameRun(q) PROVE phases' = phases
  <2>1. \A q \in Runs : (Live(q)' <=> Live(q)) /\ run'[q].reply = run[q].reply
    BY <1>5 DEF Live, SameRun
  <2>2. \A p \in Replies : Phase(p)' = Phase(p)
    BY <1>5, <2>1 DEF Phase
  <2> QED BY <2>2 DEF phases
<1>6. CASE CancelNowait
  BY <1>5, <1>6 DEF CancelNowait, TypeOK, Generator, SameRun
<1>7. CASE SetCancellation
  BY <1>5, <1>7 DEF SetCancellation, SameRun
<1>8. ASSUME NEW r \in Runs, HostTaskEnds(r) PROVE phases' = phases
  BY <1>5, <1>8 DEF HostTaskEnds, TypeOK, Generator, SameRun
<1>9. ASSUME NEW r \in Runs, NEW c \in Calls, NEW ok \in BOOLEAN, ConfirmConflict(r, c, ok)
      PROVE  FALSE
  BY <1>9 DEF ConfirmConflict, FollowsProtocol
<1>10. ASSUME NEW r \in Runs, NEW done \in BOOLEAN, Abandon(r, done) PROVE FALSE
  BY <1>10 DEF Abandon, FollowsProtocol
<1>11. CASE Crash
  BY <1>11 DEF Crash
<1> QED BY <1>1, <1>3, <1>4, <1>6, <1>7, <1>8, <1>9, <1>10, <1>11 DEF HostStep

\* run(): replies do not overlap; a running reply ends or pauses, a paused one
\* is resumed before another is started, and an ended one stays ended.
THEOREM ImplementsLifecycle ==
  ASSUME FollowsProtocol, "crash" \notin Host
  PROVE  Spec => Lifecycle!Init /\ [][Lifecycle!Next]_phases
<1>1. Init => Lifecycle!Init
  <2> SUFFICES ASSUME Init, NEW p \in Replies PROVE Phase(p) = "unborn"
    BY DEF Lifecycle!Init, Replies
  <2> QED BY DEF Init, Phase, Replies
<1>2. TypeOK /\ LockInv /\ ReplyInv /\ PauseInv /\ [Next]_vars => [Lifecycle!Next]_phases
  <2>1. ASSUME UNCHANGED vars PROVE phases' = phases
    BY <2>1 DEF phases, Phase, Live, vars, ids, history
  <2> QED BY <2>1, HostLifecycle, StepLifecycle DEF Next
<1> QED BY <1>1, <1>2, PauseCorrect, PTL DEF Spec

(***************************************************************************)
(* What is executed: with a host that cancels a run once at most, the run  *)
(* in flight has before it every call that was started and has no result,  *)
(* and none of them is taken up again.                                     *)
(***************************************************************************)

CallExec(c) ==
    /\ c \notin Made => spawned[c] = 0
    /\ calls[c].state = "ALLOWED" /\ results[c] = << >> => ends[calls[c].reply] = << >>
    /\ spawned[c] <= 1 /\ Len(results[c]) <= 1
    /\ \A i \in 1..Len(results[c]) :
         results[c][i].state # "DENIED" => results[c][i].msg = calls[c].msg

\* Call c was started and has no result.
Unfinished(c) == spawned[c] > 0 /\ results[c] = << >>

HasInHand(r, c) == run[r].pc \in Batch /\ c \in run[r].todo

\* The calls in hand have no result and are of the message their results go
\* to; the calls to deny have no result and are not allowed.
RunExec(r) ==
    LET g == run[r]
    IN  /\ g.pc \in Batch => \A c \in g.todo :
             results[c] = << >> /\ calls[c].msg = g.msg /\ calls[c].reply = g.reply
        /\ g.pc \in Batch /\ g.prologue => \A c \in g.denied :
             results[c] = << >> /\ calls[c].state # "ALLOWED" /\ c \notin g.todo
        /\ g.pc = "deny" => \A c \in g.todo :
             results[c] = << >> /\ calls[c].state # "ALLOWED"
        /\ g.pc = "regather" => ~g.cancelReq
        /\ g.pc = "llm" => g.msg = st.message_id

ExecInv ==
    /\ \A c \in Calls : CallExec(c) /\ (Unfinished(c) => \E r \in Runs : HasInHand(r, c))
    /\ \A r \in Runs : Live(r) => RunExec(r)

LEMMA LiveExec ==
  ASSUME LockInv, ReplyInv, ExecInv, NEW r \in Runs, Live(r)
  PROVE  /\ RunInv(r) /\ RunExec(r) /\ \A c \in Calls : CallInv(c) /\ CallExec(c)
         /\ \A c \in Calls : Unfinished(c) => HasInHand(r, c)
<1>1. \A q \in Runs : q # r => ~Live(q)
  BY DEF LockInv, LockHeldByRunner
<1>2. \A q \in Runs, c \in Calls : HasInHand(q, c) => Live(q)
  BY DEF HasInHand, Live, Batch
<1> QED BY <1>1, <1>2 DEF ReplyInv, ExecInv

LEMMA RestExec ==
  ASSUME ReplyInv, ExecInv, \A r \in Runs : ~Live(r)
  PROVE  \A c \in Calls : CallInv(c) /\ CallExec(c) /\ ~Unfinished(c)
BY DEF ExecInv, ReplyInv, HasInHand, Live, Batch

LEMMA ExecInvBy ==
  ASSUME NEW r \in Runs, \A q \in Runs : Live(q)' => q = r,
         \A c \in Calls : CallExec(c)' /\ (Unfinished(c)' => HasInHand(r, c)'),
         Live(r)' => RunExec(r)'
  PROVE  ExecInv'
BY DEF ExecInv

LEMMA IdleExecBy ==
  ASSUME \A q \in Runs : ~Live(q)', \A c \in Calls : CallExec(c)' /\ ~Unfinished(c)'
  PROVE  ExecInv'
BY DEF ExecInv

\* A call whose result stays what it is.
LEMMA CallExecKept ==
  ASSUME NEW c \in Calls, CallInv(c), CallExec(c), results'[c] = results[c],
         c \in Made => calls'[c].msg = calls[c].msg,
         calls'[c].state = "ALLOWED" /\ results[c] = << >> => ends'[calls'[c].reply] = << >>,
         spawned'[c] <= 1, c \notin Made' => spawned'[c] = 0
  PROVE  CallExec(c)'
<1>1. CASE c \in Made
  BY <1>1 DEF CallExec
<1>2. CASE c \notin Made
  <2>1. results'[c] = << >> /\ Len(results'[c]) = 0
    BY <1>2 DEF CallInv
  <2> QED BY <2>1 DEF CallExec
<1> QED BY <1>1, <1>2

\* Of an extended context, in which no reply ends and no tool is started.
LEMMA ExtendedExec ==
  ASSUME NEW r \in Runs, NEW cs, Extended(r, cs), NEW c \in Calls, CallInv(c), CallExec(c),
         UNCHANGED <<results, spawned, ends>>,
         calls'[c].msg = cs[c].msg, calls'[c].reply = cs[c].reply,
         calls'[c].state = cs[c].state \/ (calls'[c].state = "ASKING" /\ cs[c].state # "none")
  PROVE  CallExec(c)'
<1>1. CASE cs[c] = calls[c]
  BY <1>1, CallExecKept DEF CallExec, Made
<1>2. CASE calls[c].state = "none" /\ cs[c].state = "PENDING"
  BY <1>2, CallExecKept DEF CallExec, Made
<1> QED BY <1>1, <1>2 DEF Extended

LEMMA LoopExec ==
  ASSUME TypeOK, LockInv, ReplyInv, ExecInv, NEW r \in Runs, Live(r), LoopStep(r)
  PROVE  ExecInv'
<1>1. /\ RunInv(r) /\ RunExec(r) /\ \A c \in Calls : CallInv(c) /\ CallExec(c)
      /\ \A c \in Calls : Unfinished(c) => HasInHand(r, c)
  BY LiveExec
<1>2. /\ UNCHANGED <<results, spawned, ends>> /\ Others(r) /\ Extended(r, calls')
      /\ run'[r].pc \in {"hook", "llm", "stop", "hint"} /\ ~run'[r].prologue
      /\ run'[r].pc = "llm" => run'[r].msg = st'.message_id
  BY DEF LoopStep, Looped
<1>3. \A c \in Calls : ~HasInHand(r, c)
  BY DEF LoopStep, AtRest, HasInHand, Batch
<1>4. \A c \in Calls : CallExec(c)' /\ ~Unfinished(c)'
  BY <1>1, <1>2, <1>3, ExtendedExec DEF Unfinished
<1>5. RunExec(r)'
  BY <1>2 DEF RunExec, Batch
<1>6. \A q \in Runs : Live(q)' => q = r
  BY <1>2, OnlyOneLive
<1> QED BY <1>4, <1>5, <1>6, ExecInvBy

LEMMA EndExec ==
  ASSUME TypeOK, LockInv, ReplyInv, ExecInv, NEW r \in Runs, Live(r), EndStep(r)
  PROVE  ExecInv'
<1>1. /\ RunInv(r) /\ RunExec(r) /\ \A c \in Calls : CallInv(c) /\ CallExec(c)
      /\ \A c \in Calls : Unfinished(c) => HasInHand(r, c)
  BY LiveExec
<1>2. /\ UNCHANGED <<results, spawned>> /\ Others(r) /\ Extended(r, calls')
      /\ run[r].pc \notin {"ask", "end"} /\ run'[r].pc = "end"
  BY DEF EndStep, Ended
<1>3. \A c \in Calls : ~HasInHand(r, c)
  BY <1>1 DEF EndStep, HasInHand, Batch, RunExec
<1>4. PICK reason \in FinishedReason : ReplyEnd(st.reply_id, reason)
  BY DEF EndStep, Ended
<1>5. \A p \in Replies : p # st.reply_id => ends'[p] = ends[p]
  BY <1>1, <1>2, <1>4, EndsAfter DEF ReplyInv
<1>6. ASSUME NEW c \in Calls PROVE CallExec(c)' /\ ~Unfinished(c)'
  <2>1. ~Unfinished(c) /\ CallInv(c) /\ CallExec(c)
    BY <1>1, <1>3
  <2>2. \/ calls'[c] = calls[c]
        \/ calls[c].state = "none" /\ calls'[c].state = "PENDING"
    BY <1>2 DEF Extended
  <2>3. ASSUME calls[c].state = "ALLOWED", results[c] = << >>
        PROVE  ends'[calls[c].reply] = << >>
    <3>1. ends[calls[c].reply] = << >> /\ c \in Open /\ c \in Made
      BY <2>1, <2>3 DEF CallExec, Open, Made
    <3>2. run[r].prologue
      BY <1>1, <1>2, <3>1 DEF RunInv
    <3>3. c \in run[r].todo \cup run[r].denied
      BY <1>1, <1>2, <2>3, <3>1, <3>2 DEF RunInv
    <3>4. /\ run[r].pc \in Batch \cup {"deny"} /\ ~HasInHand(r, c)
          /\ run[r].pc = "deny" => run[r].denied = {}
      BY <1>1, <1>2, <1>3, <3>2 DEF RunInv
    <3> QED BY <1>1, <2>3, <3>2, <3>3, <3>4 DEF RunExec, HasInHand
  <2>4. CallExec(c)'
    <3>1. CASE calls'[c] = calls[c]
      BY <1>2, <2>1, <2>3, <3>1, CallExecKept DEF CallExec, Made
    <3>2. CASE calls[c].state = "none" /\ calls'[c].state = "PENDING"
      BY <1>2, <2>1, <3>2, CallExecKept DEF CallExec, Made
    <3> QED BY <2>2, <3>1, <3>2
  <2> QED BY <1>2, <2>1, <2>4 DEF Unfinished
<1>7. RunExec(r)'
  BY <1>2 DEF RunExec, Batch
<1>8. \A q \in Runs : Live(q)' => q = r
  BY <1>2, OnlyOneLive
<1> QED BY <1>6, <1>7, <1>8, ExecInvBy

\* A call without a result gets one.
LEMMA WrittenExec ==
  ASSUME TypeOK, NEW r \in Runs, NEW c \in Calls, NEW todo \in SUBSET Made, NEW result, NEW at,
         Written(r, c, todo, result, at), results[c] = << >>,
         result # "DENIED" => run'[r].msg = calls[c].msg,
         \A d \in Calls : CallInv(d) /\ CallExec(d)
  PROVE  /\ \A d \in Calls : CallExec(d)' /\ (Unfinished(d)' => Unfinished(d) /\ d # c)
         /\ \A d \in Calls : d # c => calls'[d] = calls[d] /\ results'[d] = results[d]
<1>1. /\ Made' = Made /\ results'[c] # << >> /\ calls'[c].msg = calls[c].msg
      /\ calls'[c].state = "FINISHED"
      /\ \A d \in Calls : d # c => calls'[d] = calls[d] /\ results'[d] = results[d]
      /\ spawned' = spawned /\ ends' = ends
  BY WrittenFacts DEF Written
<1>2. results'[c] = << [msg |-> run'[r].msg, state |-> result] >>
  BY DEF Written, TypeOK, ContextTypeOK
<1>3. Len(results'[c]) = 1 /\ results'[c][1].msg = run'[r].msg /\ results'[c][1].state = result
  BY <1>2
<1>4. CallExec(c)'
  BY <1>1, <1>3 DEF CallExec
<1>5. ASSUME NEW d \in Calls, d # c PROVE CallExec(d)'
  BY <1>1, <1>5, CallExecKept DEF CallExec
<1> QED BY <1>1, <1>4, <1>5 DEF Unfinished

LEMMA AnswerExec ==
  ASSUME TypeOK, LockInv, ReplyInv, ExecInv, NEW r \in Runs, Live(r), AnswerStep(r)
  PROVE  ExecInv'
<1>1. /\ RunInv(r) /\ RunExec(r) /\ \A c \in Calls : CallInv(c) /\ CallExec(c)
      /\ \A c \in Calls : Unfinished(c) => HasInHand(r, c)
  BY LiveExec
<1>2. PICK c \in Calls, result \in {"SUCCESS", "ERROR"} :
        Written(r, c, run[r].todo, result, "result")
  BY DEF AnswerStep
<1>3. /\ run[r].pc \in Batch /\ run[r].todo \in SUBSET Made /\ c \in run[r].todo
      /\ run'[r].denied = run[r].denied /\ run'[r].msg = run[r].msg
  BY <1>1, <1>2 DEF AnswerStep, RunInv, Written
<1>4. /\ Others(r) /\ run'[r].pc = "result" /\ run'[r].todo = run[r].todo \ {c}
      /\ run'[r].reply = run[r].reply /\ run'[r].prologue = run[r].prologue
  BY <1>2 DEF Written
<1>5. results[c] = << >> /\ calls[c].msg = run[r].msg
  BY <1>1, <1>3 DEF RunExec
<1>6. /\ \A d \in Calls : CallExec(d)' /\ (Unfinished(d)' => Unfinished(d) /\ d # c)
      /\ \A d \in Calls : d # c => calls'[d] = calls[d] /\ results'[d] = results[d]
  BY <1>1, <1>2, <1>3, <1>5, WrittenExec
<1>7. \A d \in Calls : Unfinished(d)' => HasInHand(r, d)'
  BY <1>1, <1>4, <1>6 DEF HasInHand, Batch
<1>8. RunExec(r)'
  <2>1. \A d \in run'[r].todo : d \in Calls /\ d # c /\ d \in run[r].todo
    BY <1>3, <1>4 DEF Made
  <2>2. \A d \in run'[r].todo : results'[d] = << >> /\ calls'[d].msg = run'[r].msg
                                /\ calls'[d].reply = run'[r].reply
    BY <1>1, <1>3, <1>4, <1>6, <2>1 DEF RunExec
  <2>3. run[r].prologue => \A d \in run'[r].denied : d \in Calls /\ d # c /\ d \in run[r].denied
    BY <1>1, <1>3 DEF RunInv, RunExec, Made
  <2>4. run'[r].prologue => \A d \in run'[r].denied :
          results'[d] = << >> /\ calls'[d].state # "ALLOWED" /\ d \notin run'[r].todo
    BY <1>1, <1>3, <1>4, <1>6, <2>1, <2>3 DEF RunExec
  <2> QED BY <1>4, <2>2, <2>4 DEF RunExec
<1>9. \A q \in Runs : Live(q)' => q = r
  BY <1>4, OnlyOneLive
<1> QED BY <1>6, <1>7, <1>8, <1>9, ExecInvBy

LEMMA DenyExec ==
  ASSUME TypeOK, LockInv, ReplyInv, ExecInv, NEW r \in Runs, Live(r), DenyStep(r)
  PROVE  ExecInv'
<1>1. /\ RunInv(r) /\ RunExec(r) /\ \A c \in Calls : CallInv(c) /\ CallExec(c)
      /\ \A c \in Calls : Unfinished(c) => HasInHand(r, c)
  BY LiveExec
<1>2. PICK c \in Calls, todo \in SUBSET Made :
        /\ Written(r, c, todo, "DENIED", "deny")
        /\ run[r].prologue
        /\ \/ run[r].pc = "deny" /\ todo = run[r].todo
           \/ run[r].pc = "result" /\ run[r].todo = {} /\ todo = run[r].denied
  <2>1. run[r].pc = "deny" => run[r].todo \in SUBSET Made
    BY <1>1 DEF RunInv
  <2>2. run[r].prologue /\ run[r].pc = "result" => run[r].denied \in SUBSET Made
    BY <1>1 DEF RunInv, Batch
  <2> QED BY <2>1, <2>2 DEF DenyStep
<1>3. /\ Others(r) /\ c \in todo /\ run'[r].pc = "deny" /\ run'[r].todo = todo \ {c}
  BY <1>2 DEF Written
<1>4. \A d \in todo : d \in Calls /\ results[d] = << >> /\ calls[d].state # "ALLOWED"
  BY <1>1, <1>2 DEF RunExec, Batch, Made
<1>5. /\ \A d \in Calls : CallExec(d)' /\ (Unfinished(d)' => Unfinished(d) /\ d # c)
      /\ \A d \in Calls : d # c => calls'[d] = calls[d] /\ results'[d] = results[d]
  BY <1>1, <1>2, <1>3, <1>4, WrittenExec
<1>6. \A d \in Calls : ~Unfinished(d)'
  BY <1>1, <1>2, <1>5 DEF HasInHand, Batch
<1>7. RunExec(r)'
  BY <1>3, <1>4, <1>5 DEF RunExec, Batch
<1>8. \A q \in Runs : Live(q)' => q = r
  BY <1>3, OnlyOneLive
<1> QED BY <1>5, <1>6, <1>7, <1>8, ExecInvBy

LEMMA SpawnExec ==
  ASSUME TypeOK, LockInv, ReplyInv, ExecInv, NEW r \in Runs, Live(r), SpawnStep(r)
  PROVE  ExecInv' /\ \A c \in Made : spawned'[c] = spawned[c]
<1>1. /\ RunInv(r) /\ RunExec(r) /\ \A c \in Calls : CallInv(c) /\ CallExec(c)
      /\ \A c \in Calls : Unfinished(c) => HasInHand(r, c)
  BY LiveExec
<1>2. PICK batch \in SUBSET Calls :
        /\ batch # {} /\ batch \cap Made = {}
        /\ run'[r] = [run[r] EXCEPT !.pc = "tools", !.todo = batch, !.msg = st.message_id]
        /\ Extended(r, calls') /\ \A c \in Calls : c \in batch <=> calls'[c] # calls[c]
        /\ spawned' = [c \in Calls |-> IF c \in batch THEN Bump(spawned[c]) ELSE spawned[c]]
  BY DEF SpawnStep
<1>3. /\ run[r].pc = "llm" /\ Others(r) /\ UNCHANGED <<st, results, ends>>
  BY DEF SpawnStep
<1>4. /\ run'[r].pc = "tools" /\ run'[r].todo = batch /\ run'[r].reply = st.reply_id
      /\ run'[r].msg = st.message_id /\ ~run'[r].prologue
  BY <1>1, <1>2, <1>3 DEF TypeOK, Generator, RunInv, Batch
<1>5. \A c \in Calls : ~Unfinished(c) /\ (c \notin batch => spawned'[c] = spawned[c])
  BY <1>1, <1>2, <1>3 DEF HasInHand, Batch
<1>6. \A c \in batch : /\ c \in Calls /\ c \notin Made /\ calls'[c].state = "PENDING"
                       /\ calls'[c].reply = st.reply_id /\ calls'[c].msg = st.message_id
                       /\ results'[c] = << >> /\ spawned'[c] = 1
  <2> SUFFICES ASSUME NEW c \in batch
               PROVE  /\ c \in Calls /\ c \notin Made /\ calls'[c].state = "PENDING"
                      /\ calls'[c].reply = st.reply_id /\ calls'[c].msg = st.message_id
                      /\ results'[c] = << >> /\ spawned'[c] = 1
    OBVIOUS
  <2>1. c \in Calls /\ c \notin Made /\ calls'[c] # calls[c] /\ run[r].msg = st.message_id
    BY <1>1, <1>2, <1>3 DEF RunExec
  <2>2. /\ calls'[c].state = "PENDING" /\ calls'[c].reply = st.reply_id
        /\ calls'[c].msg = st.message_id
    BY <1>2, <2>1 DEF Extended
  <2>3. results'[c] = << >> /\ spawned[c] = 0
    BY <1>1, <1>3, <2>1 DEF CallInv, CallExec
  <2>4. spawned'[c] = 1
    BY <1>2, <2>1, <2>3 DEF Bump
  <2> QED BY <2>1, <2>2, <2>3, <2>4
<1>7. ASSUME NEW c \in Calls PROVE CallExec(c)' /\ (Unfinished(c)' => HasInHand(r, c)')
  <2>1. CASE c \in batch
    <3>1. CallExec(c)'
      BY <1>1, <1>3, <1>6, <2>1, CallExecKept DEF Made
    <3> QED BY <1>4, <2>1, <3>1 DEF HasInHand, Batch
  <2>2. CASE c \notin batch
    <3>1. calls'[c] = calls[c] /\ spawned'[c] = spawned[c] /\ CallExec(c) /\ CallInv(c)
      BY <1>1, <1>2, <1>5, <2>2
    <3>2. CallExec(c)'
      BY <1>3, <3>1, CallExecKept DEF CallExec, Made
    <3> QED BY <1>3, <1>5, <3>1, <3>2 DEF Unfinished
  <2> QED BY <2>1, <2>2
<1>8. RunExec(r)'
  BY <1>4, <1>6 DEF RunExec, Batch
<1>9. \A q \in Runs : Live(q)' => q = r
  BY <1>3, OnlyOneLive
<1>10. \A c \in Made : spawned'[c] = spawned[c]
  BY <1>2, <1>5 DEF Made
<1> QED BY <1>7, <1>8, <1>9, <1>10, ExecInvBy

LEMMA AskExec ==
  ASSUME TypeOK, LockInv, ReplyInv, ExecInv, NEW r \in Runs, Live(r), AskStep(r)
  PROVE  ExecInv'
<1>1. /\ RunInv(r) /\ RunExec(r) /\ \A c \in Calls : CallInv(c) /\ CallExec(c)
      /\ \A c \in Calls : Unfinished(c) => HasInHand(r, c)
  BY LiveExec
<1>2. PICK cs \in CS, todo \in SUBSET Calls, c \in Calls :
      /\ c \in todo /\ \A d \in todo : ToAsk(r, cs, d)
      /\ \/ run[r].pc = "llm" /\ Extended(r, cs)
         \/ run[r].pc = "ask" /\ cs = calls
      /\ Others(r)
      /\ run'[r] = [run[r] EXCEPT !.pc = "ask", !.todo = todo \ {c}]
      /\ calls' = [cs EXCEPT ![c].state = "ASKING"]
      /\ UNCHANGED <<st, results, ends, decided, spawned, nreplies>>
  BY DEF AskStep
<1>3. run'[r].pc = "ask" /\ Extended(r, cs)
  BY <1>2 DEF TypeOK, Generator, Extended
<1>4. /\ calls'[c].state = "ASKING" /\ calls'[c].reply = cs[c].reply /\ calls'[c].msg = cs[c].msg
      /\ cs[c].state = "PENDING"
      /\ \A d \in Calls : d # c => calls'[d] = cs[d]
  BY <1>2 DEF CS, ToolCallBlock, ToAsk
<1>5. \A d \in Calls : CallExec(d)'
  BY <1>1, <1>2, <1>3, <1>4, ExtendedExec
<1>6. \A d \in Calls : ~Unfinished(d)'
  BY <1>1, <1>2 DEF HasInHand, Batch, Unfinished
<1>7. RunExec(r)'
  BY <1>3 DEF RunExec, Batch
<1>8. \A q \in Runs : Live(q)' => q = r
  BY <1>2, OnlyOneLive
<1> QED BY <1>5, <1>6, <1>7, <1>8, ExecInvBy

LEMMA RegatherExec ==
  ASSUME TypeOK, LockInv, ReplyInv, ExecInv, NEW r \in Runs, Live(r), RegatherStep(r)
  PROVE  ExecInv'
<1>1. /\ RunInv(r) /\ RunExec(r) /\ \A c \in Calls : CallInv(c) /\ CallExec(c)
      /\ \A c \in Calls : Unfinished(c) => HasInHand(r, c)
  BY LiveExec
<1>2. Others(r) /\ run[r].pc = "tools" /\ UNCHANGED <<st, calls, results, ends, spawned>>
  BY DEF RegatherStep
<1>3. /\ run'[r].pc = "regather" /\ run'[r].todo = run[r].todo /\ run'[r].reply = run[r].reply
      /\ run'[r].prologue = run[r].prologue /\ run'[r].denied = run[r].denied
      /\ run'[r].msg = run[r].msg /\ ~run'[r].cancelReq
  BY DEF RegatherStep, TypeOK, Generator
<1>4. \A c \in Calls : CallExec(c)'
  BY <1>1, <1>2 DEF CallExec, Made
<1>5. \A c \in Calls : Unfinished(c)' => HasInHand(r, c)'
  BY <1>1, <1>2, <1>3 DEF Unfinished, HasInHand, Batch
<1>6. RunExec(r)'
  BY <1>1, <1>2, <1>3 DEF RunExec, Batch
<1>7. \A q \in Runs : Live(q)' => q = r
  BY <1>2, OnlyOneLive
<1> QED BY <1>4, <1>5, <1>6, <1>7, ExecInvBy

LEMMA LeaveExec ==
  ASSUME TypeOK, LockInv, ReplyInv, ExecInv, NEW r \in Runs, Live(r), LeaveStep(r)
  PROVE  ExecInv'
<1>1. /\ \A c \in Calls : CallExec(c)
      /\ \A c \in Calls : Unfinished(c) => HasInHand(r, c)
  BY LiveExec
<1>2. /\ Others(r) /\ ~Live(r)' /\ UNCHANGED <<calls, results, ends, spawned>>
      /\ run[r].pc \in {"ask", "end"}
  BY DEF LeaveStep, Others, IdleGenerator, Live, TypeOK
<1>3. \A q \in Runs : ~Live(q)'
  BY <1>2, OnlyOneLive
<1>4. \A c \in Calls : CallExec(c)' /\ ~Unfinished(c)'
  BY <1>1, <1>2 DEF CallExec, Made, Unfinished, HasInHand, Batch
<1> QED BY <1>3, <1>4, IdleExecBy

LEMMA StepExec ==
  ASSUME TypeOK, LockInv, ReplyInv, ExecInv, NEW r \in Runs, Step(r)
  PROVE  ExecInv' /\ \A c \in Made : spawned'[c] = spawned[c]
<1>1. Live(r) /\ RunStep(r)
  BY StepReply
<1>2. SpawnStep(r) \/ spawned' = spawned
  BY <1>1 DEF RunStep, EndStep, LoopStep, LeaveStep, AskStep, RegatherStep, AnswerStep,
     DenyStep, Written
<1> QED BY <1>1, <1>2, LoopExec, EndExec, AnswerExec, DenyExec, SpawnExec, AskExec,
           RegatherExec, LeaveExec DEF RunStep

\* The user's answer is recorded and no run starts.
LEMMA RecordedExec ==
  ASSUME TypeOK, ReplyInv, ExecInv, NEW c \in Open, NEW ok \in BOOLEAN,
         calls' = SetToolCallState(calls, c, Expected(ok)), \A q \in Runs : ~Live(q),
         UNCHANGED <<run, results, ends, spawned>>
  PROVE  ExecInv'
<1>1. /\ c \in Calls /\ c \in Made /\ ends[calls[c].reply] = << >>
      /\ calls'[c].state \in {"ALLOWED", "FINISHED"}
      /\ \A d \in Calls : calls'[d].reply = calls[d].reply /\ calls'[d].msg = calls[d].msg
      /\ \A d \in Calls : d # c => calls'[d] = calls[d]
  BY AnsweredFacts
<1>2. \A d \in Calls : CallInv(d) /\ CallExec(d) /\ ~Unfinished(d)
  BY RestExec
<1>3. ASSUME NEW d \in Calls PROVE CallExec(d)'
  <2>1. CASE d = c
    BY <1>1, <1>2, <2>1, CallExecKept DEF CallExec, Made
  <2>2. CASE d # c
    BY <1>1, <1>2, <2>2, CallExecKept DEF CallExec, Made
  <2> QED BY <2>1, <2>2
<1>4. \A d \in Calls : ~Unfinished(d)'
  BY <1>2 DEF Unfinished
<1>5. \A q \in Runs : ~Live(q)'
  BY DEF Live
<1> QED BY <1>3, <1>4, <1>5, IdleExecBy

\* resume_execute starts the calls the user allowed and answers for those it
\* did not: none of them was started before, nor is of a reply that has ended.
LEMMA ResumedExec ==
  ASSUME TypeOK, ReplyInv, ExecInv, NEW r \in Runs, NEW c \in Open, NEW ok \in BOOLEAN, NEW cs,
         cs = SetToolCallState(calls, c, Expected(ok)), ResumeRun(r, c, cs),
         \A q \in Runs : ~Live(q)
  PROVE  /\ ExecInv'
         /\ \A d \in Made : ends[calls[d].reply] # << >> => spawned'[d] = spawned[d]
<1> DEFINE pending == PendingToolCalls(cs)
           allowed == AllowedCalls(cs, pending)
<1>1. /\ cs \in CS /\ c \in Calls /\ c \in Made /\ ends[calls[c].reply] = << >>
      /\ \A d \in Calls : cs[d].reply = calls[d].reply /\ cs[d].msg = calls[d].msg
      /\ \A d \in Calls : d # c => cs[d] = calls[d]
      /\ pending = {d \in Made : results[d] = << >>}
  BY AnsweredFacts
<1>2. \A d \in Calls : CallInv(d) /\ CallExec(d) /\ ~Unfinished(d)
  BY RestExec
<1>3. /\ Others(r) /\ ends' = ends /\ run'[r].reply = calls[c].reply /\ run'[r].prologue
      /\ ~run'[r].cancelReq
  BY DEF ResumeRun
<1>4. \A q \in Runs : Live(q)' => q = r
  BY <1>3 DEF Live, Others
<1>5. ASSUME NEW d \in allowed
      PROVE  /\ d \in Calls /\ d \in Made /\ results[d] = << >> /\ spawned[d] = 0
             /\ cs[d].msg = calls[c].msg /\ cs[d].reply = calls[c].reply
             /\ ends[calls[d].reply] = << >>
  <2>1. d \in Calls /\ d \in Made /\ results[d] = << >> /\ cs[d].state = "ALLOWED"
    BY <1>1 DEF AllowedCalls, Made
  <2>2. ends[calls[d].reply] = << >> /\ (d # c => calls[d].state = "ALLOWED")
    BY <1>1, <1>2, <2>1 DEF CallExec
  <2>3. d \in Open
    BY <2>1, <2>2 DEF Open
  <2>4. spawned[d] = 0
    BY <1>2, <2>1 DEF Unfinished, TypeOK
  <2> QED BY <1>1, <2>1, <2>2, <2>3, <2>4 DEF ReplyInv, OneOpen
<1>6. ASSUME NEW d \in Calls
      PROVE  (d \in Made <=> cs[d].state # "none")
             /\ (cs[d].state = "ALLOWED" /\ results[d] = << >> => ends[cs[d].reply] = << >>)
  <2>1. CASE d = c
    BY <1>1, <2>1, AnsweredFacts
  <2>2. CASE d # c
    BY <1>1, <1>2, <2>2 DEF Made, CallExec
  <2> QED BY <2>1, <2>2
<1>7. CASE /\ run'[r].pc = "tools" /\ run'[r].todo = allowed
           /\ run'[r].denied = pending \ run'[r].todo /\ run'[r].msg = calls[c].msg
           /\ calls' = cs /\ results' = results
           /\ spawned' = [d \in Calls |-> IF d \in run'[r].todo THEN Bump(spawned[d])
                                                               ELSE spawned[d]]
  <2>1. Made' = Made
    BY <1>6, <1>7 DEF Made
  <2>2. ASSUME NEW d \in Calls PROVE CallExec(d)' /\ (Unfinished(d)' => HasInHand(r, d)')
    <3>1. CASE d \in allowed
      <4>1. spawned'[d] = 1
        BY <1>5, <1>7, <3>1 DEF Bump
      <4>2. CallExec(d)'
        BY <1>1, <1>2, <1>3, <1>5, <1>6, <1>7, <2>1, <3>1, <4>1, CallExecKept
      <4> QED BY <1>7, <3>1, <4>2 DEF HasInHand, Batch
    <3>2. CASE d \notin allowed
      <4>1. spawned'[d] = spawned[d]
        BY <1>7, <3>2
      <4>2. CallExec(d)'
        BY <1>1, <1>2, <1>3, <1>6, <1>7, <2>1, <4>1, CallExecKept DEF CallExec
      <4> QED BY <1>2, <1>7, <4>1, <4>2 DEF Unfinished
    <3> QED BY <3>1, <3>2
  <2>3. RunExec(r)'
    <3>1. \A d \in run'[r].todo : /\ results'[d] = << >> /\ calls'[d].msg = run'[r].msg
                                  /\ calls'[d].reply = run'[r].reply
      BY <1>3, <1>5, <1>7
    <3>2. \A d \in run'[r].denied :
            results'[d] = << >> /\ calls'[d].state # "ALLOWED" /\ d \notin run'[r].todo
      BY <1>1, <1>7 DEF AllowedCalls
    <3> QED BY <1>3, <1>7, <3>1, <3>2 DEF RunExec
  <2>4. \A d \in Made : ends[calls[d].reply] # << >> => spawned'[d] = spawned[d]
    BY <1>5, <1>7 DEF Made
  <2> QED BY <1>4, <2>2, <2>3, <2>4, ExecInvBy
<1>8. ASSUME NEW e \in pending,
             run'[r].pc = "deny", run'[r].denied = {}, allowed = {}, spawned' = spawned,
             run'[r].todo = pending \ {e},
             results' = [results EXCEPT ![e] = Append(@, [msg |-> run'[r].msg, state |-> "DENIED"])],
             calls' = [cs EXCEPT ![e].state = "FINISHED"]
      PROVE  /\ ExecInv'
             /\ \A d \in Made : ends[calls[d].reply] # << >> => spawned'[d] = spawned[d]
  <2>1. e \in Calls /\ e \in Made /\ results[e] = << >>
    BY <1>1 DEF Made
  <2>2. /\ calls'[e].state = "FINISHED"
        /\ \A d \in Calls : d # e => calls'[d] = cs[d] /\ results'[d] = results[d]
    BY <1>1, <1>8, <2>1 DEF CS, ToolCallBlock, TypeOK, ContextTypeOK
  <2>3. results'[e] = << [msg |-> run'[r].msg, state |-> "DENIED"] >>
    BY <1>8, <2>1 DEF TypeOK, ContextTypeOK
  <2>4. Len(results'[e]) = 1 /\ results'[e][1].state = "DENIED" /\ results'[e] # << >>
    BY <2>3
  <2>5. Made' = Made
    BY <1>6, <2>1, <2>2 DEF Made
  <2>6. ASSUME NEW d \in Calls PROVE CallExec(d)' /\ ~Unfinished(d)'
    <3>1. CASE d = e
      BY <1>2, <1>8, <2>1, <2>2, <2>4, <2>5, <3>1 DEF CallExec, Unfinished
    <3>2. CASE d # e
      <4>1. CallExec(d)'
        BY <1>1, <1>2, <1>3, <1>6, <1>8, <2>2, <2>5, <3>2, CallExecKept DEF CallExec
      <4> QED BY <1>2, <1>8, <2>2, <3>2, <4>1 DEF Unfinished
    <3> QED BY <3>1, <3>2
  <2>7. \A d \in pending : d \in Calls /\ results[d] = << >> /\ cs[d].state # "ALLOWED"
    BY <1>1, <1>8 DEF AllowedCalls, Made
  <2>8. RunExec(r)'
    BY <1>8, <2>2, <2>7 DEF RunExec, Batch
  <2> QED BY <1>4, <1>8, <2>6, <2>8, ExecInvBy
<1> QED BY <1>7, <1>8 DEF ResumeRun

\* Steps of the host that touch no run in flight and no call.
LEMMA FrameExec ==
  ASSUME ExecInv, UNCHANGED <<calls, results, ends, spawned>>, st'.message_id = st.message_id,
         \A q \in Runs : SameRun(q) /\ (run[q].pc = "regather" => run'[q].cancelReq = run[q].cancelReq)
  PROVE  ExecInv'
<1>1. ASSUME NEW c \in Calls
      PROVE  CallExec(c)' /\ (Unfinished(c)' => \E q \in Runs : HasInHand(q, c)')
  <2>1. CallExec(c)' /\ (Unfinished(c)' <=> Unfinished(c))
    BY DEF ExecInv, CallExec, Made, Unfinished
  <2>2. \A q \in Runs : HasInHand(q, c)' <=> HasInHand(q, c)
    BY DEF HasInHand, SameRun
  <2> QED BY <2>1, <2>2 DEF ExecInv
<1>2. ASSUME NEW q \in Runs, Live(q)' PROVE RunExec(q)'
  <2>1. RunExec(q) /\ SameRun(q)
    BY <1>2 DEF ExecInv, Live, SameRun
  <2> QED BY <2>1 DEF RunExec, SameRun
<1> QED BY <1>1, <1>2 DEF ExecInv

LEMMA HostExec ==
  ASSUME FollowsProtocol, "cancelTwice" \notin Host, TypeOK, LockInv, ReplyInv, ExecInv, HostStep
  PROVE  /\ ExecInv'
         /\ \A d \in Made : ends[calls[d].reply] # << >> => spawned'[d] <= spawned[d]
<1> USE DEF ids, history, context
<1> DEFINE NoNewTool == \A d \in Made : ends[calls[d].reply] # << >> => spawned'[d] <= spawned[d]
<1>1. ASSUME spawned' = spawned PROVE NoNewTool
  BY <1>1 DEF TypeOK, Made
<1>2. ASSUME NEW r \in Runs, NewReply(r) PROVE ExecInv' /\ NoNewTool
  <2>1. \A q \in Runs : ~Live(q)
    BY <1>2, NewReplyOpen
  <2>2. run'[r].pc = "start" /\ Others(r) /\ UNCHANGED <<calls, results, ends, spawned>>
    BY <1>2 DEF NewReply, NewGenerator, IdleGenerator, TypeOK, Others
  <2>3. \A q \in Runs : Live(q)' => q = r
    BY <2>1, <2>2 DEF Live, Others
  <2>4. \A c \in Calls : CallExec(c) /\ ~Unfinished(c)
    BY <2>1, RestExec
  <2>5. \A c \in Calls : CallExec(c)' /\ ~Unfinished(c)'
    BY <2>2, <2>4 DEF CallExec, Unfinished, Made
  <2>6. RunExec(r)'
    BY <2>2 DEF RunExec, Batch
  <2> QED BY <1>1, <2>2, <2>3, <2>5, <2>6, ExecInvBy
<1>3. ASSUME NEW r \in Runs, NEW c \in Calls, NEW ok \in BOOLEAN, Confirm(r, c, ok)
      PROVE  ExecInv' /\ NoNewTool
  <2> DEFINE cs == SetToolCallState(calls, c, Expected(ok))
  <2>1. /\ c \in Open /\ (\A q \in Runs : ~Live(q))
        /\ \/ calls' = cs /\ UNCHANGED <<run, results, spawned, ends>>
           \/ ResumeRun(r, c, cs)
    BY <1>3, ConfirmEffect
  <2>2. CASE calls' = cs /\ UNCHANGED <<run, results, spawned, ends>>
    BY <1>1, <2>1, <2>2, RecordedExec
  <2>3. CASE ResumeRun(r, c, cs)
    <3>1. /\ ExecInv'
          /\ \A d \in Made : ends[calls[d].reply] # << >> => spawned'[d] = spawned[d]
      BY <2>1, <2>3, ResumedExec
    <3> QED BY <3>1 DEF TypeOK, Made
  <2> QED BY <2>1, <2>2, <2>3
<1>4. ASSUME NEW c \in Calls, NEW ok \in BOOLEAN, HostCheckpoint(c, ok) PROVE ExecInv' /\ NoNewTool
  <2>1. c \in Open /\ (\A q \in Runs : ~Live(q))
    BY <1>4 DEF HostCheckpoint, ReplyInv, CallInv, Live
  <2>2. /\ calls' = SetToolCallState(calls, c, Expected(ok))
        /\ UNCHANGED <<run, results, ends, spawned>>
    BY <1>4 DEF HostCheckpoint
  <2> QED BY <1>1, <2>1, <2>2, RecordedExec
<1>5. CASE CancelNowait
  <2>1. /\ UNCHANGED <<st, calls, results, ends, spawned>> /\ run[runTask].pc # "regather"
        /\ run' = [run EXCEPT ![runTask].cancelReq = TRUE]
    BY <1>5 DEF CancelNowait
  <2>2. \A q \in Runs : SameRun(q) /\ (run[q].pc = "regather" => run'[q].cancelReq = run[q].cancelReq)
    BY <2>1 DEF TypeOK, Generator, SameRun
  <2> QED BY <1>1, <2>1, <2>2, FrameExec
<1>6. CASE SetCancellation
  BY <1>1, <1>6, FrameExec DEF SetCancellation, TypeOK, RunState, SameRun
<1>7. ASSUME NEW r \in Runs, HostTaskEnds(r) PROVE ExecInv' /\ NoNewTool
  BY <1>1, <1>7, FrameExec DEF HostTaskEnds, TypeOK, Generator, SameRun
<1>8. CASE Crash
  <2>1. /\ UNCHANGED <<calls, results, ends>> /\ \A c \in Calls : spawned'[c] = 0
        /\ \A q \in Runs : ~Live(q)'
    BY <1>8 DEF Crash, IdleGenerator, Live
  <2>2. \A c \in Calls : CallExec(c)' /\ ~Unfinished(c)'
    BY <2>1 DEF ExecInv, CallExec, Unfinished, Made
  <2>3. NoNewTool
    BY <2>1 DEF TypeOK, Made
  <2> QED BY <2>1, <2>2, <2>3, IdleExecBy
<1>9. ASSUME NEW r \in Runs, NEW c \in Calls, NEW ok \in BOOLEAN, ConfirmConflict(r, c, ok)
      PROVE  FALSE
  BY <1>9 DEF ConfirmConflict, FollowsProtocol
<1>10. ASSUME NEW r \in Runs, NEW done \in BOOLEAN, Abandon(r, done) PROVE FALSE
  BY <1>10 DEF Abandon, FollowsProtocol
<1> QED BY <1>2, <1>3, <1>4, <1>5, <1>6, <1>7, <1>8, <1>9, <1>10 DEF HostStep

LEMMA NextExec ==
  ASSUME FollowsProtocol, "cancelTwice" \notin Host, TypeOK, LockInv, ReplyInv, ExecInv, [Next]_vars
  PROVE  /\ ExecInv'
         /\ \A d \in Made : ends[calls[d].reply] # << >> => spawned'[d] <= spawned[d]
<1>1. CASE UNCHANGED vars
  <2>1. ExecInv'
    BY <1>1, FrameExec DEF vars, context, history, SameRun
  <2> QED BY <1>1, <2>1 DEF vars, history, TypeOK, Made
<1>2. CASE HostStep
  BY <1>2, HostExec
<1>3. ASSUME NEW r \in Runs, Step(r)
      PROVE  /\ ExecInv'
             /\ \A d \in Made : ends[calls[d].reply] # << >> => spawned'[d] <= spawned[d]
  <2>1. ExecInv' /\ \A d \in Made : spawned'[d] = spawned[d]
    BY <1>3, StepExec
  <2> QED BY <2>1 DEF TypeOK, Made
<1> QED BY <1>1, <1>2, <1>3 DEF Next

LEMMA ExecCorrect ==
  ASSUME FollowsProtocol, "cancelTwice" \notin Host
  PROVE  Spec => [](TypeOK /\ LockInv /\ ReplyInv /\ ExecInv)
<1>1. Init => ExecInv
  <2> SUFFICES ASSUME Init PROVE ExecInv
    OBVIOUS
  <2>1. \A q \in Runs : ~Live(q)
    BY DEF Init, IdleGenerator, Live
  <2>2. \A c \in Calls : CallExec(c) /\ ~Unfinished(c)
    BY DEF Init, ContextInit, NoCall, CallExec, Unfinished
  <2> QED BY <2>1, <2>2 DEF ExecInv
<1>2. TypeOK /\ LockInv /\ ReplyInv /\ ExecInv /\ [Next]_vars => ExecInv'
  BY NextExec
<1> QED BY <1>1, <1>2, ReplyCorrect, PTL DEF Spec

\* _call_with_events and resume_execute: in a process a tool call is executed
\* once at most, and it is answered once at most, however its batch is asked
\* about, resumed or cancelled.
THEOREM ToolsRunOnce ==
  ASSUME FollowsProtocol, "cancelTwice" \notin Host PROVE Spec => []AtMostOnce
<1>1. ExecInv => AtMostOnce
  BY DEF ExecInv, CallExec, AtMostOnce
<1> QED BY <1>1, ExecCorrect, PTL

\* append_tool_result: what a tool that ran returned is stored in the message
\* that made the call, also after messages were injected and replies resumed.
THEOREM ResultsInOwner ==
  ASSUME FollowsProtocol, "cancelTwice" \notin Host PROVE Spec => []ExecutedResultInOwner
<1>1. ExecInv => ExecutedResultInOwner
  BY DEF ExecInv, CallExec, ExecutedResultInOwner
<1> QED BY <1>1, ExecCorrect, PTL

\* resume_execute: a call of a reply that has ended is never started.
THEOREM EndedRunsNoTool ==
  ASSUME FollowsProtocol, "cancelTwice" \notin Host PROVE Spec => NoToolAfterEnd
<1>1. TypeOK /\ LockInv /\ ReplyInv /\ ExecInv /\ [Next]_vars =>
        [\A c \in Made : ends[calls[c].reply] # << >> => spawned'[c] <= spawned[c]]_vars
  BY NextExec
<1> QED BY <1>1, ExecCorrect, PTL DEF Spec, NoToolAfterEnd

=============================================================================
