------------------------------ MODULE Decision ------------------------------
(***************************************************************************)
(* RunState (agent/runner/_state.py) and decide(), the pure function of    *)
(* agent/runner/react_runner.py that picks the next action of the loop.    *)
(*                                                                         *)
(* A RunState keeps what decide() and the run's bookkeeping read: status,  *)
(* iteration, empty_retries, in_finalization, the current coordinates      *)
(* reply_id and message_id, the root trace span, and the three entries of  *)
(* runtime_context the core uses, max_iterations (the constant),           *)
(* continuation_count and the host's cancellation event.                   *)
(***************************************************************************)
EXTENDS Integers

CONSTANTS MaxIterations,            \* runtime_context["max_iterations"]
          MaxContinuations,         \* runtime_context["max_continuations"]
          MAX_EMPTY_RESPONSE_RETRIES

ASSUME DecisionBounds ==
    /\ MaxIterations \in Nat
    /\ MaxContinuations \in Nat
    /\ MAX_EMPTY_RESPONSE_RETRIES \in Nat

RunStatus == {"IDLE", "RUNNING", "PAUSED", "COMPLETED", "ERROR", "CANCELLED"}

FinishedReason == {"COMPLETED", "INTERRUPTED", "ERROR", "EXCEED_MAX_ITERS"}

\* TurnResult as decide() reads it; "none" is prev = None.
TurnResult == {"none", "error", "tools", "text", "empty"}

RunState(R, M) ==
    [status: RunStatus, iteration: Nat, empty_retries: Nat,
     in_finalization: BOOLEAN, reply_id: R, message_id: M,
     span: {"none", "open", "ended"},
     continuation_count: Nat, cancellation: BOOLEAN]

\* The RunState of a new ReActRunner.
FreshRunState ==
    [status |-> "IDLE", iteration |-> 0, empty_retries |-> 0,
     in_finalization |-> FALSE, reply_id |-> 0, message_id |-> 0,
     span |-> "none", continuation_count |-> 0, cancellation |-> FALSE]

\* RunState.start(), the root span and the ids _prepare_new_reply gives it.
Started(r, m) ==
    [FreshRunState EXCEPT !.status = "RUNNING", !.span = "open",
                          !.reply_id = r, !.message_id = m]

\* Mutation of StatusOf: the finished reason is taken for the status.
StatusUnmapped(reason) == reason

\* _finalize
StatusOf(reason) ==
    CASE reason = "INTERRUPTED" -> "CANCELLED"
      [] reason = "ERROR"       -> "ERROR"
      [] OTHER                  -> "COMPLETED"

Finalize(s, reason) == [s EXCEPT !.status = StatusOf(reason)]

Decision == [action: {"Reasoning", "Acting", "Exit"}, reason: FinishedReason \cup {"-"},
             hint: BOOLEAN]

Reasoning(hint) == [action |-> "Reasoning", reason |-> "-", hint |-> hint]
Acting          == [action |-> "Acting", reason |-> "-", hint |-> FALSE]
Exit(reason)    == [action |-> "Exit", reason |-> reason, hint |-> FALSE]

RetriesLeft(s) == s.empty_retries < MAX_EMPTY_RESPONSE_RETRIES

\* decide(state, prev): the action ...
Decide(s, prev) ==
    CASE prev = "error" -> Exit("ERROR")
      [] prev = "tools" -> Acting
      [] prev = "text"  -> Exit("COMPLETED")
      [] prev = "empty" /\ s.in_finalization -> Exit("ERROR")
      [] prev = "empty" /\ ~s.in_finalization -> Reasoning(~RetriesLeft(s))
      [] OTHER -> IF s.iteration >= MaxIterations
                    THEN Exit("EXCEED_MAX_ITERS") ELSE Reasoning(FALSE)

\* Mutation of Decided: the forced finalization is not remembered.
DecidedNoFinal(s, prev) ==
    IF prev = "empty" /\ RetriesLeft(s) THEN [s EXCEPT !.empty_retries = @ + 1] ELSE s

\* ... and the state it leaves: an empty response uses up a retry, or enters
\* the forced finalization when none is left.
Decided(s, prev) ==
    IF prev = "empty" /\ ~s.in_finalization
      THEN IF RetriesLeft(s) THEN [s EXCEPT !.empty_retries = @ + 1]
                             ELSE [s EXCEPT !.in_finalization = TRUE]
      ELSE s

=============================================================================
