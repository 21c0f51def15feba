------------------------- MODULE PermissionEngine --------------------------
(***************************************************************************)
(* permission/_engine.py: the decision about one tool call, a pure         *)
(* function of the call, the rules and the default behaviour, which live   *)
(* in AgentState.permission_context and are edited by the host.            *)
(*                                                                         *)
(* What re.fullmatch and str() answer are parameters: Text[v] is str(v),   *)
(* Fullmatch[p] the texts pattern p matches, Invalid the patterns that re  *)
(* refuses to compile.                                                     *)
(***************************************************************************)
EXTENDS Integers, Sequences

CONSTANTS Tools, Names, Values, Texts, Patterns, Ids, Priorities,
          Text, Fullmatch, Invalid,
          Wildcard,     \* tool_name "*"
          Absent,       \* the request has no such argument
          NoPattern,    \* the rule has no pattern for the argument
          NoRule,       \* rule_id of a decision no rule made
          MaxRules      \* bound: rules in the list

ASSUME EngineAssumption ==
    /\ Text \in [Values -> Texts]
    /\ Fullmatch \in [Patterns -> SUBSET Texts]
    /\ Invalid \subseteq Patterns
    /\ Priorities \subseteq Int
    /\ Absent \notin Values /\ NoPattern \notin Patterns /\ NoRule \notin Ids
    /\ MaxRules \in Nat

PermissionBehavior == {"ALLOW", "DENY", "ASK"}

PermissionRequest == [tool_name: Tools, arguments: [Names -> Values \cup {Absent}]]

PermissionRule ==
    [id: Ids, tool_name: Tools \cup {Wildcard},
     argument_regex: [Names -> Patterns \cup {NoPattern}],
     behavior: PermissionBehavior, priority: Priorities, enabled: BOOLEAN]

PermissionDecision == [behavior: PermissionBehavior, rule_id: Ids \cup {NoRule}]

-----------------------------------------------------------------------------

\* matches(): a pattern that does not compile, or whose argument is missing,
\* is a pattern that does not match.
Matches(rule, request) ==
    /\ rule.enabled
    /\ rule.tool_name \in {Wildcard, request.tool_name}
    /\ \A n \in Names : rule.argument_regex[n] # NoPattern =>
         /\ request.arguments[n] # Absent
         /\ rule.argument_regex[n] \notin Invalid
         /\ Text[request.arguments[n]] \in Fullmatch[rule.argument_regex[n]]

\* Positions in the list of the rules that match.
Matched(request, rules) == {i \in 1..Len(rules) : Matches(rules[i], request)}

\* Mutation of Candidates: the lowest priority wins.
CandidatesLowest(request, rules) ==
    {i \in Matched(request, rules) :
       \A j \in Matched(request, rules) : rules[i].priority <= rules[j].priority}

\* ... and of those with the highest priority among them.
Candidates(request, rules) ==
    {i \in Matched(request, rules) :
       \A j \in Matched(request, rules) : rules[j].priority <= rules[i].priority}

\* Mutation of Conflict: the first of the candidates decides.
ConflictIgnored(request, rules) == FALSE

Conflict(request, rules) ==
    \E i, j \in Candidates(request, rules) : rules[i].behavior # rules[j].behavior

Winner(request, rules) ==
    CHOOSE i \in Candidates(request, rules) : \A j \in Candidates(request, rules) : i <= j

\* Mutation of Evaluate: a conflict falls back on the default.
EvaluateConflictDefault(request, rules, default) ==
    IF Matched(request, rules) = {} \/ Conflict(request, rules)
      THEN [behavior |-> default, rule_id |-> NoRule]
      ELSE [behavior |-> rules[Winner(request, rules)].behavior,
            rule_id |-> rules[Winner(request, rules)].id]

\* PermissionEngine.evaluate
Evaluate(request, rules, default) ==
    IF Matched(request, rules) = {}
      THEN [behavior |-> default, rule_id |-> NoRule]
      ELSE IF Conflict(request, rules)
        THEN [behavior |-> "DENY", rule_id |-> NoRule]
        ELSE [behavior |-> rules[Winner(request, rules)].behavior,
              rule_id |-> rules[Winner(request, rules)].id]

-----------------------------------------------------------------------------
(* The permission_context and the host that edits it.                      *)

VARIABLES permission_rules, default_behavior

vars == <<permission_rules, default_behavior>>

Init ==
    /\ permission_rules = << >>
    /\ default_behavior \in PermissionBehavior

AddRule(rule) ==
    /\ Len(permission_rules) < MaxRules
    /\ permission_rules' = Append(permission_rules, rule)
    /\ UNCHANGED default_behavior

SetEnabled(i, on) ==
    /\ permission_rules' = [permission_rules EXCEPT ![i].enabled = on]
    /\ UNCHANGED default_behavior

\* A new rule is enabled, the default of the model.
Next ==
    \/ \E rule \in PermissionRule : rule.enabled /\ AddRule(rule)
    \/ \E i \in 1..Len(permission_rules), on \in BOOLEAN : SetEnabled(i, on)

Spec == Init /\ [][Next]_vars

-----------------------------------------------------------------------------
Decision(request) == Evaluate(request, permission_rules, default_behavior)

\* The rules are rules, and every call gets one of the three answers.
TypeOK ==
    /\ permission_rules \in Seq(PermissionRule)
    /\ default_behavior \in PermissionBehavior
    /\ \A q \in PermissionRequest : Decision(q) \in PermissionDecision

Orders(n) == {p \in [1..n -> 1..n] : \A i, j \in 1..n : p[i] = p[j] => i = j}

\* The order in which the host keeps its rules makes no difference: at equal
\* priority no rule shadows another.
OrderIrrelevant ==
    \A q \in PermissionRequest : \A p \in Orders(Len(permission_rules)) :
      Evaluate(q, [i \in 1..Len(permission_rules) |-> permission_rules[p[i]]],
               default_behavior).behavior = Decision(q).behavior

\* A decision names the rule it comes from, and no rule that matches and says
\* otherwise has its priority or a higher one.
DecisionExplained ==
    \A q \in PermissionRequest : Decision(q).rule_id # NoRule =>
      \E i \in Matched(q, permission_rules) :
        /\ permission_rules[i].id = Decision(q).rule_id
        /\ permission_rules[i].behavior = Decision(q).behavior
        /\ \A j \in Matched(q, permission_rules) :
             permission_rules[j].behavior # Decision(q).behavior =>
               permission_rules[j].priority < permission_rules[i].priority

\* The list new is the list old with DENY rules appended or switched on.
MoreDeny(old, new) ==
    /\ Len(old) <= Len(new)
    /\ \A i \in 1..Len(new) :
         \/ i <= Len(old) /\ new[i] = old[i]
         \/ /\ new[i].behavior = "DENY"
            /\ i <= Len(old) => new[i] = [old[i] EXCEPT !.enabled = TRUE]

\* A DENY rule more, or one that is switched on, never lets through a call that
\* was not allowed before, whatever its priority and whatever it conflicts with.
DenyNeverAllows ==
    [][\A q \in PermissionRequest :
         MoreDeny(permission_rules, permission_rules') /\ Decision(q).behavior # "ALLOW"
         => Decision(q)'.behavior # "ALLOW"]_vars

=============================================================================
