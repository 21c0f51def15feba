---------------------- MODULE PermissionEngine_proofs ----------------------
(***************************************************************************)
(* The decision is well defined, explained by its rule, independent of the *)
(* order of the rules, and never loosened by a DENY rule: for every set of *)
(* tools, rules, patterns and priorities.                                  *)
(***************************************************************************)
EXTENDS PermissionEngine, FiniteSetTheorems, FunctionTheorems, WellFoundedInduction, TLAPS

Less == {p \in Nat \X Nat : p[1] < p[2]}

LEMMA LessWellFounded == IsWellFoundedOn(Less, Nat)
<1>1. Less = OpToRel(<, Nat)
  BY DEF Less, OpToRel
<1> QED BY <1>1, NatLessThanWellFounded

LEMMA MatchedInRules ==
  ASSUME NEW q, NEW rules \in Seq(PermissionRule)
  PROVE  /\ Matched(q, rules) \subseteq 1..Len(rules)
         /\ Candidates(q, rules) \subseteq Matched(q, rules)
         /\ \A i \in Matched(q, rules) :
              /\ rules[i] \in PermissionRule
              /\ rules[i].priority \in Int
              /\ rules[i].behavior \in PermissionBehavior
              /\ rules[i].id \in Ids
<1>1. Matched(q, rules) \subseteq 1..Len(rules)
  BY DEF Matched
<1>2. Candidates(q, rules) \subseteq Matched(q, rules)
  BY DEF Candidates
<1>3. \A i \in 1..Len(rules) : rules[i] \in PermissionRule
  OBVIOUS
<1>4. \A x \in PermissionRule : x.priority \in Int /\ x.behavior \in PermissionBehavior
                                /\ x.id \in Ids
  BY EngineAssumption DEF PermissionRule
<1> QED BY <1>1, <1>2, <1>3, <1>4

\* Among the rules that match, some have the highest priority: a rule with the
\* fewest rules above it has none.
LEMMA SomeCandidate ==
  ASSUME NEW q, NEW rules \in Seq(PermissionRule), Matched(q, rules) # {}
  PROVE  Candidates(q, rules) # {}
<1> DEFINE M == Matched(q, rules)
           Above(i) == {j \in M : rules[j].priority > rules[i].priority}
           Aboves == {Above(i) : i \in M}
<1>1. IsFiniteSet(M)
  <2>1. Len(rules) \in Int /\ M \in SUBSET (1..Len(rules))
    BY MatchedInRules
  <2>2. IsFiniteSet(1..Len(rules))
    BY <2>1, FS_Interval
  <2> QED BY <2>1, <2>2, FS_Subset
<1>2. Aboves \subseteq FiniteSubsetsOf(M) /\ Aboves # {}
  <2>1. \A i \in M : Above(i) \in SUBSET M
    OBVIOUS
  <2>2. \A i \in M : IsFiniteSet(Above(i))
    BY <1>1, <2>1, FS_Subset
  <2> QED BY <2>1, <2>2 DEF FiniteSubsetsOf
<1>3. PICK A \in Aboves : \A B \in Aboves : ~ (<<B, A>> \in StrictSubsetOrdering(M))
  BY <1>2, FS_StrictSubsetOrderingWellFounded, WFMin
<1>4. PICK i \in M : A = Above(i)
  BY <1>3
<1>5. \A k \in M : rules[k].priority \in Int
  BY MatchedInRules
<1>6. Above(i) = {}
  <2> SUFFICES ASSUME NEW j \in Above(i) PROVE FALSE
    OBVIOUS
  <2>1. j \in M /\ i \in M
    OBVIOUS
  <2>2. Above(j) \in SUBSET M /\ Above(i) \in SUBSET M /\ Above(j) \in Aboves
    BY <2>1
  <2>3. Above(j) \subseteq Above(i) /\ j \notin Above(j)
    BY <1>5, <2>1
  <2>4. <<Above(j), Above(i)>> \in StrictSubsetOrdering(M)
    BY <2>2, <2>3 DEF StrictSubsetOrdering
  <2> QED BY <1>3, <1>4, <2>2, <2>4
<1>7. \A j \in M : rules[j].priority <= rules[i].priority
  BY <1>5, <1>6
<1> QED BY <1>7 DEF Candidates

LEMMA WinnerIsCandidate ==
  ASSUME NEW q, NEW rules \in Seq(PermissionRule), Matched(q, rules) # {}
  PROVE  Winner(q, rules) \in Candidates(q, rules)
<1> DEFINE C == Candidates(q, rules)
<1>1. C # {} /\ C \subseteq Nat
  BY SomeCandidate, MatchedInRules
<1>2. PICK x \in C : \A y \in C : ~ (<<y, x>> \in Less)
  BY <1>1, LessWellFounded, WFMin
<1>3. \A y \in C : x <= y
  <2> SUFFICES ASSUME NEW y \in C PROVE x <= y
    OBVIOUS
  <2>1. <<y, x>> \in Nat \X Nat /\ x \in Nat /\ y \in Nat
    BY <1>1
  <2> QED BY <1>2, <2>1 DEF Less
<1> QED BY <1>3 DEF Winner

\* What a rule that decides looks like.
LEMMA DecidedByRule ==
  ASSUME NEW q, NEW rules \in Seq(PermissionRule), NEW d,
         Matched(q, rules) # {}, ~Conflict(q, rules)
  PROVE  \A i \in Candidates(q, rules) :
           Evaluate(q, rules, d).behavior = rules[i].behavior
<1> TAKE i \in Candidates(q, rules)
<1>1. Winner(q, rules) \in Candidates(q, rules)
  BY WinnerIsCandidate
<1>2. rules[Winner(q, rules)].behavior = rules[i].behavior
  BY <1>1 DEF Conflict
<1> QED BY <1>2 DEF Evaluate

LEMMA EvaluateType ==
  ASSUME NEW q, NEW rules \in Seq(PermissionRule), NEW d \in PermissionBehavior
  PROVE  Evaluate(q, rules, d) \in PermissionDecision
<1>1. CASE Matched(q, rules) = {}
  BY <1>1 DEF Evaluate, PermissionDecision
<1>2. CASE Matched(q, rules) # {} /\ Conflict(q, rules)
  BY <1>2 DEF Evaluate, PermissionDecision, PermissionBehavior
<1>3. CASE Matched(q, rules) # {} /\ ~Conflict(q, rules)
  <2>1. Winner(q, rules) \in Matched(q, rules)
    BY <1>3, WinnerIsCandidate, MatchedInRules
  <2>2. /\ rules[Winner(q, rules)].behavior \in PermissionBehavior
        /\ rules[Winner(q, rules)].id \in Ids
    BY <2>1, MatchedInRules
  <2> QED BY <1>3, <2>2 DEF Evaluate, PermissionDecision
<1> QED BY <1>1, <1>2, <1>3

-----------------------------------------------------------------------------
\* Every step keeps the list a list of rules.

RulesOK ==
    permission_rules \in Seq(PermissionRule) /\ default_behavior \in PermissionBehavior

LEMMA RulesStep ==
  ASSUME RulesOK, [Next]_vars
  PROVE  RulesOK'
<1> USE DEF RulesOK
<1>1. ASSUME NEW rule \in PermissionRule, AddRule(rule)
      PROVE  permission_rules' \in Seq(PermissionRule)
  BY <1>1 DEF AddRule
<1>2. ASSUME NEW i \in 1..Len(permission_rules), NEW on \in BOOLEAN, SetEnabled(i, on)
      PROVE  permission_rules' \in Seq(PermissionRule)
  <2>1. permission_rules[i] \in PermissionRule
    OBVIOUS
  <2>2. [permission_rules[i] EXCEPT !.enabled = on] \in PermissionRule
    BY <2>1 DEF PermissionRule
  <2>3. permission_rules' =
          [permission_rules EXCEPT ![i] = [permission_rules[i] EXCEPT !.enabled = on]]
    BY <1>2 DEF SetEnabled
  <2> QED BY <2>2, <2>3
<1>3. CASE UNCHANGED vars
  BY <1>3 DEF vars
<1> QED BY <1>1, <1>2, <1>3 DEF Next, AddRule, SetEnabled

LEMMA RulesAlways ==
  Spec => []RulesOK
<1>1. Init => RulesOK
  BY DEF Init, RulesOK
<1> QED BY <1>1, RulesStep, PTL DEF Spec

\* Every call gets one of the three answers, whatever the rules are.
THEOREM DecisionTyped == Spec => []TypeOK
<1>1. RulesOK => TypeOK
  BY EvaluateType DEF RulesOK, TypeOK, Decision
<1> QED BY <1>1, RulesAlways, PTL

-----------------------------------------------------------------------------
\* A decision that names a rule is that rule's, and no rule as high disagrees.
THEOREM DecisionsExplained == Spec => []DecisionExplained
<1>1. ASSUME RulesOK, NEW q \in PermissionRequest, Decision(q).rule_id # NoRule
      PROVE  \E i \in Matched(q, permission_rules) :
               /\ permission_rules[i].id = Decision(q).rule_id
               /\ permission_rules[i].behavior = Decision(q).behavior
               /\ \A j \in Matched(q, permission_rules) :
                    permission_rules[j].behavior # Decision(q).behavior =>
                      permission_rules[j].priority < permission_rules[i].priority
  <2> DEFINE rules == permission_rules
             w == Winner(q, rules)
  <2>1. rules \in Seq(PermissionRule)
    BY <1>1 DEF RulesOK
  <2>2. Matched(q, rules) # {} /\ ~Conflict(q, rules)
    BY <1>1 DEF Decision, Evaluate
  <2>3. Decision(q).behavior = rules[w].behavior /\ Decision(q).rule_id = rules[w].id
    BY <2>2 DEF Decision, Evaluate
  <2>4. w \in Candidates(q, rules) /\ w \in Matched(q, rules)
    BY <2>1, <2>2, WinnerIsCandidate, MatchedInRules
  <2>5. ASSUME NEW j \in Matched(q, rules), rules[j].behavior # rules[w].behavior
        PROVE  rules[j].priority < rules[w].priority
    <3>1. j \notin Candidates(q, rules)
      BY <2>2, <2>4, <2>5 DEF Conflict
    <3>2. PICK k \in Matched(q, rules) : ~(rules[k].priority <= rules[j].priority)
      BY <3>1 DEF Candidates
    <3>3. rules[k].priority <= rules[w].priority
      BY <2>4 DEF Candidates
    <3>4. \A i \in {j, k, w} : rules[i].priority \in Int
      BY <2>1, <2>4, MatchedInRules
    <3> QED BY <3>2, <3>3, <3>4
  <2> QED BY <2>3, <2>4, <2>5
<1>2. RulesOK => DecisionExplained
  BY <1>1 DEF DecisionExplained
<1> QED BY <1>2, RulesAlways, PTL

\* Reordering the rules renames the positions of the rules that match, of the
\* candidates and of the winner, and nothing else.
LEMMA Reordered ==
  ASSUME NEW q, NEW rules \in Seq(PermissionRule), NEW p \in Orders(Len(rules)), NEW d
  PROVE  Evaluate(q, [i \in 1..Len(rules) |-> rules[p[i]]], d).behavior
           = Evaluate(q, rules, d).behavior
<1> DEFINE n == Len(rules)
           other == [i \in 1..n |-> rules[p[i]]]
<1>1. n \in Nat /\ p \in [1..n -> 1..n] /\ \A i, j \in 1..n : p[i] = p[j] => i = j
  BY DEF Orders
<1>2. other \in Seq(PermissionRule) /\ Len(other) = n /\ \A i \in 1..n : other[i] = rules[p[i]]
  <2>1. \A i \in 1..n : rules[p[i]] \in PermissionRule
    BY <1>1
  <2> QED BY <1>1, <2>1
<1>3. \A j \in 1..n : \E i \in 1..n : p[i] = j
  <2>1. p \in Injection(1..n, 1..n)
    BY <1>1 DEF Injection, IsInjective
  <2>2. IsFiniteSet(1..n)
    BY <1>1, FS_Interval
  <2>3. p \in Surjection(1..n, 1..n)
    BY <2>1, <2>2, FS_Injection
  <2> QED BY <2>3 DEF Surjection
<1> HIDE DEF other
<1>4. \A i \in 1..n : i \in Matched(q, other) <=> p[i] \in Matched(q, rules)
  BY <1>1, <1>2 DEF Matched
<1>5. Matched(q, rules) \subseteq 1..n /\ Matched(q, other) \subseteq 1..n
  BY <1>2 DEF Matched
<1>6. \A i \in 1..n : i \in Candidates(q, other) <=> p[i] \in Candidates(q, rules)
  <2> TAKE i \in 1..n
  <2>1. ASSUME i \in Candidates(q, other) PROVE p[i] \in Candidates(q, rules)
    <3>1. p[i] \in Matched(q, rules)
      BY <1>4, <2>1 DEF Candidates
    <3>2. ASSUME NEW j \in Matched(q, rules) PROVE rules[j].priority <= rules[p[i]].priority
      <4>1. PICK k \in 1..n : p[k] = j
        BY <1>3, <1>5
      <4>2. other[k].priority <= other[i].priority
        BY <1>4, <2>1, <4>1 DEF Candidates
      <4> QED BY <1>2, <4>1, <4>2
    <3> QED BY <3>1, <3>2 DEF Candidates
  <2>2. ASSUME p[i] \in Candidates(q, rules) PROVE i \in Candidates(q, other)
    <3>1. i \in Matched(q, other)
      BY <1>4, <2>2 DEF Candidates
    <3>2. ASSUME NEW j \in Matched(q, other) PROVE other[j].priority <= other[i].priority
      <4>1. rules[p[j]].priority <= rules[p[i]].priority
        BY <1>4, <1>5, <2>2 DEF Candidates
      <4> QED BY <1>2, <1>5, <4>1
    <3> QED BY <3>1, <3>2 DEF Candidates
  <2> QED BY <2>1, <2>2
<1>7. Candidates(q, rules) \subseteq 1..n /\ Candidates(q, other) \subseteq 1..n
  BY <1>5 DEF Candidates
<1>8. Matched(q, other) = {} <=> Matched(q, rules) = {}
  BY <1>3, <1>4, <1>5
<1>9. Conflict(q, other) <=> Conflict(q, rules)
  <2>1. ASSUME Conflict(q, other) PROVE Conflict(q, rules)
    <3>1. PICK i, j \in Candidates(q, other) : other[i].behavior # other[j].behavior
      BY <2>1 DEF Conflict
    <3>2. p[i] \in Candidates(q, rules) /\ p[j] \in Candidates(q, rules)
      BY <1>6, <1>7
    <3>3. rules[p[i]].behavior # rules[p[j]].behavior
      BY <1>2, <1>7, <3>1
    <3> QED BY <3>2, <3>3 DEF Conflict
  <2>2. ASSUME Conflict(q, rules) PROVE Conflict(q, other)
    <3>1. PICK i, j \in Candidates(q, rules) : rules[i].behavior # rules[j].behavior
      BY <2>2 DEF Conflict
    <3>2. PICK k \in 1..n, l \in 1..n : p[k] = i /\ p[l] = j
      BY <1>3, <1>7
    <3> QED BY <1>2, <1>6, <3>1, <3>2 DEF Conflict
  <2> QED BY <2>1, <2>2
<1>10. CASE Matched(q, rules) = {} \/ Conflict(q, rules)
  <2>1. Evaluate(q, other, d) = Evaluate(q, rules, d)
    BY <1>8, <1>9, <1>10 DEF Evaluate
  <2> QED BY <2>1 DEF other
<1>11. CASE Matched(q, rules) # {} /\ ~Conflict(q, rules)
  <2>1. Winner(q, other) \in Candidates(q, other)
    BY <1>2, <1>8, <1>11, WinnerIsCandidate
  <2>2. Evaluate(q, other, d).behavior = other[Winner(q, other)].behavior
    BY <1>2, <1>8, <1>9, <1>11, <2>1, DecidedByRule
  <2>3. Evaluate(q, rules, d).behavior = rules[p[Winner(q, other)]].behavior
    BY <1>6, <1>7, <1>11, <2>1, DecidedByRule
  <2>4. other[Winner(q, other)] = rules[p[Winner(q, other)]]
    BY <1>2, <1>7, <2>1
  <2> QED BY <2>2, <2>3, <2>4 DEF other
<1> QED BY <1>10, <1>11 DEF other

\* The order in which the host keeps its rules makes no difference.
THEOREM OrderNeverMatters == Spec => []OrderIrrelevant
<1>1. RulesOK => OrderIrrelevant
  BY Reordered DEF RulesOK, OrderIrrelevant, Decision
<1> QED BY <1>1, RulesAlways, PTL

\* DENY rules more, or switched on: what matches and does not deny is as before.
LEMMA DenyAdded ==
  ASSUME NEW q, NEW rules \in Seq(PermissionRule), NEW more \in Seq(PermissionRule),
         MoreDeny(rules, more), NEW d, Evaluate(q, more, d).behavior = "ALLOW"
  PROVE  Evaluate(q, rules, d).behavior = "ALLOW"
<1> DEFINE n == Len(rules)
<1>1. /\ n \in Nat /\ Len(more) \in Nat /\ n <= Len(more)
      /\ \A i \in 1..n : rules[i] \in PermissionRule
      /\ \A i \in 1..Len(more) : more[i] \in PermissionRule
  BY DEF MoreDeny
<1>2. ASSUME NEW i \in 1..n
      PROVE  /\ more[i] = rules[i] \/ (more[i] = [rules[i] EXCEPT !.enabled = TRUE] /\ more[i].behavior = "DENY")
             /\ more[i].priority = rules[i].priority /\ more[i].behavior = rules[i].behavior
             /\ \A k : Matches(rules[i], k) => Matches(more[i], k)
  <2>1. more[i] = rules[i] \/ (more[i] = [rules[i] EXCEPT !.enabled = TRUE] /\ more[i].behavior = "DENY")
    BY <1>1 DEF MoreDeny
  <2>2. CASE more[i] = rules[i]
    BY <2>2
  <2>3. CASE more[i] = [rules[i] EXCEPT !.enabled = TRUE] /\ more[i].behavior = "DENY"
    <3>1. /\ more[i].tool_name = rules[i].tool_name /\ more[i].argument_regex = rules[i].argument_regex
          /\ more[i].priority = rules[i].priority /\ more[i].behavior = rules[i].behavior
          /\ more[i].enabled
      BY <1>1, <2>3 DEF PermissionRule
    <3>2. \A k : Matches(rules[i], k) => Matches(more[i], k)
      BY <3>1 DEF Matches
    <3> QED BY <2>1, <3>1, <3>2
  <2> QED BY <2>1, <2>2, <2>3
<1>3. \A i \in 1..Len(more) : more[i].behavior # "DENY" => i \in 1..n /\ more[i] = rules[i]
  <2> SUFFICES ASSUME NEW i \in 1..Len(more), more[i].behavior # "DENY" PROVE i \in 1..n /\ more[i] = rules[i]
    OBVIOUS
  <2>1. i <= n /\ more[i] = rules[i]
    BY DEF MoreDeny
  <2> QED BY <1>1, <2>1
<1>4. Matched(q, rules) \subseteq Matched(q, more)
  <2> SUFFICES ASSUME NEW i \in Matched(q, rules) PROVE i \in Matched(q, more)
    OBVIOUS
  <2>1. i \in 1..n /\ Matches(rules[i], q)
    BY DEF Matched
  <2>2. i \in 1..Len(more)
    BY <1>1, <2>1
  <2>3. Matches(more[i], q)
    BY <1>2, <2>1
  <2> QED BY <2>2, <2>3 DEF Matched
<1>5. CASE Matched(q, more) = {}
  BY <1>4, <1>5 DEF Evaluate
<1>6. CASE Matched(q, more) # {}
  <2>1. ~Conflict(q, more)
    BY <1>6 DEF Evaluate
  <2>2. \A i \in Candidates(q, more) : more[i].behavior = "ALLOW"
    BY <1>6, <2>1, DecidedByRule
  <2>3. PICK w \in Candidates(q, more) : TRUE
    BY <1>6, SomeCandidate
  <2>4. w \in Matched(q, rules) /\ w \in 1..n /\ more[w] = rules[w]
    <3>1. w \in Matched(q, more) /\ w \in 1..Len(more) /\ more[w].behavior # "DENY"
      BY <2>2, MatchedInRules
    <3>2. w \in 1..n /\ more[w] = rules[w]
      BY <1>3, <3>1
    <3> QED BY <3>1, <3>2 DEF Matched
  <2>5. Candidates(q, rules) \subseteq Candidates(q, more)
    <3> SUFFICES ASSUME NEW c \in Candidates(q, rules), NEW j \in Matched(q, more)
                 PROVE  more[j].priority <= more[c].priority
      BY <1>4 DEF Candidates
    <3>1. c \in Matched(q, rules) /\ c \in 1..n
      BY MatchedInRules
    <3>2. rules[w].priority <= rules[c].priority
      BY <2>4 DEF Candidates
    <3>3. more[j].priority <= more[w].priority
      BY DEF Candidates
    <3>4. more[c].priority = rules[c].priority
      BY <1>2, <3>1
    <3>5. more[j].priority \in Int /\ rules[w].priority \in Int /\ rules[c].priority \in Int
      BY <2>4, <3>1, MatchedInRules
    <3> QED BY <2>4, <3>2, <3>3, <3>4, <3>5
  <2>6. \A c \in Candidates(q, rules) : rules[c].behavior = "ALLOW"
    <3>1. \A c \in Candidates(q, rules) : c \in 1..n
      BY MatchedInRules
    <3> QED BY <1>2, <2>2, <2>5, <3>1
  <2>7. Matched(q, rules) # {} /\ ~Conflict(q, rules)
    BY <2>4, <2>6 DEF Conflict
  <2>8. Candidates(q, rules) # {}
    BY <2>7, SomeCandidate
  <2> QED BY <2>6, <2>7, <2>8, DecidedByRule
<1> QED BY <1>5, <1>6

\* A DENY rule more, or one that is switched on, never lets a call through.
THEOREM DenyIsSafe == Spec => DenyNeverAllows
<1> DEFINE Tighter(q) ==
             MoreDeny(permission_rules, permission_rules') /\ Decision(q).behavior # "ALLOW"
             => Decision(q)'.behavior # "ALLOW"
<1>1. ASSUME RulesOK, RulesOK', Next, NEW q \in PermissionRequest PROVE Tighter(q)
  <2>1. default_behavior' = default_behavior
    BY <1>1 DEF Next, AddRule, SetEnabled
  <2>2. permission_rules \in Seq(PermissionRule) /\ permission_rules' \in Seq(PermissionRule)
    BY <1>1 DEF RulesOK
  <2>3. /\ Decision(q) = Evaluate(q, permission_rules, default_behavior)
        /\ Decision(q)' = Evaluate(q, permission_rules', default_behavior)
    BY <2>1 DEF Decision
  <2> QED BY <2>2, <2>3, DenyAdded
<1>2. RulesOK /\ [Next]_vars =>
        [\A q \in PermissionRequest :
         MoreDeny(permission_rules, permission_rules') /\ Decision(q).behavior # "ALLOW"
         => Decision(q)'.behavior # "ALLOW"]_vars
  BY <1>1, RulesStep
<1> QED BY <1>2, RulesAlways, PTL DEF Spec, DenyNeverAllows

=============================================================================
