-------------------------- MODULE PolicySet_proofs --------------------------
(***************************************************************************)
(* Proofs about PolicySet, for every set of documents, contexts and        *)
(* requests.                                                               *)
(***************************************************************************)
EXTENDS PolicySet, TLAPS

USE PolicyAssumption

\* Rules the loop has looked at.
Seen == {envelope.rules[i] : i \in 1..(cursor - 1)}

IdsWhere(rules, effect, outcome) ==
    {r.id : r \in {q \in rules : /\ q.effect = effect
                                 /\ RuleEvaluate(q, context, request) = outcome}}

\* Every set holds the rules seen so far that belong to it.
HitsInv ==
    pc \in {"evaluate", "done"} =>
        /\ allow_hits = IdsWhere(Seen, "Allow", "Matched")
        /\ deny_hits = IdsWhere(Seen, "Deny", "Matched")
        /\ indeterminate_deny_hits = IdsWhere(Seen, "Deny", "Indeterminate")

\* A decision was taken on the sets of all rules.
Chosen ==
    IF deny_hits # {}
        THEN Verdict("Deny", "ExplicitDeny", deny_hits, allow_hits)
    ELSE IF indeterminate_deny_hits # {}
        THEN Verdict("Deny", "IndeterminateEvidence", indeterminate_deny_hits, {})
    ELSE IF allow_hits # {}
        THEN Verdict("Allow", "ExplicitAllow", allow_hits, {})
    ELSE Verdict("Deny", "NoMatchingRule", {}, {})

DecisionInv ==
    /\ pc = "done" => cursor = Len(envelope.rules) + 1 /\ decision = Chosen
    /\ pc \notin {"load", "rejected"} => IsValid(envelope)

PolicyInv == TypeOK /\ HitsInv /\ DecisionInv

\* What the outcome of a rule says of the evidence.
LEMMA OutcomeMeaning ==
    ASSUME NEW e \in Envelopes, NEW i \in 1..Len(e.rules),
           NEW ctx \in Contexts, NEW query
    PROVE  LET r == e.rules[i]
               outcome == RuleEvaluate(r, ctx, query)
           IN  /\ outcome = "Matched" <=> About(r, query) /\ Holds(r, ctx)
               /\ outcome = "Indeterminate" <=>
                      /\ About(r, query)
                      /\ ~Excluded(r, ctx)
                      /\ ~Holds(r, ctx)
  <1> DEFINE r == e.rules[i]
             N == 1..Len(r.conditions)
             Out(j) == ConditionEvaluate(r.conditions[j], ctx)
             Outs == {Out(j) : j \in N}
  <1>1. ASSUME NEW j \in N
        PROVE  /\ Out(j) = "Matched" <=> Satisfied(r.conditions[j], ctx)
               /\ Out(j) = "NotMatched" <=> Refuted(r.conditions[j], ctx)
               /\ Out(j) \in {"Matched", "NotMatched", "Indeterminate"}
    <2>1. r.conditions[j].min_trust \in TrustFloor
      OBVIOUS
    <2>2. \A source : Admits(r.conditions[j].min_trust, source)
                          <=> source \in Trusted(r.conditions[j].min_trust)
      BY <2>1 DEF Admits, Trusted, TrustFloor
    <2> QED
      BY <2>2 DEF ConditionEvaluate, EvidenceEvaluate, Satisfied, Refuted
  <1>2. "NotMatched" \in Outs <=> Excluded(r, ctx)
    BY <1>1 DEF Excluded, Conditions
  <1>3. ("NotMatched" \notin Outs /\ "Indeterminate" \notin Outs) <=> Holds(r, ctx)
    BY <1>1 DEF Holds, Conditions
  <1>4. RuleEvaluate(r, ctx, query) =
            IF ~About(r, query) THEN None
            ELSE IF "NotMatched" \in Outs THEN "NotMatched"
            ELSE IF "Indeterminate" \in Outs THEN "Indeterminate"
            ELSE "Matched"
    BY DEF RuleEvaluate, About
  <1>5. Holds(r, ctx) => ~Excluded(r, ctx)
    BY <1>2, <1>3
  <1> QED
    BY <1>2, <1>3, <1>4, <1>5 DEF None

\* Before the first rule nothing has been hit.
LEMMA PolicyInit == Init => PolicyInv
  BY DEF Init, PolicyInv, TypeOK, HitsInv, DecisionInv, Rules

\* A rule is looked at once, and the decision is made after the last.
LEMMA PolicyStep == PolicyInv /\ [Next]_vars => PolicyInv'
  <1> SUFFICES ASSUME PolicyInv, [Next]_vars PROVE PolicyInv'
    OBVIOUS
  <1> USE DEF PolicyInv
  <1>1. CASE Load \/ Reject
    BY <1>1 DEF Load, Reject, TypeOK, HitsInv, DecisionInv, Rules, hits
  <1>2. ASSUME NEW ctx \in Contexts, NEW query \in Queries, BeginEvaluate(ctx, query)
        PROVE  PolicyInv'
    <2> USE <1>2 DEF BeginEvaluate
    <2>1. TypeOK'
      BY DEF TypeOK, Rules
    <2>2. Seen' = {}
      BY DEF Seen
    <2>3. HitsInv'
      BY <2>2 DEF HitsInv, IdsWhere
    <2>4. DecisionInv'
      BY DEF DecisionInv
    <2> QED
      BY <2>1, <2>3, <2>4
  <1>3. CASE EvaluateRule
    <2> USE <1>3 DEF EvaluateRule, Rules
    <2>1. TypeOK'
      BY DEF TypeOK
    <2>2. Seen' = Seen \cup {envelope.rules[cursor]}
      BY DEF Seen, TypeOK
    <2>3. HitsInv'
      <3> DEFINE rule == envelope.rules[cursor]
      <3>1. ASSUME NEW effect, NEW outcome
            PROVE  IdsWhere(Seen, effect, outcome)' =
                       IF rule.effect = effect
                          /\ RuleEvaluate(rule, context, request) = outcome
                           THEN IdsWhere(Seen, effect, outcome) \cup {rule.id}
                           ELSE IdsWhere(Seen, effect, outcome)
        BY <2>2 DEF IdsWhere
      <3> QED
        BY <3>1 DEF HitsInv
    <2>4. DecisionInv'
      BY DEF DecisionInv
    <2> QED
      BY <2>1, <2>3, <2>4
  <1>4. CASE Decide
    <2> USE <1>4 DEF Decide, hits
    <2>1. decision' = Chosen'
      BY DEF Chosen, Rules
    <2>2. decision'.effect \in {"Allow", "Deny"}
      BY <2>1 DEF Chosen, Verdict
    <2>3. TypeOK'
      BY <2>2 DEF TypeOK, Rules
    <2>4. HitsInv'
      BY DEF HitsInv, IdsWhere, Seen
    <2>5. DecisionInv'
      BY <2>1 DEF DecisionInv, Rules
    <2> QED
      BY <2>3, <2>4, <2>5
  <1>5. CASE UNCHANGED vars
    BY <1>5 DEF vars, TypeOK, HitsInv, DecisionInv, Rules, Seen, IdsWhere, Chosen
  <1> QED
    BY <1>1, <1>2, <1>3, <1>4, <1>5 DEF Next

\* The invariant the theorems below rest on.
THEOREM PolicyInvariant == Spec => []PolicyInv
  BY PolicyInit, PolicyStep, PTL DEF Spec

-----------------------------------------------------------------------------
(* What a decision means *)

\* When the loop is over, the sets are those the meaning of the policy names.
LEMMA HitsMeaning ==
    ASSUME PolicyInv, pc = "done"
    PROVE  /\ allow_hits = {r.id : r \in {q \in Authored :
                  q.effect = "Allow" /\ About(q, request) /\ Holds(q, context)}}
           /\ deny_hits = {r.id : r \in {q \in Authored :
                  q.effect = "Deny" /\ About(q, request) /\ Holds(q, context)}}
           /\ indeterminate_deny_hits = {r.id : r \in {q \in Authored :
                  /\ q.effect = "Deny" /\ About(q, request)
                  /\ ~Excluded(q, context) /\ ~Holds(q, context)}}
  <1> USE DEF PolicyInv
  <1>1. Seen = Authored
    <2>1. cursor = Len(envelope.rules) + 1 /\ Len(envelope.rules) \in Nat
      BY DEF DecisionInv, TypeOK
    <2> QED
      BY <2>1 DEF Seen, Authored
  <1>2. context \in Contexts /\ envelope \in Envelopes
    BY DEF TypeOK
  <1>3. \A q \in Authored :
            /\ RuleEvaluate(q, context, request) = "Matched" <=>
                   About(q, request) /\ Holds(q, context)
            /\ RuleEvaluate(q, context, request) = "Indeterminate" <=>
                   About(q, request) /\ ~Excluded(q, context) /\ ~Holds(q, context)
    <2> TAKE q \in Authored
    <2>1. PICK i \in 1..Len(envelope.rules) : q = envelope.rules[i]
      BY DEF Authored
    <2> QED
      BY <1>2, <2>1, OutcomeMeaning
  <1>4. /\ IdsWhere(Authored, "Allow", "Matched") = {r.id : r \in {q \in Authored :
               q.effect = "Allow" /\ About(q, request) /\ Holds(q, context)}}
        /\ IdsWhere(Authored, "Deny", "Matched") = {r.id : r \in {q \in Authored :
               q.effect = "Deny" /\ About(q, request) /\ Holds(q, context)}}
        /\ IdsWhere(Authored, "Deny", "Indeterminate") =
               {r.id : r \in {q \in Authored :
                   /\ q.effect = "Deny" /\ About(q, request)
                   /\ ~Excluded(q, context) /\ ~Holds(q, context)}}
    BY <1>3 DEF IdsWhere
  <1> QED
    BY <1>1, <1>4 DEF HitsInv

\* What holds is not refuted.
LEMMA HoldingIsNotExcluded ==
    ASSUME NEW r, NEW ctx, Holds(r, ctx)
    PROVE  ~Excluded(r, ctx)
  BY DEF Holds, Excluded, Refuted

\* The evaluation allows exactly what the reference permits.
LEMMA AllowIsPermission ==
    ASSUME PolicyInv, pc = "done"
    PROVE  decision.effect = "Allow" <=> Permits(Authored, context, request)
  <1>1. decision.effect = "Allow" <=>
            deny_hits = {} /\ indeterminate_deny_hits = {} /\ allow_hits # {}
    BY DEF PolicyInv, DecisionInv, Chosen, Verdict
  <1>2. allow_hits # {} <=> \E r \in Authored :
            r.effect = "Allow" /\ About(r, request) /\ Holds(r, context)
    BY HitsMeaning
  <1>3. (deny_hits = {} /\ indeterminate_deny_hits = {}) <=>
            \A r \in Authored :
                r.effect = "Deny" /\ About(r, request) => Excluded(r, context)
    <2>1. deny_hits = {} <=> \A r \in Authored :
              ~(r.effect = "Deny" /\ About(r, request) /\ Holds(r, context))
      BY HitsMeaning
    <2>2. indeterminate_deny_hits = {} <=> \A r \in Authored :
              ~(/\ r.effect = "Deny" /\ About(r, request)
                /\ ~Excluded(r, context) /\ ~Holds(r, context))
      BY HitsMeaning
    <2> QED
      BY <2>1, <2>2, HoldingIsNotExcluded
  <1> QED
    BY <1>1, <1>2, <1>3 DEF Permits

\* The decision is the meaning of the set of rules, whatever their order, and
\* its explanation names the rules responsible.
THEOREM DecisionsMeanThePolicy == Spec => []DecisionIsTheMeaning
  <1>1. PolicyInv => DecisionIsTheMeaning
    <2> SUFFICES ASSUME PolicyInv, pc = "done" PROVE DecisionIsTheMeaning
      BY DEF DecisionIsTheMeaning
    <2> DEFINE Relevant(effect) ==
                   {r \in Authored : r.effect = effect /\ About(r, request)}
               Ids(rules) == {r.id : r \in rules}
               Denying == {r \in Relevant("Deny") : Holds(r, context)}
               Allowing == {r \in Relevant("Allow") : Holds(r, context)}
               Unrefuted == {r \in Relevant("Deny") : ~Excluded(r, context)}
    <2>1. allow_hits = Ids(Allowing) /\ deny_hits = Ids(Denying)
      BY HitsMeaning
    <2>2. deny_hits = {} => indeterminate_deny_hits = Ids(Unrefuted)
      <3>1. deny_hits = {} => Denying = {}
        BY <2>1
      <3>2. Denying = {} =>
                Unrefuted = {q \in Authored :
                    /\ q.effect = "Deny" /\ About(q, request)
                    /\ ~Excluded(q, context) /\ ~Holds(q, context)}
        OBVIOUS
      <3> QED
        BY <3>1, <3>2, HitsMeaning
    <2>3. decision.effect = "Allow" <=> Permits(Authored, context, request)
      BY AllowIsPermission
    <2>4. decision.reason = "ExplicitDeny" <=> Denying # {}
      BY <2>1 DEF PolicyInv, DecisionInv, Chosen, Verdict
    <2>5. decision.reason = "ExplicitDeny" =>
              /\ decision.matched_rules = Ids(Denying)
              /\ decision.overridden_allow_rules = Ids(Allowing)
      BY <2>1 DEF PolicyInv, DecisionInv, Chosen, Verdict
    <2>6. decision.reason = "ExplicitAllow" => decision.matched_rules = Ids(Allowing)
      BY <2>1 DEF PolicyInv, DecisionInv, Chosen, Verdict
    <2>7. decision.reason = "IndeterminateEvidence" =>
              decision.matched_rules = Ids(Unrefuted)
      BY <2>2 DEF PolicyInv, DecisionInv, Chosen, Verdict
    <2> QED
      BY <2>3, <2>4, <2>5, <2>6, <2>7 DEF DecisionIsTheMeaning
  <1> QED
    BY <1>1, PolicyInvariant, PTL

\* Permission only grows when more evidence becomes known: an allow rule that
\* holds keeps holding, a deny rule that is excluded stays excluded.
LEMMA PermissionIsMonotonic ==
    ASSUME NEW ctx \in Contexts, NEW richer \in Contexts, ShowsMore(richer, ctx),
           PolicyInv,
           Permits(Authored, ctx, request)
    PROVE  Permits(Authored, richer, request)
  <1>1. \A r \in Authored : \A cond \in Conditions(r) : cond.kind \in ConditionKind
    BY DEF Authored, Conditions, PolicyInv, TypeOK
  <1>2. \A cond : /\ cond.kind \in ConditionKind
                  /\ ctx[cond.kind].state = "Present"
                  => richer[cond.kind] = ctx[cond.kind]
    BY DEF ShowsMore
  <1>3. \A r \in Authored : Holds(r, ctx) => Holds(r, richer)
    BY <1>1, <1>2 DEF Holds, Satisfied
  <1>4. \A r \in Authored : Excluded(r, ctx) => Excluded(r, richer)
    BY <1>1, <1>2 DEF Excluded, Refuted, Satisfied
  <1> QED
    BY <1>3, <1>4 DEF Permits

\* "Missing evidence cannot silently upgrade trust", for every policy.
THEOREM MissingEvidenceIsSafe == Spec => []MissingEvidenceNeverUpgrades
  <1>1. PolicyInv => MissingEvidenceNeverUpgrades
    <2> SUFFICES ASSUME PolicyInv, pc = "done", decision.effect = "Allow",
                        NEW richer \in Contexts, ShowsMore(richer, context)
                 PROVE  Permits(Authored, richer, request)
      BY DEF MissingEvidenceNeverUpgrades
    <2>1. context \in Contexts
      BY DEF PolicyInv, TypeOK
    <2> QED
      BY <2>1, AllowIsPermission, PermissionIsMonotonic
  <1> QED
    BY <1>1, PolicyInvariant, PTL

\* Default deny: validation and evaluation together make every allowance rest
\* on evidence that is not the workload's own claim.
THEOREM AllowanceNeedsEvidence == Spec => []AllowRestsOnEvidence
  <1>1. PolicyInv => AllowRestsOnEvidence
    <2> SUFFICES ASSUME PolicyInv, pc = "done", decision.effect = "Allow"
                 PROVE  /\ request.action # "Unknown"
                        /\ \E rule \in Authored :
                               /\ rule.effect = "Allow" /\ About(rule, request)
                               /\ Conditions(rule) # {}
                               /\ \A cond \in Conditions(rule) :
                                      Usable(context[cond.kind])
      BY DEF AllowRestsOnEvidence
    <2> USE DEF PolicyInv
    <2>1. PICK rule \in Authored :
              rule.effect = "Allow" /\ About(rule, request) /\ Holds(rule, context)
      BY AllowIsPermission DEF Permits
    <2>2. PICK i \in 1..Len(envelope.rules) : rule = envelope.rules[i]
      BY <2>1 DEF Authored
    <2>3. RuleError(envelope.rules, i) = None
      BY DEF DecisionInv, IsValid
    <2>4. rule.conditions # <<>> /\ rule.action # "Unknown"
      BY <2>2, <2>3 DEF RuleError, None
    <2>5. Conditions(rule) # {}
      <3>1. rule.conditions \in Seq(Range(rule.conditions))
        BY <2>2 DEF TypeOK
      <3>2. 1 \in 1..Len(rule.conditions)
        BY <2>4, <3>1
      <3> QED
        BY <3>2 DEF Conditions
    <2>6. \A cond \in Conditions(rule) : Usable(context[cond.kind])
      BY <2>1 DEF Holds, Satisfied, Trusted, Usable
    <2> QED
      BY <2>1, <2>4, <2>5, <2>6 DEF About
  <1> QED
    BY <1>1, PolicyInvariant, PTL
=============================================================================
