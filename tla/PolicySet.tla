------------------------------ MODULE PolicySet ------------------------------
(***************************************************************************)
(* Policy decisions of eltanin-core (policy.rs): a document is validated   *)
(* once, and a valid one is then evaluated for an observed context and a   *)
(* request, rule by rule.                                                  *)
(*                                                                         *)
(* A context maps each field a condition may name to the evidence for it.  *)
(* Evaluation walks the rules in authoring order and collects three sets   *)
(* of rule ids; only then is the effect chosen.                            *)
(***************************************************************************)
EXTENDS Integers, Sequences, WorkloadIdentity

CONSTANTS
    Envelopes,      \* Versioned<PolicyDocument> values an operator may write
    Contexts,       \* ExecutionContexts the collectors can observe
    Queries         \* ComputeRequests clients may send

ConditionKind ==
    {"Uid", "Gid", "ExecutablePath", "ExecutableHash", "CgroupPath"}

TrustFloor == {"KernelObserved", "BestEffort"}

EmptyId == ""

Range(f) == {f[x] : x \in DOMAIN f}

\* The fields evaluation and validation read; TLC evaluates this on every run.
ASSUME PolicyAssumption ==
    /\ \A e \in Envelopes :
           /\ e.version \in {"Current", "Other"}
           /\ DOMAIN e.rules = 1..Len(e.rules)
           /\ Len(e.rules) \in Nat
           /\ \A i \in 1..Len(e.rules) :
                  /\ e.rules[i].effect \in {"Allow", "Deny"}
                  /\ e.rules[i].conditions \in Seq(Range(e.rules[i].conditions))
                  /\ \A j \in 1..Len(e.rules[i].conditions) :
                         /\ e.rules[i].conditions[j].kind \in ConditionKind
                         /\ e.rules[i].conditions[j].min_trust \in TrustFloor
    /\ \A c \in Contexts, k \in ConditionKind :
           c[k].state \in {"Present", "Missing", "Unsupported"}

VARIABLES
    envelope,                   \* what load_policy read
    pc,                         \* "load", "ready", "evaluate", "done", "rejected"
    error,                      \* PolicyError
    context,                    \* arguments of evaluate
    request,
    cursor,                     \* the next rule of the loop
    allow_hits,
    deny_hits,
    indeterminate_deny_hits,
    decision                    \* PolicyDecision

hits == <<allow_hits, deny_hits, indeterminate_deny_hits>>
vars == <<envelope, pc, error, context, request, cursor, allow_hits, deny_hits,
          indeterminate_deny_hits, decision>>

None == "None"

-----------------------------------------------------------------------------
(* Conditions and rules *)

Admits(floor, source) ==
    \/ floor = "KernelObserved" /\ source = "KernelObserved"
    \/ floor = "BestEffort" /\ source \in {"KernelObserved", "BestEffort"}

\* Fault: what was not observed does not match.
EvidenceEvaluateTwoValued(match, evidence) ==
    IF /\ evidence.state = "Present"
       /\ evidence.value = match.expected
       /\ Admits(match.min_trust, evidence.source)
        THEN "Matched"
        ELSE "NotMatched"

\* EvidenceMatch::evaluate
EvidenceEvaluate(match, evidence) ==
    IF evidence.state # "Present" THEN "Indeterminate"
    ELSE IF evidence.value = match.expected
            /\ Admits(match.min_trust, evidence.source)
        THEN "Matched"
        ELSE "NotMatched"

ConditionEvaluate(condition, ctx) ==
    EvidenceEvaluate(condition, ctx[condition.kind])

\* Rule::evaluate: "None" when the rule is about something else; one
\* condition that does not match decides, whatever the others are.
RuleEvaluate(rule, ctx, query) ==
    LET Outcomes == {ConditionEvaluate(rule.conditions[j], ctx) :
                         j \in 1..Len(rule.conditions)}
    IN  IF rule.resource # query.resource \/ rule.action # query.action
            THEN None
        ELSE IF "NotMatched" \in Outcomes THEN "NotMatched"
        ELSE IF "Indeterminate" \in Outcomes THEN "Indeterminate"
        ELSE "Matched"

-----------------------------------------------------------------------------
(* from_versioned, from_document *)

\* What is wrong with rule i of a document, in the order of the checks.
RuleError(rules, i) ==
    LET rule == rules[i]
        Conditions == 1..Len(rule.conditions)
    IN  IF rule.id = EmptyId THEN "EmptyRuleId"
        ELSE IF \E j \in 1..(i - 1) : rules[j].id = rule.id
            THEN "DuplicateRuleId"
        ELSE IF rule.conditions = <<>> THEN "RuleWithoutConditions"
        ELSE IF \E j, k \in Conditions :
                    j < k /\ rule.conditions[j].kind = rule.conditions[k].kind
            THEN "DuplicateConditionKind"
        ELSE IF rule.action = "Unknown" THEN "UnknownActionInRule"
        ELSE None

IsValid(e) ==
    /\ e.version = "Current"
    /\ e.id # EmptyId
    /\ \A i \in 1..Len(e.rules) : RuleError(e.rules, i) = None

\* The error returned for an invalid document: the first one met.
DocumentError(e) ==
    LET Bad == {i \in 1..Len(e.rules) : RuleError(e.rules, i) # None}
    IN  IF e.version # "Current" THEN "UnsupportedVersion"
        ELSE IF e.id = EmptyId THEN "EmptyPolicyId"
        ELSE RuleError(e.rules, CHOOSE i \in Bad : \A j \in Bad : i <= j)

-----------------------------------------------------------------------------

Init ==
    /\ envelope \in Envelopes
    /\ pc = "load"
    /\ error = None
    /\ context = None
    /\ request = None
    /\ cursor = 1
    /\ allow_hits = {}
    /\ deny_hits = {}
    /\ indeterminate_deny_hits = {}
    /\ decision = None

\* load_policy: a document with an error never becomes a PolicySet.
Load ==
    /\ pc = "load"
    /\ IsValid(envelope)
    /\ pc' = "ready"
    /\ UNCHANGED <<envelope, error, context, request, cursor, hits, decision>>

Reject ==
    /\ pc = "load"
    /\ ~IsValid(envelope)
    /\ error' = DocumentError(envelope)
    /\ pc' = "rejected"
    /\ UNCHANGED <<envelope, context, request, cursor, hits, decision>>

\* LeaseIssuer::issue calls evaluate, for one request after another; every
\* call starts with empty sets.
BeginEvaluate(ctx, query) ==
    /\ pc \in {"ready", "done"}
    /\ context' = ctx
    /\ request' = query
    /\ cursor' = 1
    /\ allow_hits' = {}
    /\ deny_hits' = {}
    /\ indeterminate_deny_hits' = {}
    /\ decision' = None
    /\ pc' = "evaluate"
    /\ UNCHANGED <<envelope, error>>

Rules == envelope.rules

\* Fault: the loop ends at the first rule that matches.
EvaluateRuleFirstMatch ==
    LET rule == Rules[cursor]
        outcome == RuleEvaluate(rule, context, request)
    IN  /\ pc = "evaluate"
        /\ cursor <= Len(Rules)
        /\ cursor' = IF outcome = "Matched" THEN Len(Rules) + 1 ELSE cursor + 1
        /\ allow_hits' = IF outcome = "Matched" /\ rule.effect = "Allow"
                             THEN allow_hits \cup {rule.id} ELSE allow_hits
        /\ deny_hits' = IF outcome = "Matched" /\ rule.effect = "Deny"
                            THEN deny_hits \cup {rule.id} ELSE deny_hits
        /\ UNCHANGED <<envelope, pc, error, context, request,
                       indeterminate_deny_hits, decision>>

\* One iteration of the loop.  An indeterminate allow rule adds nothing.
EvaluateRule ==
    LET rule == Rules[cursor]
        outcome == RuleEvaluate(rule, context, request)
        Collect(set, effect, when) ==
            IF rule.effect = effect /\ outcome = when
                THEN set \cup {rule.id}
                ELSE set
    IN  /\ pc = "evaluate"
        /\ cursor <= Len(Rules)
        /\ cursor' = cursor + 1
        /\ allow_hits' = Collect(allow_hits, "Allow", "Matched")
        /\ deny_hits' = Collect(deny_hits, "Deny", "Matched")
        /\ indeterminate_deny_hits' =
               Collect(indeterminate_deny_hits, "Deny", "Indeterminate")
        /\ UNCHANGED <<envelope, pc, error, context, request, decision>>

Verdict(effect, reason, matched, overridden) ==
    [effect |-> effect, reason |-> reason, matched_rules |-> matched,
     overridden_allow_rules |-> overridden]

\* The precedence of the three sets.
Decide ==
    /\ pc = "evaluate"
    /\ cursor = Len(Rules) + 1
    /\ decision' =
           IF deny_hits # {}
               THEN Verdict("Deny", "ExplicitDeny", deny_hits, allow_hits)
           ELSE IF indeterminate_deny_hits # {}
               THEN Verdict("Deny", "IndeterminateEvidence",
                            indeterminate_deny_hits, {})
           ELSE IF allow_hits # {}
               THEN Verdict("Allow", "ExplicitAllow", allow_hits, {})
           ELSE Verdict("Deny", "NoMatchingRule", {}, {})
    /\ pc' = "done"
    /\ UNCHANGED <<envelope, error, context, request, cursor, hits>>

Next ==
    \/ Load
    \/ Reject
    \/ \E ctx \in Contexts, query \in Queries : BeginEvaluate(ctx, query)
    \/ EvaluateRule
    \/ Decide

Spec == Init /\ [][Next]_vars

-----------------------------------------------------------------------------
(* What a policy means, said of its set of rules *)

Authored == {envelope.rules[i] : i \in 1..Len(envelope.rules)}

Conditions(rule) == {rule.conditions[j] : j \in 1..Len(rule.conditions)}

\* The sources a floor trusts; never the process's own word.
Trusted(floor) ==
    {"KernelObserved"} \cup (IF floor = "BestEffort" THEN {"BestEffort"} ELSE {})

Satisfied(cond, ctx) ==
    /\ ctx[cond.kind].state = "Present"
    /\ ctx[cond.kind].value = cond.expected
    /\ ctx[cond.kind].source \in Trusted(cond.min_trust)

Refuted(cond, ctx) == ctx[cond.kind].state = "Present" /\ ~Satisfied(cond, ctx)

About(rule, query) ==
    rule.resource = query.resource /\ rule.action = query.action

Holds(rule, ctx) == \A cond \in Conditions(rule) : Satisfied(cond, ctx)

Excluded(rule, ctx) == \E cond \in Conditions(rule) : Refuted(cond, ctx)

\* A request is allowed when some allow rule holds and every deny rule about
\* it is known not to.
Permits(rules, ctx, query) ==
    /\ \E r \in rules : r.effect = "Allow" /\ About(r, query) /\ Holds(r, ctx)
    /\ \A r \in rules :
           r.effect = "Deny" /\ About(r, query) => Excluded(r, ctx)

\* One context shows what the other shows, and perhaps more.
ShowsMore(richer, ctx) ==
    \A k \in ConditionKind : ctx[k].state = "Present" => richer[k] = ctx[k]

-----------------------------------------------------------------------------
(* Properties *)

\* Type invariant.
TypeOK ==
    /\ envelope \in Envelopes
    /\ pc \in {"load", "ready", "evaluate", "done", "rejected"}
    /\ pc \in {"evaluate", "done"} => context \in Contexts /\ request \in Queries
    /\ cursor \in 1..(Len(Rules) + 1)
    /\ pc \in {"load", "ready", "rejected"} => cursor = 1
    /\ pc = "done" => decision.effect \in {"Allow", "Deny"}

\* PolicySet::evaluate: the loop decides what the set of rules means, so the
\* order of authoring plays no part and no rule is skipped; the explanation
\* names exactly the rules that hold.
DecisionIsTheMeaning ==
    pc = "done" =>
        LET Relevant(effect) ==
                {r \in Authored : r.effect = effect /\ About(r, request)}
            Ids(rules) == {r.id : r \in rules}
            Denying == {r \in Relevant("Deny") : Holds(r, context)}
            Allowing == {r \in Relevant("Allow") : Holds(r, context)}
        IN  /\ decision.effect = "Allow" <=> Permits(Authored, context, request)
            /\ decision.reason = "ExplicitDeny" <=> Denying # {}
            /\ decision.reason = "ExplicitDeny" =>
                   /\ decision.matched_rules = Ids(Denying)
                   /\ decision.overridden_allow_rules = Ids(Allowing)
            /\ decision.reason = "ExplicitAllow" =>
                   decision.matched_rules = Ids(Allowing)
            /\ decision.reason = "IndeterminateEvidence" =>
                   decision.matched_rules =
                       Ids({r \in Relevant("Deny") : ~Excluded(r, context)})

\* policy.rs, HORO-787 "missing evidence cannot silently upgrade trust": what
\* is allowed when some evidence could not be read is allowed whatever that
\* evidence would have been.
MissingEvidenceNeverUpgrades ==
    pc = "done" /\ decision.effect = "Allow" =>
        \A richer \in Contexts :
            ShowsMore(richer, context) => Permits(Authored, richer, request)

\* Default deny: an allowance rests on at least one piece of evidence that
\* was observed and is not the workload's own claim, in a policy that passed
\* validation, for an action the agent knows (from_document and evaluate
\* together: a rule without conditions would hold of everybody, a rule for
\* Action::Unknown of every action a newer client sends).
AllowRestsOnEvidence ==
    pc = "done" /\ decision.effect = "Allow" =>
        /\ request.action # "Unknown"
        /\ \E rule \in Authored :
               /\ rule.effect = "Allow" /\ About(rule, request)
               /\ Conditions(rule) # {}
               /\ \A cond \in Conditions(rule) : Usable(context[cond.kind])
=============================================================================
