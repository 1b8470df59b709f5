----------------------------- MODULE MCPolicySet -----------------------------
(***************************************************************************)
(* Small instances of PolicySet for TLC: two fields with evidence of every *)
(* kind, and every document of at most MaxRules rules of a small pool.     *)
(***************************************************************************)
EXTENDS PolicySet, TLC, FiniteSets

CONSTANT MaxRules

Fields == {"Uid", "CgroupPath"}

\* uid and cgroup path vary; the other fields are never collected.
MCContexts ==
    {[k \in ConditionKind |-> IF k \in Fields THEN f[k]
                              ELSE [state |-> "Unsupported"]] :
         f \in [Fields -> Evidence({1, 2})]}

Cond(kind, floor) == [kind |-> kind, expected |-> 1, min_trust |-> floor]

MCQueries == [resource : {"gpu"}, action : {"Compute", "Unknown"}]

Body(effect, resource, action, conditions) ==
    [effect |-> effect, resource |-> resource, action |-> action,
     conditions |-> conditions]

WithIds(bodies) ==
    [i \in DOMAIN bodies |->
        [id |-> <<"r1", "r2", "r3">>[i], effect |-> bodies[i].effect, resource |-> bodies[i].resource,
         action |-> bodies[i].action, conditions |-> bodies[i].conditions]]

Pool ==
    {Body("Allow", "gpu", "Compute", <<Cond("Uid", "KernelObserved")>>),
     Body("Allow", "gpu", "Compute", <<Cond("CgroupPath", "BestEffort")>>),
     Body("Allow", "gpu", "Compute", <<Cond("Uid", "BestEffort"),
                                       Cond("CgroupPath", "BestEffort")>>),
     Body("Deny", "gpu", "Compute", <<Cond("Uid", "KernelObserved")>>),
     Body("Deny", "gpu", "Compute", <<Cond("Uid", "BestEffort"),
                                      Cond("CgroupPath", "KernelObserved")>>),
     Body("Deny", "other", "Compute", <<Cond("Uid", "BestEffort")>>)}

BoundedSeq(S) == UNION {[1..n -> S] : n \in 0..MaxRules}

Valid ==
    {[version |-> "Current", id |-> "policy", rules |-> WithIds(b)] :
         b \in BoundedSeq(Pool)}

\* One flaw each, next to a rule that would allow.
Good == WithIds(<<Body("Allow", "gpu", "Compute",
                       <<Cond("Uid", "BestEffort")>>)>>)[1]

Flawed(rule) ==
    {[version |-> "Current", id |-> "policy", rules |-> <<Good, rule>>],
     [version |-> "Current", id |-> "policy", rules |-> <<rule, Good>>]}

Invalid ==
    {[version |-> "Other", id |-> "policy", rules |-> <<Good>>],
     [version |-> "Current", id |-> EmptyId, rules |-> <<Good>>]}
        \cup UNION {Flawed([Good EXCEPT !.id = EmptyId]),
                    Flawed([Good EXCEPT !.id = "r1"]),
                    Flawed([Good EXCEPT !.id = "r2", !.conditions = <<>>]),
                    Flawed([Good EXCEPT !.id = "r2", !.conditions =
                        <<Cond("Uid", "BestEffort"), Cond("Uid", "BestEffort")>>]),
                    Flawed([Good EXCEPT !.id = "r2", !.action = "Unknown"])}

MCEnvelopes == Valid \cup Invalid
=============================================================================
