-------------------------- MODULE MCAuditDecision --------------------------
(* Instances of AuditDecision for TLC. *)
EXTENDS AuditDecision

CONSTANTS
  simple, special, bundle,
  routable, nullList,
  general, specific, tied, unmatched, broken, unranked, promptless

(* The model names no rule, or one that has a deterministic result or that *)
(* it made up. *)
Answer(rule, result) == [rule_id |-> rule, result |-> result]

MCAiRules ==
  {{}} \cup {{Answer(rule, "PASS")} : rule \in Required \cup OtherIds}
    \cup {{Answer(rule, "REJECT")} : rule \in MatchRules \ Required}

(* An order of scene s7, audit point p9 and two industries; the other one  *)
(* has null for its industries.                                            *)
RoutableSnapshot ==
  [values |-> [c \in Criterion |->
     CASE c = "scene" -> {"s7"} [] c = "audit_point" -> {"p9"}
       [] c = "certificate_type" -> {"t1"} [] c = "industry" -> {"i1", "i2"}
       [] c = "category" -> {} [] c = "business_type" -> {"cpc"}],
   readable |-> TRUE]

NullListSnapshot ==
  [values |-> [RoutableSnapshot.values EXCEPT !["industry"] = {}], readable |-> FALSE]

MCSnapshot == [o \in Orders |-> IF o = routable THEN RoutableSnapshot ELSE NullListSnapshot]

Criteria(match) == [c \in Criterion |-> IF c \in DOMAIN match THEN match[c] ELSE {}]

Manifest(file, skill, match, priority) ==
  [file |-> file, read |-> "loaded", skill |-> skill, match |-> Criteria(match),
   priority |-> priority, ranked |-> TRUE, prompt |-> TRUE]

(* A general manifest, and ones that beat it, tie with each other, are met *)
(* in part, name no criterion, are ignored, raise, or have no number for a *)
(* priority.                                                               *)
General == Manifest("general", simple, [scene |-> {"s7"}], 90)
Specific == Manifest("specific", special, [scene |-> {"s7", "s8"}, industry |-> {"i2"}], 10)
ByType == Manifest("by_type", bundle, [business_type |-> {"cpc"}], 10)
Partly == Manifest("partly", special, [scene |-> {"s7"}, audit_point |-> {"p8"}], 50)
CatchAll == Manifest("catch_all", bundle, <<>>, 100)
Disabled == [Manifest("disabled", bundle, [business_type |-> {"cpc"}], 95) EXCEPT !.read = "ignored"]
Broken == [CatchAll EXCEPT !.read = "raises", !.file = "broken"]
Unranked == [Specific EXCEPT !.ranked = FALSE, !.file = "unranked"]
UnrankedPartly == [Partly EXCEPT !.ranked = FALSE, !.file = "unranked_partly"]
Promptless == [Specific EXCEPT !.prompt = FALSE, !.file = "promptless"]

MCManifests ==
  [d \in Deployments |->
    CASE d = general -> {General, Disabled, CatchAll}
      [] d = specific -> {General, Specific, UnrankedPartly}
      [] d = tied -> {General, Specific, ByType}
      [] d = unmatched -> {Partly, CatchAll}
      [] d = broken -> {General, Broken}
      [] d = unranked -> {General, Unranked}
      [] d = promptless -> {General, Promptless}]

=============================================================================
