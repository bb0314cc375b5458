--------------------------- MODULE AuditDecision ---------------------------
(***************************************************************************)
(* The audit of one order version: the task routes it to a skill, and      *)
(* audit_service.run_audit routes it again, runs the skill's deterministic *)
(* rules, asks the model, merges and validates their results, decides, and *)
(* stores an audit_results row under a hash of every input, which is       *)
(* reused for the same input.                                              *)
(*                                                                         *)
(* A version's snapshot and PDF text do not change; at any time other      *)
(* manifests may be deployed, and the process restarted with another model *)
(* or another rules.yaml.                                                  *)
(***************************************************************************)
EXTENDS SkillRegistry, Sequences, SequencesExt

CONSTANTS
  Skills,       \* skills, each with its version and prompt
  WithRules,    \* those that have a rules.yaml
  Deployments,  \* the contents the manifests directory may have
  Manifests,    \* their files: [Deployments -> sets of manifests]
  Orders,       \* orders whose version is audited
  Snapshot,     \* what routing reads of them: [Orders -> records]
  MatchRules,   \* rules.yaml: ids of the rules that compare a field
  Required,     \* those of them with "required: true"
  CheckRules,   \* rules.yaml: ids of its required_check rules
  OtherIds,     \* rule ids the model makes up
  Models,       \* values of settings.LLM_MODEL
  None,         \* no input_hash, no skill
  AiRules,      \* the rule lists, as sets, that answers of the model hold
  MaxAudits     \* bound: audits of the version

ASSUME SkillsAssumption ==
  /\ WithRules \subseteq Skills
  /\ None \notin Skills \cup {"raises"} /\ "raises" \notin Skills

ASSUME ManifestsAssumption ==
  \A d \in Deployments :
    /\ IsFiniteSet(Manifests[d])
    /\ \A m \in Manifests[d] :
         /\ m.skill \in Skills
         /\ m.ranked \in BOOLEAN /\ m.prompt \in BOOLEAN
         /\ m.ranked => m.priority \in Int

ASSUME RulesAssumption ==
  /\ MatchRules \cup CheckRules # {}
  /\ Required \subseteq MatchRules
  /\ CheckRules \cap MatchRules = {}
  /\ OtherIds \cap (MatchRules \cup CheckRules) = {}
  /\ MaxAudits \in Nat

Decision == {"PASS", "REJECT", "MANUAL_REVIEW"}
RuleIds == MatchRules \cup CheckRules
RuleResult == [rule_id : RuleIds \cup OtherIds, result : Decision]

(* What a rule compares: the field of order_snapshot is missing or white   *)
(* space, or it has a value and the rule's search patterns find nothing,   *)
(* one candidate that matches, several of which some match, or only        *)
(* candidates that do not match.                                           *)
Comparison ==
  {"missing", "blank", "not_found", "match", "several_match", "mismatch"}

(* rules.yaml on disk: parsed, not there, not YAML or without a rule, or   *)
(* raising OSError.                                                        *)
RulesFile == {"parsed", "absent", "malformed", "unreadable"}

(* input_hash: the inputs that differ between two audits of a version.     *)
Hash == [skill : Skills, model : Models, rules : RulesFile \ {"unreadable"}]

(* raw_output: the model's own answer, one that does not meet the schema,  *)
(* or the error that took its place.                                       *)
RawOutput == {"answer", "invalid", "error"}

(* What a provider returns.                                                *)
Response == [raw : RawOutput, decision : Decision, rules : AiRules \cup {{}}]

(* An audit_results row: decision is the column, normalized the decision   *)
(* of normalized_output, rules its rules.                                  *)
Row ==
  [input_hash : Hash \cup {None}, raw : RawOutput,
   decision : Decision, normalized : Decision, rules : SUBSET RuleResult]

ASSUME NoneAssumption == None \notin Hash

ASSUME AiRulesAssumption == AiRules \subseteq SUBSET RuleResult

VARIABLES
  audited,     \* the order of the version
  disk,        \* what the manifests directory contains
  compared,    \* order_snapshot and PDF text, as each rule sees them
  rules_yaml,  \* the state of the rules.yaml of the skills that have one
  model,       \* settings.LLM_MODEL
  routed,      \* the skill the running task has routed to, None between tasks
  rows,        \* audit_results of the version, in the order of insertion
  audits       \* audits so far (bounded by MaxAudits)

vars == <<audited, disk, compared, rules_yaml, model, routed, rows, audits>>

Init ==
  /\ audited \in Orders
  /\ disk \in Deployments
  /\ compared \in [MatchRules -> Comparison]
  /\ rules_yaml \in {"parsed", "absent"}
  /\ model \in Models
  /\ routed = None
  /\ rows = <<>>
  /\ audits = 0

-----------------------------------------------------------------------------
(* Deterministic rules *)

(* MUTANT of Unanswered: a required rule without a value is skipped too.   *)
UnansweredSkipped(m) == {}

(* A rule without a source value or without a candidate: only a required   *)
(* one has a result.                                                       *)
Unanswered(m) == IF m \in Required THEN {"MANUAL_REVIEW"} ELSE {}

(* evaluate_rule: the result of a rule, the empty set where it is skipped. *)
Evaluated(m) ==
  CASE compared[m] \in {"missing", "blank", "not_found"} -> Unanswered(m)
    [] compared[m] = "match" -> {"PASS"}
    [] compared[m] = "several_match" -> {"MANUAL_REVIEW"}
    [] compared[m] = "mismatch" -> {"REJECT"}

(* A required_check rule counts a blank field as present.                *)
RequiredCheck ==
  IF \E m \in Required : compared[m] = "missing" THEN "MANUAL_REVIEW" ELSE "PASS"

RulesOfFile ==
  {r \in RuleResult :
    \/ r.rule_id \in MatchRules /\ r.result \in Evaluated(r.rule_id)
    \/ r.rule_id \in CheckRules /\ r.result = RequiredCheck}

(* _run_deterministic_rules: without a usable rules.yaml there are none.   *)
DeterministicRules(file) == IF file = "parsed" THEN RulesOfFile ELSE {}

-----------------------------------------------------------------------------
(* Merge, validation and decision *)

(* MUTANT of Merged: both results of a rule are kept.                      *)
MergedAll(deterministic, ai) == deterministic \cup ai

(* _merge_deterministic_rules: the model's result of a rule that has a     *)
(* deterministic one is dropped.                                           *)
Merged(deterministic, ai) ==
  deterministic \cup {r \in ai : \A d \in deterministic : d.rule_id # r.rule_id}

(* _get_valid_rule_ids: empty, that is no filter, without a usable file.   *)
ValidRuleIds(file) == IF file = "parsed" THEN RuleIds ELSE {}

(* The rules _validate_audit_output leaves of a merged list.               *)
Validated(file, rules) ==
  {r \in rules : ValidRuleIds(file) = {} \/ r.rule_id \in ValidRuleIds(file)}

(* Its degraded decision: only where it had rules and dropped all of them, *)
(* and only in normalized_output.                                          *)
Degraded(file, decision, rules) ==
  IF rules # {} /\ decision = "PASS" /\ Validated(file, rules) = {}
  THEN "MANUAL_REVIEW"
  ELSE decision

(* MUTANT of FinalDecision: a MANUAL_REVIEW of a rule is overlooked.       *)
RejectOrAnswer(decision, rules) ==
  IF \E r \in rules : r.result = "REJECT" THEN "REJECT" ELSE decision

(* MUTANT of FinalDecision: the order's status takes the decision's place. *)
StatusNotDecision(decision, rules) ==
  IF \E r \in rules : r.result = "MANUAL_REVIEW" THEN "MANUAL_REQUIRED" ELSE decision

(* _compute_final_decision: REJECT, then MANUAL_REVIEW, then the decision  *)
(* of the model as it came.                                                *)
FinalDecision(decision, rules) ==
  CASE \E r \in rules : r.result = "REJECT" -> "REJECT"
    [] /\ ~\E r \in rules : r.result = "REJECT"
       /\ \E r \in rules : r.result = "MANUAL_REVIEW" -> "MANUAL_REVIEW"
    [] OTHER -> decision

NewRow(hash, response) ==
  LET merged == Merged(DeterministicRules(hash.rules), response.rules)
      kept   == Validated(hash.rules, merged)
  IN  [input_hash |-> hash, raw |-> response.raw,
       decision |-> FinalDecision(response.decision, kept),
       normalized |-> Degraded(hash.rules, response.decision, merged),
       rules |-> kept]

-----------------------------------------------------------------------------
(* The providers *)

ErrorDecision == "MANUAL_REVIEW"

(* A refused request (HTTP 4xx), an envelope or a text that cannot be      *)
(* parsed, even after the repair; or an answer that fails the schema, which *)
(* is kept as raw_output.                                                  *)
ManualResponses ==
  {[raw |-> raw, decision |-> ErrorDecision, rules |-> {}] : raw \in {"error", "invalid"}}

(* Otherwise the answer is what the model said.                            *)
Answers == {r \in Response : r.raw = "answer"} \cup ManualResponses

-----------------------------------------------------------------------------
(* Routing *)

(* What routing may find: the glob lists the files in any order.           *)
Routings ==
  UNION {{[disk |-> d, order |-> o, found |-> MatchSkill(listing, Snapshot[o], None)] :
            listing \in SetToSeqs(Manifests[d])} :
         d \in Deployments, o \in Orders}

Found ==
  {routing.found : routing \in {r \in Routings : r.disk = disk /\ r.order = audited}}

(* The audit task goes on to run_audit only with a skill, and leaves the   *)
(* order to a human without one; an exception ends it.                     *)
Route(skill) ==
  /\ audits < MaxAudits
  /\ routed = None
  /\ skill \in Skills
  /\ routed' = skill
  /\ UNCHANGED <<audited, disk, compared, rules_yaml, model, rows, audits>>

RouteEnds(skill) ==
  /\ audits < MaxAudits
  /\ routed = None
  /\ skill \in {None, "raises"}
  /\ audits' = audits + 1
  /\ UNCHANGED <<audited, disk, compared, rules_yaml, model, routed, rows>>

-----------------------------------------------------------------------------
(* run_audit *)

(* MUTANT of FoundAgain: run_audit takes the skill the task found.         *)
FoundBefore == {routed}

(* run_audit routes the order itself.                                      *)
FoundAgain == Found

RulesUsed(skill) == IF skill \in WithRules THEN rules_yaml ELSE "absent"

InputHash(skill) == [skill |-> skill, model |-> model, rules |-> RulesUsed(skill)]

(* MUTANT of Cached: the hash is not looked up.                            *)
NeverCached(skill) == {}

(* The idempotency check.                                                  *)
Cached(skill) == {i \in DOMAIN rows : rows[i].input_hash = InputHash(skill)}

(* run_audit ends with these rows.                                         *)
AuditEnds(newRows) ==
  /\ audits < MaxAudits
  /\ routed # None
  /\ rows' = newRows
  /\ routed' = None
  /\ audits' = audits + 1
  /\ UNCHANGED <<audited, disk, compared, rules_yaml, model>>

(* A row of the same input is returned, nothing is run.                    *)
AuditCached(skill) ==
  /\ skill \in Skills
  /\ RulesUsed(skill) # "unreadable"
  /\ Cached(skill) # {}
  /\ AuditEnds(rows)

AuditRun(skill, response) ==
  /\ skill \in Skills
  /\ RulesUsed(skill) # "unreadable"
  /\ Cached(skill) = {}
  /\ AuditEnds(Append(rows, NewRow(InputHash(skill), response)))

(* The manifests changed since the task routed the order: run_audit finds  *)
(* no skill, and stores a row that has no input_hash.                      *)
UnroutedRow ==
  [input_hash |-> None, raw |-> "error", decision |-> "MANUAL_REVIEW",
   normalized |-> "MANUAL_REVIEW", rules |-> {}]

AuditUnrouted(skill) ==
  /\ skill = None
  /\ AuditEnds(Append(rows, UnroutedRow))

(* Routing raises now, or _compute_rules_hash on an OSError, or            *)
(* _get_provider for incomplete settings, or the provider: a timeout, a    *)
(* network error, HTTP 429 or 5xx, an answer without choices or content.   *)
(* The exception ends the task's transaction.                              *)
AuditRaises(skill) ==
  /\ skill # None
  /\ AuditEnds(rows)

-----------------------------------------------------------------------------
(* Deployments. After the last audit nothing is deployed (a bound).        *)

(* Manifest files are edited in place, under a running task.               *)
Deploy(newDisk) ==
  /\ audits < MaxAudits
  /\ disk' = newDisk
  /\ UNCHANGED <<audited, compared, rules_yaml, model, routed, rows, audits>>

(* So is rules.yaml (one run of run_audit reads it three times, which is   *)
(* one read here), but settings only change when the process restarts, and *)
(* its task is lost.                                                       *)
EditRules(file) ==
  /\ audits < MaxAudits
  /\ rules_yaml' = file
  /\ UNCHANGED <<audited, disk, compared, model, routed, rows, audits>>

Restart(newModel) ==
  /\ audits < MaxAudits
  /\ model' = newModel
  /\ routed' = None
  /\ UNCHANGED <<audited, disk, compared, rules_yaml, rows, audits>>

Next ==
  \/ \E skill \in Found : Route(skill) \/ RouteEnds(skill)
  \/ \E skill \in FoundAgain :
       \/ AuditCached(skill)
       \/ \E response \in Answers : AuditRun(skill, response)
       \/ AuditUnrouted(skill)
       \/ AuditRaises(skill)
  \/ \E newDisk \in Deployments : Deploy(newDisk)
  \/ \E file \in RulesFile : EditRules(file)
  \/ \E m \in Models : Restart(m)

Spec == Init /\ [][Next]_vars

-----------------------------------------------------------------------------
(* Properties *)

Winning == Winners(Manifests[disk], Snapshot[audited])

RowsStored == {rows[i] : i \in DOMAIN rows}

AuditTypeOK ==
  /\ audited \in Orders
  /\ disk \in Deployments
  /\ compared \in [MatchRules -> Comparison]
  /\ rules_yaml \in RulesFile
  /\ model \in Models
  /\ routed \in Skills \cup {None}
  /\ rows \in Seq(Row)
  /\ audits \in 0 .. MaxAudits

(* Idempotency of run_audit: however often it is called for a version,     *)
(* under settings that come and go, an input has one row, so a rerun gives *)
(* the answer the first run gave although the model might answer           *)
(* differently today.  (Rows of orders that no skill matched have no hash  *)
(* and are not told apart; the task itself audits a version once, Pipeline.*)
OneRowPerInput ==
  \A i, j \in DOMAIN rows :
    rows[i].input_hash = rows[j].input_hash /\ rows[i].input_hash # None => i = j

(* "Rules that are deterministic should never go to AI": a row made with   *)
(* the rules holds exactly the deterministic result of each rule that has  *)
(* one, none of the model's, and only rules of the skill.                  *)
DeterministicPrevail ==
  \A row \in RowsStored :
    row.input_hash # None /\ row.input_hash.rules = "parsed" =>
      /\ \A d \in RulesOfFile : {r \in row.rules : r.rule_id = d.rule_id} = {d}
      /\ \A r \in row.rules : r.rule_id \in RuleIds

(* An order only passes when no rule that is kept objects, whatever the    *)
(* model decided, and never on an answer that could not be read. The       *)
(* decision and normalized_output are computed apart: a PASS is stored     *)
(* beside an output degraded to MANUAL_REVIEW only where no rule is left.  *)
NoPassAgainstRules ==
  \A row \in RowsStored :
    row.decision = "PASS" =>
      /\ row.raw = "answer"
      /\ \A r \in row.rules : r.result = "PASS"
      /\ \/ row.normalized = "PASS"
         \/ row.normalized = "MANUAL_REVIEW" /\ row.rules = {}

(* A required field that is missing or blank never passes, nor does one    *)
(* the PDF does not mention.                                               *)
RequiredNeverPasses ==
  \A row \in RowsStored :
    row.input_hash # None /\ row.input_hash.rules = "parsed" /\ row.decision = "PASS" =>
      \A m \in Required : compared[m] = "match"

(* "Same-priority tie -> MANUAL_REQUIRED", "Empty match criteria does NOT  *)
(* act as implicit global catch-all" (test_skill_strict.py): whatever the  *)
(* order of the listing, an order goes to the one manifest that beats every *)
(* other whose criteria it meets, and to a human where there is none. It   *)
(* gets an exception when one of its lists is null, a manifest cannot be   *)
(* scored, the priority of one it meets is no number, or the winner's      *)
(* prompt is missing, and in no other case.                                *)
RoutesToTheBest ==
  \A found \in Found :
    IF Unroutable(Manifests[disk], Snapshot[audited])
    THEN found = "raises"
    ELSE \/ found = None /\ Winning = {}
         \/ \E m \in Winning : found = IF m.prompt THEN m.skill ELSE "raises"

(* A row is made by the skill that wins when run_audit reads the manifests, *)
(* not by the one the task found before they changed, and an order nobody  *)
(* wins is not audited.                                                    *)
AuditedByWinner ==
  [][\A i \in DOMAIN rows' \ DOMAIN rows :
       IF rows'[i].input_hash = None
       THEN Winning = {}
       ELSE \E m \in Winning : rows'[i].input_hash.skill = m.skill]_vars

=============================================================================
