---------------------------- MODULE AuditProofs ----------------------------
(***************************************************************************)
(* Theorems about the audit of an order version, for any rules.yaml, any   *)
(* answers of the model and any number of audits and settings.             *)
(***************************************************************************)
EXTENDS AuditDecision, RoutingProofs, SequenceTheorems, TLAPS

USE SkillsAssumption, RulesAssumption, NoneAssumption, AiRulesAssumption

AuditInv ==
  /\ AuditTypeOK
  /\ OneRowPerInput
  /\ DeterministicPrevail
  /\ NoPassAgainstRules
  /\ RequiredNeverPasses

(* What DeterministicPrevail, NoPassAgainstRules and RequiredNeverPasses   *)
(* say of one row.                                                         *)
RowRight(row) ==
  /\ row.input_hash # None /\ row.input_hash.rules = "parsed" =>
       /\ \A d \in RulesOfFile : {r \in row.rules : r.rule_id = d.rule_id} = {d}
       /\ \A r \in row.rules : r.rule_id \in RuleIds
  /\ row.decision = "PASS" =>
       /\ row.raw = "answer"
       /\ \A r \in row.rules : r.result = "PASS"
       /\ \/ row.normalized = "PASS"
          \/ row.normalized = "MANUAL_REVIEW" /\ row.rules = {}
  /\ row.input_hash # None /\ row.input_hash.rules = "parsed" /\ row.decision = "PASS" =>
       \A m \in Required : compared[m] = "match"

(* A rule of the file has at most one result, and a required one that does *)
(* not match has one that objects.                                         *)
LEMMA EvaluatedOnce ==
  ASSUME AuditTypeOK, NEW m \in MatchRules
  PROVE  /\ Evaluated(m) \subseteq Decision
         /\ \A a, b \in Evaluated(m) : a = b
         /\ m \in Required /\ compared[m] # "match" =>
              \E a \in Evaluated(m) : a # "PASS"
<1>1. compared[m] \in Comparison
  BY DEF AuditTypeOK
<1>2. CASE compared[m] \in {"missing", "blank", "not_found"}
  <2>1. Evaluated(m) = IF m \in Required THEN {"MANUAL_REVIEW"} ELSE {}
    BY <1>2 DEF Evaluated, Unanswered
  <2> QED
    BY <2>1 DEF Decision
<1>3. CASE compared[m] = "match"
  <2>1. Evaluated(m) = {"PASS"}
    BY <1>3 DEF Evaluated
  <2> QED
    BY <1>3, <2>1 DEF Decision
<1>4. CASE compared[m] = "several_match"
  <2>1. Evaluated(m) = {"MANUAL_REVIEW"}
    BY <1>4 DEF Evaluated
  <2> QED
    BY <2>1 DEF Decision
<1>5. CASE compared[m] = "mismatch"
  <2>1. Evaluated(m) = {"REJECT"}
    BY <1>5 DEF Evaluated
  <2> QED
    BY <2>1 DEF Decision
<1> QED
  BY <1>1, <1>2, <1>3, <1>4, <1>5 DEF Comparison

(* The file has at most one result a rule.                                 *)
LEMMA FileResultUnique ==
  ASSUME AuditTypeOK, NEW d \in RulesOfFile, NEW e \in RulesOfFile,
         d.rule_id = e.rule_id
  PROVE  d = e
<1>1. d \in RuleResult /\ e \in RuleResult
  BY DEF RulesOfFile
<1>2. CASE d.rule_id \in MatchRules
  <2>1. d.result \in Evaluated(d.rule_id) /\ e.result \in Evaluated(d.rule_id)
    BY <1>2 DEF RulesOfFile
  <2>2. d.result = e.result
    BY <1>2, <2>1, EvaluatedOnce
  <2> QED
    BY <1>1, <2>2 DEF RuleResult
<1>3. CASE d.rule_id \notin MatchRules
  <2>1. d.result = RequiredCheck /\ e.result = RequiredCheck
    BY <1>3 DEF RulesOfFile
  <2> QED
    BY <1>1, <2>1 DEF RuleResult
<1> QED
  BY <1>2, <1>3

(* A PASS means that the model said so and that no rule objects.           *)
LEMMA PassMeansAgreed ==
  ASSUME NEW decision \in Decision, NEW rules \in SUBSET RuleResult
  PROVE  /\ FinalDecision(decision, rules) \in Decision
         /\ FinalDecision(decision, rules) = "PASS" =>
              decision = "PASS" /\ \A r \in rules : r.result = "PASS"
<1>1. CASE \E r \in rules : r.result = "REJECT"
  <2>1. FinalDecision(decision, rules) = "REJECT"
    BY <1>1 DEF FinalDecision
  <2> QED
    BY <2>1 DEF Decision
<1>2. CASE (~\E r \in rules : r.result = "REJECT") /\ \E r \in rules : r.result = "MANUAL_REVIEW"
  <2>1. FinalDecision(decision, rules) = "MANUAL_REVIEW"
    BY <1>2 DEF FinalDecision
  <2> QED
    BY <2>1 DEF Decision
<1>3. CASE (~\E r \in rules : r.result = "REJECT") /\ ~\E r \in rules : r.result = "MANUAL_REVIEW"
  <2>1. FinalDecision(decision, rules) = decision
    BY <1>3 DEF FinalDecision
  <2>2. \A r \in rules : r.result = "PASS"
    BY <1>3 DEF RuleResult, Decision
  <2> QED
    BY <2>1, <2>2
<1> QED
  BY <1>1, <1>2, <1>3

(* The row an audit stores is right.                                       *)
LEMMA NewRowRight ==
  ASSUME AuditTypeOK, NEW hash \in Hash, NEW response \in Answers
  PROVE  NewRow(hash, response) \in Row /\ RowRight(NewRow(hash, response))
<1> DEFINE merged == Merged(DeterministicRules(hash.rules), response.rules)
           kept   == Validated(hash.rules, merged)
           row    == NewRow(hash, response)
<1>1. /\ response.raw \in RawOutput /\ response.decision \in Decision
      /\ response.rules \subseteq RuleResult
      /\ response.raw # "answer" => response.decision = "MANUAL_REVIEW"
  BY DEF Answers, Response, RawOutput, ManualResponses, ErrorDecision, Decision
<1>2. DeterministicRules(hash.rules) \subseteq RuleResult
  BY DEF DeterministicRules, RulesOfFile
<1>3. merged \subseteq RuleResult /\ kept \subseteq merged
  BY <1>1, <1>2 DEF Merged, Validated
<1>4. /\ row.input_hash = hash /\ row.raw = response.raw /\ row.rules = kept
      /\ row.decision = FinalDecision(response.decision, kept)
      /\ row.normalized = Degraded(hash.rules, response.decision, merged)
  BY DEF NewRow
<1>5. Degraded(hash.rules, response.decision, merged) \in Decision
  BY <1>1 DEF Degraded, Decision
<1>6. kept \in SUBSET RuleResult
  BY <1>3
<1>7. /\ FinalDecision(response.decision, kept) \in Decision
      /\ FinalDecision(response.decision, kept) = "PASS" =>
           response.decision = "PASS" /\ \A r \in kept : r.result = "PASS"
  BY <1>1, <1>6, PassMeansAgreed
<1>8. row \in Row
  BY <1>1, <1>5, <1>6, <1>7 DEF NewRow, Row
<1>9. ASSUME row.decision = "PASS"
      PROVE  /\ row.raw = "answer"
             /\ \A r \in row.rules : r.result = "PASS"
             /\ \/ row.normalized = "PASS"
                \/ row.normalized = "MANUAL_REVIEW" /\ row.rules = {}
  <2>1. response.decision = "PASS" /\ \A r \in kept : r.result = "PASS"
    BY <1>4, <1>7, <1>9
  <2>2. \/ row.normalized = "PASS"
        \/ row.normalized = "MANUAL_REVIEW" /\ kept = {}
    BY <1>4, <2>1 DEF Degraded
  <2> QED
    BY <1>1, <1>4, <2>1, <2>2
<1>10. ASSUME hash.rules = "parsed"
       PROVE  /\ RulesOfFile \subseteq kept
              /\ \A r \in kept : r.rule_id \in RuleIds
              /\ \A d \in RulesOfFile : {r \in kept : r.rule_id = d.rule_id} = {d}
  <2>1. DeterministicRules(hash.rules) = RulesOfFile
    BY <1>10 DEF DeterministicRules
  <2>2. merged = RulesOfFile
           \cup {r \in response.rules : \A d \in RulesOfFile : d.rule_id # r.rule_id}
    BY <2>1 DEF Merged
  <2>3. \A d \in RulesOfFile : d.rule_id \in RuleIds
    BY DEF RulesOfFile, RuleIds
  <2>4. RulesOfFile \subseteq kept
    BY <1>10, <2>2, <2>3 DEF Validated, ValidRuleIds
  <2>5. ASSUME NEW r \in kept PROVE r.rule_id \in RuleIds
    <3>1. RuleIds # {}
      BY DEF RuleIds
    <3> QED
      BY <1>10, <2>5, <3>1 DEF Validated, ValidRuleIds
  <2>6. ASSUME NEW d \in RulesOfFile, NEW r \in kept, r.rule_id = d.rule_id
        PROVE  r = d
    <3>1. r \in RulesOfFile
      BY <1>3, <2>2, <2>6
    <3> QED
      BY <2>6, <3>1, FileResultUnique
  <2> QED
    BY <2>4, <2>5, <2>6
<1>11. ASSUME hash.rules = "parsed", row.decision = "PASS", NEW m \in Required
       PROVE  compared[m] = "match"
  <2>1. SUFFICES ASSUME compared[m] # "match" PROVE FALSE
    OBVIOUS
  <2>2. PICK a \in Evaluated(m) : a # "PASS"
    BY <2>1, EvaluatedOnce
  <2>3. a \in Decision
    BY EvaluatedOnce
  <2>4. [rule_id |-> m, result |-> a] \in RulesOfFile
    BY <2>2, <2>3 DEF RulesOfFile, RuleResult, RuleIds
  <2>5. [rule_id |-> m, result |-> a].result = "PASS"
    BY <1>4, <1>9, <1>10, <1>11, <2>4
  <2> QED
    BY <2>2, <2>5
<1> QED
  BY <1>4, <1>8, <1>9, <1>10, <1>11 DEF RowRight

LEMMA AuditInit == Init => AuditInv
<1> SUFFICES ASSUME Init PROVE AuditInv
  OBVIOUS
<1>1. rows = <<>> /\ rows \in Seq(Row) /\ DOMAIN rows = {}
  BY DEF Init
<1>2. AuditTypeOK
  BY <1>1 DEF Init, AuditTypeOK, RulesFile
<1> QED
  BY <1>1, <1>2
  DEF AuditInv, OneRowPerInput, DeterministicPrevail, NoPassAgainstRules,
      RequiredNeverPasses, RowsStored

(* Adding a row that is right and whose input has none keeps the invariant. *)
LEMMA AppendRow ==
  ASSUME AuditInv, NEW row \in Row, RowRight(row),
         \A i \in DOMAIN rows : row.input_hash # None => rows[i].input_hash # row.input_hash,
         AuditEnds(Append(rows, row))
  PROVE  AuditInv'
<1> USE DEF AuditInv, AuditEnds
<1>1. rows \in Seq(Row)
  BY DEF AuditTypeOK
<1>2. /\ rows' \in Seq(Row)
      /\ DOMAIN rows = 1 .. Len(rows) /\ Len(rows) \in Nat
      /\ DOMAIN rows' = 1 .. Len(rows) + 1
      /\ \A i \in 1 .. Len(rows) : rows'[i] = rows[i]
      /\ rows'[Len(rows) + 1] = row
  BY <1>1, AppendProperties
<1>3. AuditTypeOK'
  BY <1>2 DEF AuditTypeOK
<1>4. OneRowPerInput'
  <2> SUFFICES ASSUME NEW i \in DOMAIN rows', NEW j \in DOMAIN rows',
                      rows'[i].input_hash = rows'[j].input_hash,
                      rows'[i].input_hash # None
               PROVE  i = j
    BY DEF OneRowPerInput
  <2>1. CASE i \in DOMAIN rows /\ j \in DOMAIN rows
    BY <1>2, <2>1 DEF OneRowPerInput
  <2>2. CASE i = Len(rows) + 1 \/ j = Len(rows) + 1
    BY <1>2, <2>2
  <2> QED
    BY <1>2, <2>1, <2>2
<1>5. RowsStored' = RowsStored \cup {row}
  BY <1>2 DEF RowsStored
<1>6. RulesOfFile' = RulesOfFile
  BY DEF RulesOfFile, Evaluated, RequiredCheck
<1>7. DeterministicPrevail'
  BY <1>5, <1>6 DEF DeterministicPrevail, RowRight
<1>8. NoPassAgainstRules'
  BY <1>5 DEF NoPassAgainstRules, RowRight
<1>9. RequiredNeverPasses'
  BY <1>5 DEF RequiredNeverPasses, RowRight
<1> QED
  BY <1>3, <1>4, <1>7, <1>8, <1>9

(* Steps that add no row.                                                  *)
LEMMA SameRows ==
  ASSUME AuditInv, AuditTypeOK', UNCHANGED <<compared, rows>>
  PROVE  AuditInv'
<1>1. RulesOfFile' = RulesOfFile /\ RowsStored' = RowsStored
  BY DEF RulesOfFile, Evaluated, RequiredCheck, RowsStored
<1> QED
  BY <1>1
  DEF AuditInv, OneRowPerInput, DeterministicPrevail, NoPassAgainstRules,
      RequiredNeverPasses

LEMMA AuditNext ==
  ASSUME AuditInv, [Next]_vars
  PROVE  AuditInv'
<1>0. AuditTypeOK
  BY DEF AuditInv
<1>1. ASSUME NEW skill \in Found, Route(skill) \/ RouteEnds(skill)
      PROVE  AuditInv'
  <2>1. AuditTypeOK' /\ UNCHANGED <<compared, rows>>
    BY <1>0, <1>1 DEF AuditTypeOK, Route, RouteEnds
  <2> QED
    BY <2>1, SameRows
<1>2. ASSUME NEW skill \in FoundAgain, AuditCached(skill) \/ AuditRaises(skill)
      PROVE  AuditInv'
  <2>1. AuditTypeOK' /\ UNCHANGED <<compared, rows>>
    BY <1>0, <1>2 DEF AuditTypeOK, AuditCached, AuditRaises, AuditEnds
  <2> QED
    BY <2>1, SameRows
<1>3. ASSUME NEW skill \in FoundAgain, NEW response \in Answers, AuditRun(skill, response)
      PROVE  AuditInv'
  <2>1. /\ skill \in Skills /\ RulesUsed(skill) # "unreadable" /\ Cached(skill) = {}
        /\ AuditEnds(Append(rows, NewRow(InputHash(skill), response)))
    BY <1>3 DEF AuditRun
  <2>2. InputHash(skill) \in Hash
    BY <1>0, <2>1 DEF InputHash, Hash, RulesUsed, RulesFile, AuditTypeOK
  <2>3. NewRow(InputHash(skill), response) \in Row /\ RowRight(NewRow(InputHash(skill), response))
    BY <1>0, <2>2, NewRowRight
  <2>4. \A i \in DOMAIN rows : rows[i].input_hash # InputHash(skill)
    BY <2>1 DEF Cached
  <2>5. NewRow(InputHash(skill), response).input_hash = InputHash(skill)
    BY DEF NewRow
  <2> QED
    BY <2>1, <2>3, <2>4, <2>5, AppendRow
<1>4. ASSUME NEW skill \in FoundAgain, AuditUnrouted(skill)
      PROVE  AuditInv'
  <2>1. AuditEnds(Append(rows, UnroutedRow))
    BY <1>4 DEF AuditUnrouted
  <2>2. UnroutedRow \in Row /\ RowRight(UnroutedRow) /\ UnroutedRow.input_hash = None
    BY DEF UnroutedRow, Row, RawOutput, Decision, RowRight
  <2> QED
    BY <2>1, <2>2, AppendRow
<1>5. ASSUME \/ \E newDisk \in Deployments : Deploy(newDisk)
             \/ \E file \in RulesFile : EditRules(file)
             \/ \E m \in Models : Restart(m)
      PROVE  AuditInv'
  <2>1. AuditTypeOK' /\ UNCHANGED <<compared, rows>>
    BY <1>0, <1>5 DEF AuditTypeOK, Deploy, EditRules, Restart
  <2> QED
    BY <2>1, SameRows
<1>6. CASE UNCHANGED vars
  <2>1. AuditTypeOK' /\ UNCHANGED <<compared, rows>>
    BY <1>0, <1>6 DEF AuditTypeOK, vars
  <2> QED
    BY <2>1, SameRows
<1> QED
  BY <1>1, <1>2, <1>3, <1>4, <1>5, <1>6 DEF Next

LEMMA AuditSafety == Spec => []AuditInv
<1> QED
  BY AuditInit, AuditNext, PTL DEF Spec

(* The variables and the stored rows have their types: a row's decision is *)
(* one of the three.                                                       *)
THEOREM AuditTypeCorrect == Spec => []AuditTypeOK
<1>1. AuditInv => AuditTypeOK
  BY DEF AuditInv
<1> QED
  BY <1>1, AuditSafety, PTL

(* An input of a version is audited once, whatever is deployed meanwhile.  *)
THEOREM OnceAudited == Spec => []OneRowPerInput
<1>1. AuditInv => OneRowPerInput
  BY DEF AuditInv
<1> QED
  BY <1>1, AuditSafety, PTL

(* A row made with the skill's rules holds their results and no other      *)
(* result of theirs, and no rule that is not the skill's.                  *)
THEOREM RulesPrevail == Spec => []DeterministicPrevail
<1>1. AuditInv => DeterministicPrevail
  BY DEF AuditInv
<1> QED
  BY <1>1, AuditSafety, PTL

(* An order passes only if the model passes it, in an answer that could be *)
(* read, and every kept rule does, and next to a degraded output only      *)
(* where no rule is left.                                                  *)
THEOREM PassAgreed == Spec => []NoPassAgainstRules
<1>1. AuditInv => NoPassAgainstRules
  BY DEF AuditInv
<1> QED
  BY <1>1, AuditSafety, PTL

(* An order with a required field that is missing, blank or not confirmed  *)
(* by the PDF never passes.                                                *)
THEOREM RequiredConfirmed == Spec => []RequiredNeverPasses
<1>1. AuditInv => RequiredNeverPasses
  BY DEF AuditInv
<1> QED
  BY <1>1, AuditSafety, PTL

-----------------------------------------------------------------------------
(* Routing *)

(* What a routing of the manifests on disk finds.                          *)
LEMMA FoundOnDisk ==
  ASSUME disk \in Deployments, NEW found \in Found
  PROVE  IF Unroutable(Manifests[disk], Snapshot[audited])
         THEN found = "raises"
         ELSE \/ found = None /\ Winning = {}
              \/ \E m \in Winning : found = IF m.prompt THEN m.skill ELSE "raises"
<1>1. PICK listing \in SetToSeqs(Manifests[disk]) :
        found = MatchSkill(listing, Snapshot[audited], None)
  BY DEF Found, Routings
<1>2. /\ IsFiniteSet(Manifests[disk])
      /\ \A m \in Manifests[disk] :
           /\ m.ranked \in BOOLEAN /\ m.prompt \in BOOLEAN
           /\ m.ranked => m.priority \in Int
  BY ManifestsAssumption
<1> QED
  BY <1>1, <1>2, BestSkillFound DEF Winning

(* Every order goes to the skill that beats the others, or to a human,     *)
(* for any manifests, priorities and listings; it gets an exception in     *)
(* exactly the cases of an order's null list, a manifest that cannot be    *)
(* scored or ranked, and a winner without its prompt.                      *)
THEOREM RoutingRight == Spec => []RoutesToTheBest
<1>1. AuditTypeOK => RoutesToTheBest
  BY FoundOnDisk DEF AuditTypeOK, RoutesToTheBest
<1> QED
  BY <1>1, AuditTypeCorrect, PTL

(* A step that adds a row adds one, at the end.                            *)
LEMMA RowAdded ==
  ASSUME AuditTypeOK, NEW row, AuditEnds(Append(rows, row)), NEW i \in DOMAIN rows' \ DOMAIN rows
  PROVE  rows'[i] = row
<1>1. rows' = Append(rows, row) /\ rows \in Seq(Row)
  BY DEF AuditEnds, AuditTypeOK
<1> QED
  BY <1>1

LEMMA WinnerAudits ==
  ASSUME AuditTypeOK, [Next]_vars, NEW i \in DOMAIN rows' \ DOMAIN rows
  PROVE  IF rows'[i].input_hash = None
         THEN Winning = {}
         ELSE \E m \in Winning : rows'[i].input_hash.skill = m.skill
<1>0. /\ disk \in Deployments
      /\ \A m \in Winning : m.skill \in Skills
  BY ManifestsAssumption DEF AuditTypeOK, Winning, Winners
<1>1. rows' # rows
  OBVIOUS
<1>2. ASSUME NEW skill \in FoundAgain, NEW response \in Answers, AuditRun(skill, response)
      PROVE  \E m \in Winning : /\ rows'[i].input_hash # None
                                /\ rows'[i].input_hash.skill = m.skill
  <2>1. /\ skill \in Skills /\ RulesUsed(skill) # "unreadable"
        /\ AuditEnds(Append(rows, NewRow(InputHash(skill), response)))
    BY <1>2 DEF AuditRun
  <2>2. rows'[i].input_hash = InputHash(skill)
    BY <2>1, RowAdded DEF NewRow
  <2>3. InputHash(skill) \in Hash /\ InputHash(skill).skill = skill
    BY <2>1 DEF InputHash, Hash, RulesUsed, RulesFile, AuditTypeOK
  <2>4. skill \in Found
    BY DEF FoundAgain
  <2> QED
    BY <1>0, <2>1, <2>2, <2>3, <2>4, FoundOnDisk
<1>3. ASSUME NEW skill \in FoundAgain, AuditUnrouted(skill)
      PROVE  rows'[i].input_hash = None /\ Winning = {}
  <2>1. skill = None /\ AuditEnds(Append(rows, UnroutedRow))
    BY <1>3 DEF AuditUnrouted
  <2>2. rows'[i].input_hash = None
    BY <2>1, RowAdded DEF UnroutedRow
  <2>3. None \in Found
    BY <2>1 DEF FoundAgain
  <2> QED
    BY <1>0, <2>2, <2>3, FoundOnDisk
<1>4. \/ \E skill \in FoundAgain, response \in Answers : AuditRun(skill, response)
      \/ \E skill \in FoundAgain : AuditUnrouted(skill)
  BY <1>1
  DEF Next, vars, Route, RouteEnds, AuditCached, AuditRaises, AuditEnds,
      Deploy, EditRules, Restart
<1> QED
  BY <1>2, <1>3, <1>4

(* A row is made by the skill that wins when run_audit reads the manifests, *)
(* and a row without an input only where nothing wins.                     *)
THEOREM WinnerAudited == Spec => AuditedByWinner
<1>1. AuditTypeOK /\ [Next]_vars =>
        [\A i \in DOMAIN rows' \ DOMAIN rows :
           IF rows'[i].input_hash = None
           THEN Winning = {}
           ELSE \E m \in Winning : rows'[i].input_hash.skill = m.skill]_vars
  BY WinnerAudits
<1> QED
  BY <1>1, AuditTypeCorrect, PTL DEF Spec, AuditedByWinner

=============================================================================
