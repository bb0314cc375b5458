\* One required and one optional rule, two audits of a version, seven sets
\* of manifests, an order that can be routed and one that cannot. After its
\* last audit the version stops.
SPECIFICATION Spec
CONSTANTS
  simple = simple
  special = special
  bundle = bundle
  Skills = {simple, special, bundle}
  WithRules = {simple}
  general = general
  specific = specific
  tied = tied
  unmatched = unmatched
  broken = broken
  unranked = unranked
  promptless = promptless
  Deployments = {general, specific, tied, unmatched, broken, unranked, promptless}
  Manifests <- MCManifests
  routable = routable
  nullList = nullList
  Orders = {routable, nullList}
  Snapshot <- MCSnapshot
  MatchRules = {skc, name}
  Required = {skc}
  CheckRules = {check}
  OtherIds = {other}
  Models = {g1, g2}
  None = None
  MaxAudits = 2
  AiRules <- MCAiRules
CHECK_DEADLOCK FALSE
INVARIANTS
  AuditTypeOK
  OneRowPerInput
  DeterministicPrevail
  NoPassAgainstRules
  RequiredNeverPasses
  RoutesToTheBest
PROPERTY
  AuditedByWinner
