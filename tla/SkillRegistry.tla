--------------------------- MODULE SkillRegistry ---------------------------
(***************************************************************************)
(* Which skill audits an order (skills/registry.py): the manifests on disk *)
(* are read again for every order, in the order in which the file system   *)
(* lists them, and the most specific one whose criteria the order meets    *)
(* wins.                                                                   *)
(*                                                                         *)
(* A manifest file is a record: file, its name; read, "loaded" (a YAML     *)
(* object with skill_id and prompt_file, enabled), "ignored" (disabled,    *)
(* incomplete, not an object, not YAML, unreadable) or "raises" (loaded,   *)
(* but "match" or one of its lists is null, or text that does not decode); *)
(* skill, its skill_id with version and prompt; match, the values listed   *)
(* for each criterion; ranked, whether int() takes its priority (null does *)
(* not), and priority, what int() makes of it; prompt, whether its         *)
(* prompt_file exists.                                                     *)
(*                                                                         *)
(* An order is a record: values, those of its snapshot for each criterion; *)
(* readable, FALSE where the snapshot has null for its list of industries  *)
(* or of categories.                                                       *)
(***************************************************************************)
EXTENDS Integers, FiniteSets

Criterion ==
  {"scene", "audit_point", "certificate_type", "industry", "category", "business_type"}

Weight ==
  [c \in Criterion |->
    CASE c \in {"scene", "audit_point", "certificate_type"} -> 10
      [] c \in {"industry", "category"} -> 5
      [] c = "business_type" -> 15]

(* The points of a set of criteria, added one criterion after the other.   *)
Points(criteria) ==
  LET Added(c) == IF c \in criteria THEN Weight[c] ELSE 0
  IN  Added("scene") + Added("audit_point") + Added("certificate_type")
        + Added("industry") + Added("category") + Added("business_type")

(* A criterion without values is not specified.                            *)
Specified(m) == {c \in Criterion : m.match[c] # {}}

(* An order has at most one scene, audit point, certificate type and       *)
(* business type, and several industries and categories.                   *)
Satisfied(m, order) == {c \in Criterion : m.match[c] \cap order.values[c] # {}}

(* _score_match: all that is specified or nothing.                         *)
Score(m, order) ==
  IF Specified(m) \subseteq Satisfied(m, order) THEN Points(Specified(m)) ELSE 0

(* load_manifests, and the matches: the places, in a listing, of the       *)
(* manifests that score.                                                   *)
Matches(listing, order) ==
  {i \in DOMAIN listing : listing[i].read = "loaded" /\ Score(listing[i], order) > 0}

(* The sort key (score, priority), highest first.                          *)
SameKey(m, n, order) ==
  Score(m, order) = Score(n, order) /\ m.priority = n.priority

Before(m, n, order) ==
  \/ Score(m, order) > Score(n, order)
  \/ Score(m, order) = Score(n, order) /\ m.priority > n.priority

(* The order of the sorted matches: the sort is stable.                    *)
Precedes(listing, order, i, j) ==
  \/ Before(listing[i], listing[j], order)
  \/ SameKey(listing[i], listing[j], order) /\ i < j

First(listing, order) ==
  CHOOSE i \in Matches(listing, order) :
    \A j \in Matches(listing, order) : ~Precedes(listing, order, j, i)

(* MUTANT of Tied: the first of the tied manifests is as good as any.      *)
NoneTied(listing, order) == {}

Tied(listing, order) ==
  {i \in Matches(listing, order) \ {First(listing, order)} :
    SameKey(listing[i], listing[First(listing, order)], order)}

(* The exceptions before the sort: the order's lists are read before any   *)
(* manifest is scored, every manifest is scored whatever the order needs,  *)
(* and the priority is read of those that match.                           *)
Unsortable(listing, order) ==
  \/ ~order.readable
  \/ \E i \in DOMAIN listing : listing[i].read = "raises"
  \/ \E i \in Matches(listing, order) : ~listing[i].ranked

(* match_skill: an exception, no skill when nothing matches or the best    *)
(* tie, or the best one, whose prompt may be missing.                      *)
MatchSkill(listing, order, noSkill) ==
  LET best == listing[First(listing, order)]
  IN  CASE Unsortable(listing, order) -> "raises"
        [] /\ ~Unsortable(listing, order)
           /\ (Matches(listing, order) = {} \/ Tied(listing, order) # {}) -> noSkill
        [] OTHER -> IF best.prompt THEN best.skill ELSE "raises"

-----------------------------------------------------------------------------
(* What routing promises, independent of listings and scores' computation. *)

(* Every criterion the manifest names is met, and it names one.            *)
Eligible(m, order) ==
  /\ m.read = "loaded"
  /\ \E c \in Criterion : m.match[c] # {}
  /\ \A c \in Criterion : m.match[c] # {} => \E v \in m.match[c] : v \in order.values[c]

(* Nothing can be said of the order, or of a manifest there is to compare. *)
Unroutable(disk, order) ==
  \/ ~order.readable
  \/ \E m \in disk : m.read = "raises" \/ (Eligible(m, order) /\ ~m.ranked)

(* The points of a manifest's criteria.                                    *)
Specificity(m) ==
  10 * Cardinality({c \in {"scene", "audit_point", "certificate_type"} : m.match[c] # {}})
  + 5 * Cardinality({c \in {"industry", "category"} : m.match[c] # {}})
  + 15 * Cardinality({c \in {"business_type"} : m.match[c] # {}})

(* The manifest no other eligible one equals.                              *)
Winners(disk, order) ==
  {m \in disk :
    /\ Eligible(m, order)
    /\ \A n \in disk \ {m} :
         Eligible(n, order) =>
           \/ Specificity(m) > Specificity(n)
           \/ Specificity(m) = Specificity(n) /\ m.priority > n.priority}

=============================================================================
