---------------------------- MODULE EvidencePolicy ----------------------------
(***************************************************************************)
(* orchestration/evidence_policy.py: the judgement of one pass of tools    *)
(* against the plan that asked for them, and the resolution of the facts   *)
(* that a caller asserts of the evidence.                                  *)
(*                                                                         *)
(* A reply is a status and, when it is "ok", a set of evidence; what the   *)
(* policy tells apart of an evidence is a field of it.  Reason codes are   *)
(* the source's, shortened.                                                *)
(***************************************************************************)
EXTENDS Naturals, FiniteSets, FiniteSetsExt

Tool == {"wiki", "document", "system"}
Scope == {"policy", "state"}

\* What the adapters declare of their evidence.
Authority(source) == CASE source = "wiki" -> 60
                       [] source = "document" -> 80
                       [] source = "system" -> 100

\* Evidence: located is a locator, dated a version or an observation time,
\* scoped the authority scope of live state.
Evidence == [source : Tool, authority : 0..100, located : BOOLEAN, dated : BOOLEAN, scoped : BOOLEAN]

\* A result is wired to its tool, and carries evidence exactly when it is "ok".
IsWired(tool, result) ==
    /\ result.status \in {"ok", "empty", "error"}
    /\ (result.status = "ok") <=> (result.evidence # {})
    /\ \A e \in result.evidence : e.source = tool

Of(source, evidence) == {e \in evidence : e.source = source}

When(condition, code) == IF condition THEN {code} ELSE {}
Reporting(status, steps, results) == {t \in steps \cap DOMAIN results : results[t].status = status}

\* The evidence that the successful steps brought.
Usable(steps, results) == UNION {results[t].evidence : t \in Reporting("ok", steps, results)}

\* Why a planned step brought nothing.
FailureReasons(steps, results) ==
    When(~(steps \subseteq DOMAIN results), "missing_tool_result")
      \cup When(Reporting("empty", steps, results) # {}, "empty_tool_result")
      \cup When(Reporting("error", steps, results) # {}, "tool_error")

\* A live record must say when it was read and that it speaks for live state; a
\* request for a current value needs a live record or a dated document.
FreshnessReasons(wanted, usable) ==
    LET system == Of("system", usable)
        attesting == {e \in system \cup Of("document", usable) : e.dated}
    IN  When(\E e \in system : ~e.dated, "system_missing_observed_at")
          \cup When(\E e \in system : ~e.scoped, "system_missing_authority_scope")
          \cup When(wanted /\ attesting = {}, "freshness_unsupported")

\* The evidence that may be quoted.
Citable(usable) == {e \in Of("document", usable) : e.located}

CitationReasons(wanted, steps, usable) ==
    LET found == "document" \in steps /\ Of("document", usable) # {}
    IN  When(wanted /\ ~found, "citation_missing_document")
          \cup When(wanted /\ found /\ Citable(usable) = {}, "citation_missing_locator")

-----------------------------------------------------------------------------
(* Facts.  An assertion is [evidence, scope, subject, key, value], where    *)
(* evidence is the object it is made of, and subject and key are one field  *)
(* here: topic.                                                             *)

\* System never decides what a policy means: it is filtered, not outranked.
IsEligible(a) == a.scope # "policy" \/ a.evidence.source # "system"

Rank(a) == a.evidence.authority
ValuesOf(group) == {a.value : a \in group}

\* Seeded fault: a weaker source breaks the tie of the stronger ones.
TopTierOfMajority(eligible) ==
    {a \in eligible : \A b \in eligible :
        Cardinality({x \in eligible : x.value = b.value}) <= Cardinality({x \in eligible : x.value = a.value})}

\* The assertions that decide: those of the highest authority.
TopTier(eligible) == {a \in eligible : \A b \in eligible : Rank(b) <= Rank(a)}

\* The assertions that were outranked: by the winners, or by the tier that is divided.
Superseded(eligible, top, agreeing, resolved) == eligible \ (IF resolved THEN agreeing ELSE top)

\* _resolve_group: the buckets of a group, and its winning value.
Resolution(group) ==
    LET eligible == {a \in group : IsEligible(a)}
        top == TopTier(eligible)
        resolved == Cardinality(ValuesOf(top)) = 1
        agreeing == {a \in eligible : a.value \in ValuesOf(top)}
    IN  [resolved    |-> resolved,
         winner      |-> IF resolved THEN ValuesOf(top) ELSE {},
         winning     |-> IF resolved THEN agreeing ELSE {},
         contending  |-> IF resolved THEN {} ELSE top,
         superseded  |-> Superseded(eligible, top, agreeing, resolved),
         ignored     |-> group \ eligible,
         settled     |-> resolved /\ Cardinality(ValuesOf(eligible)) > 1]

TopicOf(a) == <<a.scope, a.topic>>
Topics(assertions) == {TopicOf(a) : a \in assertions}
Group(assertions, topic) == {a \in assertions : TopicOf(a) = topic}

FactReasons(assertions) ==
    LET resolutions == {Resolution(Group(assertions, t)) : t \in Topics(assertions)}
    IN  When(\E r \in resolutions : r.ignored # {}, "system_excluded_from_policy")
          \cup When(\E r \in resolutions : r.settled, "conflict_resolved")
          \cup When(\E r \in resolutions : ~r.resolved, "conflict_unresolved")

\* An assertion is made of evidence of a successful step, once per topic.
IsAssertable(assertions, usable, a) ==
    /\ a.evidence \in usable
    /\ \A b \in assertions : b.evidence = a.evidence => TopicOf(b) # TopicOf(a)

-----------------------------------------------------------------------------
Informational == {"system_excluded_from_policy", "conflict_resolved"}

\* evaluate_evidence.  Every check runs; any blocking reason refuses.
Judge(steps, freshness, citation, results, assertions) ==
    LET usable == Usable(steps, results)
        reasons == FailureReasons(steps, results)
                     \cup FreshnessReasons(freshness, usable)
                     \cup CitationReasons(citation, steps, usable)
                     \cup FactReasons(assertions)
    IN  IF steps = {} THEN [outcome |-> "direct", reasons |-> {}, usable |-> {}, citable |-> {}]
        ELSE [outcome |-> IF reasons \subseteq Informational THEN "ready" ELSE "refuse",
              reasons |-> reasons, usable |-> usable,
              citable |-> IF citation THEN Citable(usable) ELSE {}]

-----------------------------------------------------------------------------
(* Properties *)

Buckets(r) == <<r.winning, r.contending, r.superseded, r.ignored>>
Eligible(group) == {a \in group : IsEligible(a)}

\* Every assertion of a group lands in exactly one bucket of its resolution, so that
\* nothing a caller asserted disappears, and a winner has nothing contending.
IsPartitioned(group) ==
    LET r == Resolution(group)
        b == Buckets(r)
    IN  /\ UNION {b[i] : i \in 1..4} = group
        /\ \A i, j \in 1..4 : i # j => b[i] \cap b[j] = {}
        /\ r.winner # {} => b[2] = {} /\ b[1] # {}

\* A topic that resolves does so to what its most authoritative sources say, and of
\* those none says anything else; with the documents divided, no other source decides.
IsDecidedByAuthority(group) ==
    \A v \in Resolution(group).winner, a \in Eligible(group) :
        a.value # v => \E b \in Eligible(group) : b.value = v /\ Rank(b) > Rank(a)

\* An assertion of a source that is outranked changes neither whether its topic is
\* resolved nor to what: it can corroborate, and break no tie.  Nor does a system
\* record that says anything, the same or not, of what a policy says.
WeakerChangesNothing(group) ==
    \A a \in group :
        (\E b \in Eligible(group) : Rank(b) > Rank(a)) \/ (~IsEligible(a) /\ Eligible(group) # {}) =>
           LET before == Resolution(group \ {a})
               after  == Resolution(group)
           IN  before.winner = after.winner /\ before.contending = after.contending
=============================================================================
