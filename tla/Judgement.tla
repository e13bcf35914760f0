------------------------------ MODULE Judgement ------------------------------
(***************************************************************************)
(* From a model's answer to a page: decode_response (compile/contract.rs),  *)
(* DefaultSourceRefValidator, the arbiter over related pages                *)
(* (compile/consistency.rs), RuleBasedScorer and its gates                  *)
(* (compile/quality.rs), in the order of CompileExecutor::process_lease.    *)
(*                                                                         *)
(* A text is a sequence of words, and joining two with a space is their     *)
(* concatenation.  A source is [entity, revision, fields]; fields maps the  *)
(* pointers of its string leaves to texts.  An answer is [title, aliases,   *)
(* tags, sections, markdown]: a section is [refs, assertions], a ref        *)
(* [id, entity, revision, pointer, value, quote] and an assertion           *)
(* [text, refs].  The markdown is the list of assertions it renders,        *)
(* section by section.                                                      *)
(***************************************************************************)
EXTENDS Integers, SequencesExt, FiniteSetsExt

CONSTANTS
  Entity, Malformed,  \* Malformed: an id that is not r1, r2, ...
  None,               \* no page, no score
  Source(_, _),       \* the source of an entity at a revision
  MaxRevision,        \* bound on revisions
  Answer(_),          \* answers the model may give for a source
  Policy              \* [requireRefs, coverage, density, overall, consistency,
                      \*  compared]; shares are percentages

IsList(s) == s \in Seq(ToSet(s))

ASSUME JudgementAssumption ==
  /\ MaxRevision \in Nat \ {0}
  /\ \A e \in Entity : \A n \in 1..MaxRevision :
       /\ Source(e, n).entity = e
       /\ \A answer \in Answer(Source(e, n)) :
            /\ IsList(answer.sections)
            /\ \A section \in ToSet(answer.sections) :
                 /\ IsList(section.refs) /\ IsList(section.assertions)
                 /\ \A a \in ToSet(section.assertions) : IsList(a.refs)
  /\ None \notin Entity \cup {"INVALID_OUTPUT", "REFS", "QUALITY_BELOW_THRESHOLD",
                            "CONSISTENCY_BELOW_THRESHOLD"}

VARIABLES
  revision,   \* of every entity's source
  published,  \* entity -> [source, answer, consistency], or None
  failure     \* last_error of the entity's task, or None

jvars == <<revision, published, failure>>

-----------------------------------------------------------------------------
(* decode_response, without its limits on lengths.                         *)

Words(answer) == {answer.title} \cup answer.aliases \cup answer.tags

Decoded(answer) ==
  /\ <<>> \notin Words(answer)
  /\ answer.sections # <<>>
  /\ \A i \in DOMAIN answer.sections :
       /\ answer.sections[i].assertions # <<>>
       /\ \A j \in DOMAIN answer.sections[i].assertions :
            answer.sections[i].assertions[j].text # <<>>

-----------------------------------------------------------------------------
(* DefaultSourceRefValidator.                                              *)

Within(part, text) == part \in SubSeqs(text)

\* The refs of an answer by section and position, in the order they are read.
Places(answer) ==
  UNION {{<<i, j>> : j \in DOMAIN answer.sections[i].refs} :
         i \in DOMAIN answer.sections}
RefAt(answer, x) == answer.sections[x[1]].refs[x[2]]
Refs(answer) == {RefAt(answer, x) : x \in Places(answer)}
Earlier(x, y) == x[1] < y[1] \/ (x[1] = y[1] /\ x[2] < y[2])

\* A well-formed id, seen for the first time.
Numbered(answer, x) ==
  /\ RefAt(answer, x).id # Malformed
  /\ \A y \in Places(answer) :
       Earlier(y, x) => RefAt(answer, y).id # RefAt(answer, x).id

\* The pointer has a string, the value is that string, and the quote occurs.
FaultyBacked(source, r) ==
  /\ r.pointer \in DOMAIN source.fields
  /\ r.quote # <<>> /\ Within(r.quote, r.value)
Backed(source, r) ==
  /\ r.pointer \in DOMAIN source.fields
  /\ r.value = source.fields[r.pointer]
  /\ r.quote # <<>> /\ Within(r.quote, source.fields[r.pointer])

ValidRefs(source, answer) ==
  {RefAt(answer, x) : x \in {y \in Places(answer) :
     Numbered(answer, y) /\ Backed(source, RefAt(answer, y))}}

Ids(refs) == {r.id : r \in refs}

\* ref_index: the last ref of the section with that id.
RefOf(section, id) ==
  section.refs[Max({n \in DOMAIN section.refs : section.refs[n].id = id})]
Known(section, a) == ToSet(a.refs) \subseteq Ids(ToSet(section.refs))
Joined(section, a) ==
  FlattenSeq([k \in DOMAIN a.refs |-> RefOf(section, a.refs[k]).quote])
Supported(valid, section, a) ==
  /\ a.refs # <<>>
  /\ Known(section, a)
  /\ ToSet(a.refs) \subseteq Ids(valid)
  /\ a.text = Joined(section, a)

Used(section) == UNION {ToSet(a.refs) : a \in ToSet(section.assertions)}
Unused(section) == {n \in DOMAIN section.refs : section.refs[n].id \notin Used(section)}

\* render_canonical_markdown, up to layout.
Canonical(answer) ==
  [i \in DOMAIN answer.sections |-> answer.sections[i].assertions]

\* A ref of another entity or revision is an issue, and stays valid.
FaultyForeign(source, r) == r.revision # source.revision
Foreign(source, r) ==
  \/ r.entity # source.entity
  \/ r.revision # source.revision


RefsAreClean(source, answer) ==
  \A x \in Places(answer) :
     /\ Numbered(answer, x)
     /\ ~Foreign(source, RefAt(answer, x))
     /\ Backed(source, RefAt(answer, x))

AssertionsAreClean(answer, requireRefs) ==
  \A s \in ToSet(answer.sections) :
     /\ Unused(s) = {}
     /\ \A a \in ToSet(s.assertions) :
          /\ requireRefs => a.refs # <<>>
          /\ Known(s, a)
          /\ a.refs # <<>> => a.text = Joined(s, a)

\* The title, aliases and tags occur in quotes, the markdown is canonical.
FaultyPageIsClean(source, answer) ==
  /\ answer.markdown = Canonical(answer)
  /\ \E r \in ValidRefs(source, answer) : Within(answer.title, r.quote)
PageIsClean(source, answer) ==
  /\ answer.markdown = Canonical(answer)
  /\ \A text \in Words(answer) :
       \E r \in ValidRefs(source, answer) : Within(text, r.quote)

\* The report of validate has no issue.
Clean(source, answer) ==
  /\ RefsAreClean(source, answer)
  /\ AssertionsAreClean(answer, Policy.requireRefs)
  /\ PageIsClean(source, answer)

-----------------------------------------------------------------------------
(* RuleBasedScorer.  A share is <<part, whole>>.                           *)

Share(part, whole) == IF whole = 0 THEN <<0, 1>> ELSE <<part, whole>>
Lower(x, y) == IF x[1] * y[2] <= y[1] * x[2] THEN x ELSE y
Plus(x, y) == <<x[1] * y[2] + y[1] * x[2], x[2] * y[2]>>
AtLeast(x, percent) == 100 * x[1] >= percent * x[2]

AssertionsOf(answer) ==
  UNION {{<<i, j>> : j \in DOMAIN answer.sections[i].assertions} :
         i \in DOMAIN answer.sections}
AssertionAt(answer, x) == answer.sections[x[1]].assertions[x[2]]
SupportedOf(source, answer) ==
  {x \in AssertionsOf(answer) :
     Supported(ValidRefs(source, answer), answer.sections[x[1]],
               AssertionAt(answer, x))}

\* The refs that supported assertions cite.
CitedOf(source, answer) ==
  {r \in ValidRefs(source, answer) :
     \E x \in SupportedOf(source, answer) :
        r.id \in ToSet(AssertionAt(answer, x).refs)}

Units(source) == {p \in DOMAIN source.fields : source.fields[p] # <<>>}
Coverage(source, answer) ==
  LET covered == {r.pointer : r \in CitedOf(source, answer)} \cap Units(source)
  IN  Share(Cardinality(covered), Cardinality(Units(source)))

\* The markers of the page, and the refs that none of them names.
MarkersOf(answer) ==
  UNION {{<<x, k>> : k \in DOMAIN AssertionAt(answer, x).refs} :
         x \in AssertionsOf(answer)}
UnusedOf(answer) ==
  UNION {{<<i, n>> : n \in Unused(answer.sections[i])} :
         i \in DOMAIN answer.sections}
Citation(source, answer) ==
  LET all == AssertionsOf(answer)
      markers == Cardinality(MarkersOf(answer))
      unused == Cardinality(UnusedOf(answer))
  IN  IF all = {} \/ markers + unused = 0 THEN <<0, 1>>
      ELSE Lower(Share(Cardinality(SupportedOf(source, answer)), Cardinality(all)),
                 Share(markers, markers + unused))

\* Words of the leaves that a quote's first occurrence covers, once each.
Covered(source, r) ==
  LET last == IndexFirstSubSeq(r.quote, source.fields[r.pointer]) + Len(r.quote) - 1
  IN  IF ~Within(r.quote, source.fields[r.pointer]) THEN {}
      ELSE {<<r.pointer, n>> : n \in (last - Len(r.quote) + 1)..last}
Density(source, answer) ==
  LET total == Cardinality(
                 UNION {{<<x, k>> : k \in DOMAIN AssertionAt(answer, x).text} :
                        x \in AssertionsOf(answer)})
      information == Cardinality(UNION {Covered(source, r) :
                                        r \in CitedOf(source, answer)})
  IN  Share(Min({information, total}), total)

-----------------------------------------------------------------------------
(* SourceRefConsistencyArbiter.                                            *)

\* Accepted pages other than the candidate's own, which is the entity's.
\* Full text search returns some of them.
Others(e) == {o \in Entity \ {e} : published[o] # None}

\* collect_page_refs: what the pages say under a key, a value once per page.
Occurrences(answers, key) ==
  UNION {{<<o, r.value>> : r \in {x \in Refs(answers[o]) :
            <<x.entity, x.pointer>> = key /\ x.pointer \in Policy.compared}} :
         o \in DOMAIN answers}

\* Keys that occur twice, and the share of them that agrees.
ConsistencyOf(answers) ==
  LET refs == UNION {Refs(answers[o]) : o \in DOMAIN answers}
      keys == {<<r.entity, r.pointer>> : r \in refs}
      compared == {k \in keys : Cardinality(Occurrences(answers, k)) > 1}
      equal == {k \in compared : \A x, y \in Occurrences(answers, k) : x[2] = y[2]}
  IN  IF compared = {} THEN None
      ELSE <<Cardinality(equal), Cardinality(compared)>>

-----------------------------------------------------------------------------
(* passes_gates, and process_lease after a claim.                          *)

Disagrees(score) ==
  score # None /\ ~AtLeast(score, Policy.consistency)

\* QualityScore::overall, where schema_compliance is 1.
Overall(source, answer, score) ==
  LET four == Plus(Plus(Coverage(source, answer), Citation(source, answer)),
                   Plus(<<1, 1>>, Density(source, answer)))
  IN  IF score = None THEN Plus(four, <<0, 1>>) ELSE Plus(four, score)

Accepts(source, answer, score) ==
  LET overall == Overall(source, answer, score)
  IN  /\ Clean(source, answer)
      /\ ~Disagrees(score)
      /\ AtLeast(overall, Policy.overall * (IF score = None THEN 4 ELSE 5))
      /\ AtLeast(Coverage(source, answer), Policy.coverage)
      /\ AtLeast(Density(source, answer), Policy.density)
      /\ AtLeast(Citation(source, answer), 100)

\* quality_failure_code: the first issue; the arbiter's comes last.
FailureOf(source, answer, score) ==
  IF ~Decoded(answer) THEN "INVALID_OUTPUT"
  ELSE IF ~Clean(source, answer) THEN "REFS"
  ELSE IF Disagrees(score) THEN "CONSISTENCY_BELOW_THRESHOLD"
  ELSE "QUALITY_BELOW_THRESHOLD"

Judge(e, answer, related) ==
  LET source == Source(e, revision[e])
      answers == [o \in related \cup {e} |->
                    IF o = e THEN answer ELSE published[o].answer]
      score == ConsistencyOf(answers)
  IN  IF Decoded(answer) /\ Accepts(source, answer, score)
      THEN /\ published' = [published EXCEPT ![e] =
                [source |-> source, answer |-> answer, consistency |-> score]]
           /\ failure' = [failure EXCEPT ![e] = None]
           /\ UNCHANGED revision
      ELSE /\ failure' = [failure EXCEPT ![e] = FailureOf(source, answer, score)]
           /\ UNCHANGED <<revision, published>>

\* The source has new content, and the entity a new task.
Revise(e) ==
  /\ revision[e] < MaxRevision
  /\ revision' = [revision EXCEPT ![e] = @ + 1]
  /\ failure' = [failure EXCEPT ![e] = None]
  /\ UNCHANGED published

JudgementInit ==
  /\ revision = [e \in Entity |-> 1]
  /\ published = [e \in Entity |-> None]
  /\ failure = [e \in Entity |-> None]

JudgementNext ==
  \E e \in Entity :
     \/ Revise(e)
     \/ \E answer \in Answer(Source(e, revision[e])) :
          \E related \in SUBSET Others(e) : Judge(e, answer, related)

-----------------------------------------------------------------------------
(* Properties.                                                             *)

\* Whatever the policy asks for, and whatever the model makes up, every
\* assertion of an accepted page puts together passages of the source the page
\* names, which the refs it cites point at (validate and passes_gates).
AcceptedPagesAreGrounded ==
  \A e \in {x \in Entity : published[x] # None} :
     LET s == published[e].source
         Passages(p) == {text \in SubSeqs(s.fields[p]) : text # <<>>}
     IN  \A section \in ToSet(published[e].answer.sections) :
         \A a \in ToSet(section.assertions) :
            /\ a.refs # <<>>
            /\ \E cited \in [DOMAIN a.refs -> ToSet(section.refs)] :
                 /\ \A k \in DOMAIN a.refs :
                      /\ cited[k].id = a.refs[k]
                      /\ cited[k].entity = e
                      /\ cited[k].revision = s.revision
                      /\ cited[k].quote \in Passages(cited[k].pointer)
                 /\ a.text = FlattenSeq([k \in DOMAIN a.refs |-> cited[k].quote])

\* The arbiter never decides: a page is its entity's, related pages are other
\* entities', and refs to other entities are issues of their own.  So no page
\* is published with a score, and none fails for the arbiter's reason alone.
ArbiterIsSilent ==
  \A e \in Entity :
     /\ published[e] # None => published[e].consistency = None
     /\ failure[e] # "CONSISTENCY_BELOW_THRESHOLD"
=============================================================================
