----------------------------- MODULE MCGrounding -----------------------------
(***************************************************************************)
(* The constants of Grounding: two drinks whose sources have a title and a  *)
(* note, answers with up to two refs and assertions, and queries with up to *)
(* two conditions over configurations with up to two.                       *)
(***************************************************************************)
EXTENDS Grounding, TLC

CONSTANTS e1, e2, w1, w2, w3, price, size, ice, few, lots, hot

Title == "/fields/title"
Note == "/fields/note"

\* A revision changes the note; the drinks share their words.
MCSource(e, n) ==
  [entity |-> e, revision |-> n,
   fields |-> [p \in {Title, Note} |->
                 IF p = Title THEN (IF e = e1 THEN <<w1>> ELSE <<w2>>)
                 ELSE IF n = 1 THEN <<w1, w2>> ELSE <<w2, w3>>]]

Ref(id, e, n, p, value, quote) ==
  [id |-> id, entity |-> e, revision |-> n, pointer |-> p, value |-> value,
   quote |-> quote]

\* Sound refs to the title and to the note, and one slip of every kind.
TitleRef(s) == Ref(1, s.entity, s.revision, Title, s.fields[Title], s.fields[Title])
NoteRef(s) == Ref(2, s.entity, s.revision, Note, s.fields[Note], s.fields[Note])
SlipRefs(s) ==
  {TitleRef(s), NoteRef(s)}
    \cup {[NoteRef(s) EXCEPT !.entity = e] : e \in Entity}
    \cup {[NoteRef(s) EXCEPT !.revision = 3 - s.revision],
          [NoteRef(s) EXCEPT !.pointer = "/fields/none"],
          [NoteRef(s) EXCEPT !.id = Malformed],
          [NoteRef(s) EXCEPT !.id = 1],
          [NoteRef(s) EXCEPT !.value = <<w3, w1>>, !.quote = <<w3>>],
          [NoteRef(s) EXCEPT !.quote = <<w3, w1>>],
          [NoteRef(s) EXCEPT !.quote = SubSeq(s.fields[Note], 1, 1)]}

Assertion(refs, ids) ==
  [refs |-> ids,
   text |-> FlattenSeq([k \in DOMAIN ids |->
              LET at == {n \in DOMAIN refs : refs[n].id = ids[k]}
              IN  IF at = {} THEN <<w1>> ELSE refs[Max(at)].quote])]

\* A section on two refs, one section per ref, and an answer of sections.
Together(s, r, ids) ==
  <<[refs |-> <<TitleRef(s), r>>, assertions |-> <<Assertion(<<TitleRef(s), r>>, ids)>>]>>
Apart(s, r) ==
  <<[refs |-> <<TitleRef(s)>>, assertions |-> <<Assertion(<<TitleRef(s)>>, <<1>>)>>],
    [refs |-> <<r>>, assertions |-> <<Assertion(<<r>>, <<r.id>>)>>]>>
AnswerOf(s, sections) ==
  [title |-> s.fields[Title], aliases |-> {}, tags |-> {}, sections |-> sections,
   markdown |-> [i \in DOMAIN sections |-> sections[i].assertions]]

\* A sound answer, and answers that differ from it in a ref, in how an
\* assertion uses its refs, or in what stands outside the sections.
Sound(s) == AnswerOf(s, Together(s, NoteRef(s), <<1, 2>>))
MCAnswer(s) ==
  {AnswerOf(s, Together(s, r, <<1, 2>>)) : r \in SlipRefs(s)}
    \cup {AnswerOf(s, Apart(s, r)) : r \in SlipRefs(s) \ {NoteRef(s)}}
    \cup {AnswerOf(s, Together(s, NoteRef(s), ids)) :
            ids \in {<<>>, <<1>>, <<1, 3>>, <<1, 2, 2, 2>>}}
    \cup {[AnswerOf(s, Together(s, NoteRef(s), <<1, 2>>)) EXCEPT
             !.sections[1].assertions = @ \o <<a>>,
             !.markdown[1] = @ \o <<a>>] :
            a \in {[refs |-> <<2>>, text |-> <<w3>>], [refs |-> <<>>, text |-> <<w2>>]}}
    \cup {[Sound(s) EXCEPT !.aliases = {<<w2>>}],
          [Sound(s) EXCEPT !.tags = {s.fields[Note]}],
          [Sound(s) EXCEPT !.aliases = {<<w3>>}], [Sound(s) EXCEPT !.tags = {<<w3>>}],
          [Sound(s) EXCEPT !.title = <<w3>>], [Sound(s) EXCEPT !.markdown = <<>>],
          AnswerOf(s, <<>>)}
    \cup {AnswerOf(s, <<[refs |-> <<TitleRef(s)>>,
                         assertions |-> <<Assertion(<<TitleRef(s)>>, <<1>>)>>]>>)}

MCPolicy ==
  [requireRefs |-> FALSE, coverage |-> 60, density |-> 50, overall |-> 80,
   consistency |-> 80, compared |-> {Title, Note}]

\* A configured phrase with one condition.
Configured(phrase, c) ==
  [phrase |-> phrase, to |-> <<phrase>>, terms |-> <<>>, conditions |-> <<c>>,
   intent |-> FALSE]
Cheap == Between(price, Nil, 2)
Dear == Between(price, 2, 3)
Both == AnyOf(ice, {few, lots})
NotFew == NoneOf(ice, {few})
NotLots == NoneOf(ice, {lots})
Intents ==
  {<<Configured(<<w1>>, c), Configured(<<w1, w2>>, d)>> :
      c \in {Cheap, Both, NotFew}, d \in {Dear, NotFew, NotLots}}
    \cup {<<Configured(<<w1>>, Both), Configured(<<w2>>, NotFew)>>}
Filters ==
  BoundedSeq({Cheap, Between(price, 3, Nil), Both, NotFew, NotLots,
              AnyOf(ice, {few}), AnyOf(ice, {lots, hot}), TextIs(size, w1)}, 2)
Questions(filters) ==
  {[text |-> t, filters |-> f] : t \in {<<w1, w2>>, <<w2, w1>>, <<w3>>}, f \in filters}

\* Pages are compiled, or pages with edges are loaded and searched, or filters
\* are merged.
MCDomain ==
  {[intents |-> <<>>, questions |-> {}, judging |-> TRUE, loading |-> FALSE],
   [intents |-> <<Configured(<<w1>>, Both)>>, questions |-> Questions({<<>>}),
    judging |-> TRUE, loading |-> TRUE]}
    \cup {[intents |-> i, questions |-> Questions(Filters), judging |-> FALSE,
           loading |-> TRUE] : i \in Intents}

MCRow ==
  {[category |-> e1, num |-> [f \in {price} |-> n], text |-> [f \in {size} |-> w],
    refs |-> [f \in {ice} |-> r]] :
     n \in 1..3, w \in {w1, w2}, r \in SUBSET {few, lots, hot}}
MCStored == {{}, {[category |-> e1, num |-> [f \in {price} |-> 3],
                   text |-> [f \in {size} |-> w1], refs |-> [f \in {ice} |-> {lots}]]}}
=============================================================================
