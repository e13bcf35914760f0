------------------------------ MODULE MCServing ------------------------------
(***************************************************************************)
(* The constants of Serving for its run: two pages that can share their     *)
(* words, three packs of two versions, and either two builders that race    *)
(* with publications, or one build and a search that races with them.       *)
(***************************************************************************)
EXTENDS Serving, TLC

CONSTANTS p1, p2, s1, w1, w2, w3, v1, v2, price

\* Either page can have the other's title as an alias, or as a tag.
MCContent ==
  {[title |-> <<w1>>, aliases |-> {<<w2>>}, tags |-> {}, body |-> <<w1>>],
   [title |-> <<w2>>, aliases |-> {}, tags |-> {<<w1>>}, body |-> <<w1>>]}

\* A configured word asks for a price.  Two packs of a version differ in what
\* the source hash does not see: whether a price is a number.
Priced(phrase, n) ==
  [kind |-> "attribute", phrase |-> phrase, field |-> price, equals |-> n,
   min |-> Nil, max |-> Nil]
Milk == [version |-> v1, qug |-> w1, intents |-> {Priced(<<w3>>, 2)},
         fields |-> [f \in {price} |-> "numeric"]]
Retyped == [Milk EXCEPT !.fields[price] = "text"]
Next2 == [Milk EXCEPT !.version = v2, !.intents = {}]
MCPack == {Milk, Retyped, Next2}
MCRank == [p \in {p1, p2} |-> IF p = p1 THEN 1 ELSE 2]

Unknown == [category |-> Nil, num |-> [f \in {price} |-> Nil],
            text |-> [f \in {price} |-> Nil], refs |-> <<>>]
Costs(n) == [Unknown EXCEPT !.category = p1, !.num[price] = n]
MCFactRow == {Costs(1), Costs(3)}

\* No filter; a range that relaxes to its lower bound; and no filter, but a word
\* that calls for that range.
Plain == [text |-> <<w2>>, filters |-> <<>>]
Filtering == [text |-> <<w1>>, filters |-> <<Between(price, 2, 2)>>]
Calling == [text |-> <<w2, w3>>, filters |-> <<>>]
MCQuery == {Plain, Filtering, Calling}

Races == [publications |-> 2, builds |-> 2, builders |-> 2, force |-> BOOLEAN,
          packs |-> {Milk, Next2}, writes |-> 0, queries |-> {}]
Retypes == [publications |-> 1, builds |-> 2, builders |-> 1, force |-> BOOLEAN,
            packs |-> {Milk, Retyped}, writes |-> 0, queries |-> {}]
Searches == [publications |-> 2, builds |-> 1, builders |-> 1, force |-> {TRUE},
             packs |-> {Milk}, writes |-> 0, queries |-> {Plain}]
Filtered == [publications |-> 2, builds |-> 0, builders |-> 0, force |-> {},
             packs |-> {Milk}, writes |-> 1, queries |-> {Filtering}]
Called == [publications |-> 1, builds |-> 1, builders |-> 1, force |-> {TRUE},
           packs |-> {Milk}, writes |-> 1, queries |-> {Calling}]
MCLoad == {Races, Retypes, Searches, Filtered, Called}
BuilderSymmetry == Permutations(Builder)
=============================================================================
