---------------------------- MODULE MCAnnotation ----------------------------
(* Bundles, texts and patterns for model checking Annotation. *)
EXTENDS Annotation

MCLowerOf(s) ==
  CASE s = "Saw" -> "saw" [] s = "NOUN" -> "noun" [] s = "VERB" -> "verb"
    [] s = "PROPN" -> "propn" [] s = "SPACE" -> "space" [] OTHER -> s
MCFlagsOf(text) ==
  CASE text = " " -> {"IS_SPACE"} [] text = "n't" -> {} [] OTHER -> {"IS_ALPHA"}
MCCompiles(re) == re # "bad("
MCRegexMatches(re, s) == re = "^s" /\ s = "saw"
MCKeyBefore(a, b) == a = "A" /\ b = "B"

MCTexts == {<<"Saw">>, <<"Saw", "n't">>, <<"cats", "Saw">>, <<" ", "cats", "n't">>, <<"cats", "cats", "Saw">>}

-----------------------------------------------------------------------------
(* Rulers *)
At(n) == [value |-> n, type |-> "int8"]      \* how a small number is packed
WideAt(n) == [value |-> n, type |-> "int64"]
Rule(rule, attrs, index) == [rule |-> rule, attrs |-> attrs, index |-> index]
OneToken(spec, attrs) == Rule(<<spec>>, attrs, At(0))

Reading ==
  <<OneToken([TAG |-> Scalar("V")], [pos |-> "VERB"]),
    OneToken([TAG |-> In({"N", "NN"})], [pos |-> "NOUN"]),
    OneToken([LOWER |-> In({"cats", "dogs"}), DEP |-> NotIn({"neg", NoString})],
             [morph |-> ("Number" :> "Sing")]),
    OneToken([ORTH |-> Scalar("Saw"), OP |-> Scalar("+")], [pos |-> "PROPN"]),
    OneToken([IS_SPACE |-> Bool(TRUE)], [pos |-> "SPACE", morph |-> NoMorph])>>

Retagging ==
  <<OneToken([ORTH |-> Scalar("Saw")], [tag |-> "N", pos |-> "PROPN"]),
    Rule(<<[TAG |-> Scalar("N")], [TAG |-> Scalar("N"), IS_SPACE |-> Bool(FALSE)]>>,
         [tag |-> "V"], WideAt(1)),
    OneToken([TAG |-> Scalar("V")], [pos |-> "VERB", morph |-> ("VerbForm" :> "Inf")]),
    OneToken([LOWER |-> Regex("^s"), TAG |-> NotIn({"V"})], "lemma" :> "see"),
    OneToken([LOWER |-> Regex("bad(")], [pos |-> "NOUN"])>>

Negation ==
  <<OneToken([TAG |-> In({"N", "V"})], [pos |-> "VERB"]),
    Rule(<<[TAG |-> Scalar("V")], [LOWER |-> Scalar("n't")]>>, [pos |-> "PROPN"], At(1))>>

-----------------------------------------------------------------------------
(* Lemma tables *)
NounRules == <<"cats" :> "cat", "cats" :> "c-t", ("cats" :> "ca") @@ ("saw" :> "sa"), "saw" :> NoString>>
RuleTables ==
  {("lemma_rules" :> (("noun" :> NounRules) @@ ("verb" :> <<"saw" :> "see", "saw" :> "sawn">>)))
     @@ ("lemma_exc" :> ("noun" :> excs)) @@ ("lemma_index" :> ("noun" :> index)) :
     index \in {{}, {"cat"}, {"cat", "ca"}},
     excs \in {<<>>, "cats" :> <<"puss", "cat">>, "cats" :> <<"c-t", "puss", "kit", "puss">>}}
FewTables == {("lemma_exc" :> ("verb" :> ("saw" :> <<"see">>)))}
LookupTables ==
  {"lemma_lookup" :> (("Saw" :> [kind |-> "string", s |-> "see"])
                        @@ ("cats" :> [kind |-> "hash", s |-> "cat"])), <<>>}

Bundle(ruler, mode, overwrite, tables) ==
  [strings |-> {"old"}, labels |-> {"N", "V"}, deps |-> {"aux"}, ents |-> {},
   ruler |-> ruler, mode |-> mode, overwrite |-> overwrite, tables |-> tables]

(* A bundle to search: no ruler, entities, more than one dependency label.    *)
Plain == Bundle(<<>>, "none", FALSE, <<>>)
Searched == [Plain EXCEPT !.labels = {"N"}, !.ents = {"PER"}]

MCSetups ==
  {Bundle(Reading, "rule", FALSE, t) : t \in RuleTables}
    \union {Bundle(Retagging, "rule", o, t) : o \in BOOLEAN, t \in FewTables}
    \union {Bundle(Retagging, "lookup", o, t) : o \in BOOLEAN, t \in LookupTables}
    \union {[Bundle(Reading, "rule", TRUE, <<>>) EXCEPT !.deps = {"aux", "neg"}], Plain, Searched}

(* A pattern with an index as a model file packs it. *)
IndexSetups == {Bundle(Negation, "rule", FALSE, <<>>)}

-----------------------------------------------------------------------------
(* Matcher patterns *)
Offer(key, alternatives) == [key |-> key, alternatives |-> alternatives]

MCOffersFor(s) ==
  CASE s = Plain ->
         {Offer("A", <<<<[LOWER |-> Scalar("cats")]>>, <<[TAG |-> NotIn({"V", "X"}), IS_ALPHA |-> Bool(TRUE)]>>>>),
          Offer("A", <<<<[TAG |-> Scalar("N")], [TAG |-> Scalar("N")]>>>>),
          Offer("B", <<<<[LOWER |-> In({"cats", "dogs"})], [ORTH |-> Scalar("Saw")]>>>>),
          Offer("B", <<<<[LOWER |-> In({"cats"})], [OP |-> Scalar("+")]>>>>),
          Offer("B", <<<<>>>>)}
    [] s = Searched ->
         {Offer("A", <<<<[ENT_TYPE |-> In({"PER", "ORG"})], [POS |-> Scalar(NoString)]>>>>),
          Offer("B", <<<<("LEMMA" :> Scalar("Saw")) @@ ("ENT_TYPE" :> In({NoString}))>>>>)}
    [] OTHER -> {}
=============================================================================
