----------------------------- MODULE Annotators -----------------------------
(***************************************************************************)
(* The annotators of PipeWith around the parser: the tagger's labels, the     *)
(* attribute ruler and the lemmatizer, over the tokens of one document after  *)
(* the other.  The StringStore and the lemmatizer's cache live on between     *)
(* calls.  A token's attributes are strings: a hash stands for its string,    *)
(* and a string can be read back only if the store knows it.                  *)
(***************************************************************************)
EXTENDS TokenPatterns, SequencesExt, FiniteSetsExt

CONSTANTS Setups,     \* what the bundle directory holds for the components
          Texts,      \* the tokens' texts of the documents to annotate
          AlphaForms, \* strings of letters only
          MaxCalls    \* bound: calls of PipeWith

VARIABLES setup,   \* the bundle directory (never changes)
          store,   \* strings the StringStore holds
          tokens,  \* the tokens of the document
          pc,      \* "new" | "ready" | "tag" | "parse" | "rule" | "lemma" | "ner" | "annotated"
          k,       \* next pattern of the ruler, or next token of the lemmatizer
          cache,   \* posCache: part of speech -> its tables
          calls,   \* calls of PipeWith so far
          ruled    \* history: the tokens as the ruler found them

annotatorVars == <<setup, store, tokens, pc, k, cache, calls, ruled>>

AnnotatorInit ==
  /\ setup \in Setups
  /\ store = setup.strings
  /\ tokens = <<>> /\ pc = "new" /\ k = 1 /\ cache = <<>> /\ calls = 0 /\ ruled = <<>>

NoMorph == <<>>
Interned(strings) == strings \ (Symbols \union {NoString})

-----------------------------------------------------------------------------
(* Construction, on the first call *)

AttrStrings(p) == {p.attrs[f] : f \in DOMAIN p.attrs \intersect {"pos", "tag", "lemma"}}
(* The strings of the values the loader keeps, regular expressions aside.     *)
RuleStrings(p) ==
  UNION {UNION {p.rule[j][key].strings :
                  key \in {x \in DOMAIN p.rule[j] : Supported(RulerForms, [y \in {x} |-> p.rule[j][x]])
                                                    /\ p.rule[j][x].form # "REGEX"}} :
           j \in DOMAIN p.rule}

(* NewTagger, NewParser, NewAttributeRuler and NewNER intern what they will   *)
(* compare and write.                                                         *)
EnsureComponents ==
  /\ pc = "new"
  /\ store' = store \union Interned(setup.labels \union setup.deps \union setup.ents
                        \union UNION {AttrStrings(p) \union RuleStrings(p) : p \in Range(setup.ruler)})
  /\ pc' = "ready"
  /\ UNCHANGED <<setup, tokens, k, cache, calls, ruled>>

-----------------------------------------------------------------------------
(* One call *)

NewToken(text) ==
  [text |-> text, lower |-> LowerOf(text), tag |-> NoString, pos |-> NoString,
   dep |-> NoString, ent |-> NoString, morph |-> NoMorph] @@ ("lemma" :> NoString)

MutToDocOrthsOnly(texts) ==
  /\ pc \in {"ready", "annotated"} /\ calls < MaxCalls
  /\ tokens' = [i \in DOMAIN texts |-> NewToken(texts[i])]
  /\ store' = store \union Interned(Range(texts))
  /\ pc' = "tag" /\ calls' = calls + 1
  /\ UNCHANGED <<setup, k, cache, ruled>>
ToDoc(texts) ==
  /\ pc \in {"ready", "annotated"} /\ calls < MaxCalls
  /\ tokens' = [i \in DOMAIN texts |-> NewToken(texts[i])]
  /\ store' = store \union Interned(UNION {{t, LowerOf(t)} : t \in Range(texts)})
  /\ pc' = "tag" /\ calls' = calls + 1
  /\ UNCHANGED <<setup, k, cache, ruled>>

(* Set a field of every token: whatever label the scores prefer.              *)
Labelled(field, labels) ==
  {[i \in DOMAIN tokens |-> [tokens[i] EXCEPT ![field] = choice[i]]] :
     choice \in [DOMAIN tokens -> labels]}

Tag ==
  /\ pc = "tag"
  /\ tokens' \in Labelled("tag", setup.labels)
  /\ store' = store \union Interned({tokens'[i].tag : i \in DOMAIN tokens})
  /\ pc' = "parse"
  /\ UNCHANGED <<setup, k, cache, calls, ruled>>

(* The parser (ArcEager) labels every token.                                  *)
Parse ==
  /\ pc = "parse"
  /\ tokens' \in Labelled("dep", setup.deps)
  /\ pc' = "rule" /\ k' = 1 /\ ruled' = tokens'
  /\ UNCHANGED <<setup, store, cache, calls>>

(* The attribute ruler.  A number the msgpack decoder returns with another    *)
(* type than int, int64 or uint64 is not an index for the loader.             *)
LoadedIndex(index) == IF index.type \in {"int", "int64", "uint64"} THEN index.value ELSE 0

IsSupported(p) == \A j \in DOMAIN p.rule : Supported(RulerForms, p.rule[j])

(* The tokens, counted from 1, that p's attributes go to.                     *)
Targets(p) ==
  {i + LoadedIndex(p.index) + 1 : i \in Starts(tokens, p.rule, store)} \intersect DOMAIN tokens

Sets(attrs, f) == f \in DOMAIN attrs /\ (f = "morph" \/ attrs[f] # NoString)
Writes(attrs, f) == Sets(attrs, f) /\ (f = "morph" \/ attrs[f] \in Known(store))

MutApplyPatternFirstWins ==
  /\ pc = "rule" /\ k <= Len(setup.ruler) /\ IsSupported(setup.ruler[k])
  /\ LET p == setup.ruler[k]
     IN  tokens' = [i \in DOMAIN tokens |->
                      IF i \in Targets(p)
                      THEN [f \in DOMAIN tokens[i] |->
                              IF Writes(p.attrs, f) /\ tokens[i][f] = ruled[i][f] THEN p.attrs[f] ELSE tokens[i][f]]
                      ELSE tokens[i]]
  /\ k' = k + 1
  /\ UNCHANGED <<setup, store, pc, cache, calls, ruled>>
ApplyPattern ==
  /\ pc = "rule" /\ k <= Len(setup.ruler) /\ IsSupported(setup.ruler[k])
  /\ LET p == setup.ruler[k]
     IN  tokens' = [i \in DOMAIN tokens |->
                      IF i \in Targets(p)
                      THEN [f \in DOMAIN tokens[i] |->
                              IF Writes(p.attrs, f) THEN p.attrs[f] ELSE tokens[i][f]]
                      ELSE tokens[i]]
  /\ k' = k + 1
  /\ UNCHANGED <<setup, store, pc, cache, calls, ruled>>

SkipPattern ==
  /\ pc = "rule" /\ k <= Len(setup.ruler) /\ ~IsSupported(setup.ruler[k])
  /\ k' = k + 1
  /\ UNCHANGED <<setup, store, tokens, pc, cache, calls, ruled>>

EndRuler ==
  /\ pc = "rule" /\ k > Len(setup.ruler)
  /\ pc' = "lemma" /\ k' = 1
  /\ UNCHANGED <<setup, store, tokens, cache, calls, ruled>>

-----------------------------------------------------------------------------
(* The lemmatizer.  Tables map the hash of a part of speech, or of a text,    *)
(* to an entry.  A suffix rule is a function on the strings that end in its   *)
(* suffix.                                                                    *)
HasTable(name) == name \in DOMAIN setup.tables
Entry(name, hash, none) ==
  IF HasTable(name) /\ hash \in DOMAIN setup.tables[name] THEN setup.tables[name][hash] ELSE none

LookupLemma(tok) ==
  IF ~HasTable("lemma_lookup") THEN tok.lower
  ELSE LET e == Entry("lemma_lookup", tok.text, [kind |-> "string", s |-> tok.text])
       IN  IF e.kind = "hash" /\ e.s \notin Known(store) THEN NoString ELSE e.s

Feature(tok, name) == IF name \in DOMAIN tok.morph THEN tok.morph[name] ELSE NoString

IsBaseForm(tok, univ) ==
  \/ univ = "noun" /\ Feature(tok, "Number") = "Sing"
  \/ univ = "verb" /\ Feature(tok, "VerbForm") = "Fin" /\ Feature(tok, "Tense") = "Pres"
                   /\ Feature(tok, "Number") = NoString
  \/ Feature(tok, "VerbForm") \in {"Inf", "None"}
  \/ Feature(tok, "Degree") = "Pos"

Univ(tok) == IF tok.pos \in Known(store) THEN LowerOf(tok.pos) ELSE NoString

NeedsTables(tok) == Univ(tok) \notin {NoString, "eol", "space"} /\ ~IsBaseForm(tok, Univ(tok))

Materialised(univ) ==
  [rules |-> Entry("lemma_rules", univ, <<>>), excs |-> Entry("lemma_exc", univ, <<>>),
   index |-> Entry("lemma_index", univ, {})]

MutPosCacheAnyPos(univ) == IF cache # <<>> THEN cache[CHOOSE u \in DOMAIN cache : TRUE] ELSE Materialised(univ)
(* getPosCache *)
PosCache(univ) == IF univ \in DOMAIN cache THEN cache[univ] ELSE Materialised(univ)

(* The forms of s: those of the index, last rule first, then those that are   *)
(* not words; exceptions go in front, one by one.  Words the index does not   *)
(* have count only when there is nothing else.                                *)
RuleForm(s, tables, text) ==
  LET Fires(rule) == s \in DOMAIN rule /\ rule[s] # NoString
      fired   == SelectSeq(tables.rules, Fires)
      made    == [j \in DOMAIN fired |-> fired[j][s]]
      known   == SelectSeq(made, LAMBDA f : f \in tables.index)
      nonword == SelectSeq(made, LAMBDA f : f \notin tables.index /\ f \notin AlphaForms)
      oov     == SelectSeq(made, LAMBDA f : f \notin tables.index /\ f \in AlphaForms)
      regular == Reverse(known) \o nonword
      forms   == IF s \in DOMAIN tables.excs
                 THEN FoldLeft(LAMBDA acc, e : IF e \in Range(acc) THEN acc ELSE <<e>> \o acc,
                               regular, tables.excs[s])
                 ELSE regular
  IN  Head(forms \o oov \o <<text>>)

RuleLemma(tok) ==
  LET univ == Univ(tok)
      tables == PosCache(univ)
  IN  IF ~NeedsTables(tok) THEN tok.lower
      ELSE IF tables = [rules |-> <<>>, excs |-> <<>>, index |-> {}]
           THEN IF univ = "propn" THEN tok.text ELSE tok.lower
           ELSE RuleForm(tok.lower, tables, tok.text)

LemmaOf(tok) ==
  LET lemma == CASE setup.mode = "lookup" -> LookupLemma(tok)
                 [] setup.mode = "rule"   -> RuleLemma(tok)
                 [] OTHER                 -> tok.text
  IN  IF lemma = NoString THEN tok.text ELSE lemma

KeepLemma ==
  /\ pc = "lemma" /\ k <= Len(tokens)
  /\ tokens[k].lemma # NoString /\ ~setup.overwrite
  /\ k' = k + 1
  /\ UNCHANGED <<setup, store, tokens, pc, cache, calls, ruled>>

Lemmatize ==
  /\ pc = "lemma" /\ k <= Len(tokens)
  /\ tokens[k].lemma = NoString \/ setup.overwrite
  /\ tokens' = [tokens EXCEPT ![k].lemma = LemmaOf(tokens[k])]
  /\ store' = store \union Interned({tokens'[k].lemma})
  /\ cache' = IF setup.mode = "rule" /\ NeedsTables(tokens[k])
              THEN cache @@ (Univ(tokens[k]) :> Materialised(Univ(tokens[k]))) ELSE cache
  /\ k' = k + 1
  /\ UNCHANGED <<setup, pc, calls, ruled>>

EndLemmas ==
  /\ pc = "lemma" /\ k > Len(tokens)
  /\ pc' = "ner"
  /\ UNCHANGED <<setup, store, tokens, k, cache, calls, ruled>>

(* The recognizer (Biluo) gives tokens the type of their entity or none.      *)
Recognize ==
  /\ pc = "ner"
  /\ tokens' \in Labelled("ent", setup.ents \union {NoString})
  /\ pc' = "annotated"
  /\ UNCHANGED <<setup, store, k, cache, calls, ruled>>

PipeStep ==
  \/ EnsureComponents
  \/ \E texts \in Texts : ToDoc(texts)
  \/ Tag \/ Parse
  \/ ApplyPattern \/ SkipPattern \/ EndRuler
  \/ KeepLemma \/ Lemmatize \/ EndLemmas
  \/ Recognize
=============================================================================
