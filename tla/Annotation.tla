----------------------------- MODULE Annotation -----------------------------
(***************************************************************************)
(* A caller who registers patterns with a matcher, runs texts through a       *)
(* bundle and searches the annotated document.                               *)
(***************************************************************************)
EXTENDS Annotators, Matcher

CONSTANTS OffersFor(_),  \* what the caller of a bundle may register: [key, alternatives]
          MaxPatterns    \* bound: patterns of a matcher

vars == <<annotatorVars, matcherVars>>

Init == AnnotatorInit /\ MatcherInit

PatternCount == MapThenSumSet(LAMBDA key : Len(patterns[key]), DOMAIN patterns)

Register ==
  /\ pc = "new"
  /\ \/ \E offer \in OffersFor(setup) :
          /\ PatternCount + Len(offer.alternatives) <= MaxPatterns
          /\ Add(offer.key, offer.alternatives) \/ RefuseAdd(offer.key, offer.alternatives)
     \/ \E key \in Keys : RemoveKey(key)
  /\ UNCHANGED annotatorVars

Annotate == mpc = "idle" /\ PipeStep /\ UNCHANGED matcherVars

Search == pc = "annotated" /\ Matches(tokens, store) /\ UNCHANGED annotatorVars

Next == Register \/ Annotate \/ Search

Spec == Init /\ [][Next]_vars
-----------------------------------------------------------------------------
(* Properties *)

Strings ==
  Known(store) \union UNION {{t, LowerOf(t)} : t \in UNION {Range(texts) : texts \in Texts}}
    \union UNION {UNION {UNION {UNION {a[j][key].strings : key \in DOMAIN a[j]} : j \in DOMAIN a} :
                           a \in Range(patterns[key2])} : key2 \in DOMAIN patterns}
    \union UNION {UNION {UNION {p.rule[j][key].strings : key \in DOMAIN p.rule[j]} : j \in DOMAIN p.rule} :
                    p \in Range(setup.ruler)}

Attributes == {"text", "lower", "tag", "pos", "dep", "lemma", "ent"}

(* Every attribute a token carries resolves in the store of its document at   *)
(* every step: StringStore.Lookup answers a hash it does not know with the     *)
(* empty string and no error.                                                 *)
TypeOK ==
  /\ pc \in {"new", "ready", "tag", "parse", "rule", "lemma", "ner", "annotated"}
  /\ mpc \in {"idle", "scan", "done"} /\ unscanned \subseteq DOMAIN patterns
  /\ \A i \in DOMAIN tokens : \A f \in Attributes : tokens[i][f] \in Known(store)

(* The tokens of the ruler read as strings.  Tags(j) are the tags pattern j   *)
(* finds: those of the last of the patterns before it that sets them.         *)
Goes(p, Index(_), toks, i) ==
  IsSupported(p) /\ \E start \in Starts(toks, p.rule, Strings) : i = start + Index(p.index) + 1

LastSetter(hits, f, default) ==
  LET setters == {j \in hits : Sets(setup.ruler[j].attrs, f)}
  IN  IF setters = {} THEN default ELSE setup.ruler[Max(setters)].attrs[f]

RuledBy(Index(_), i) ==
  LET tags[j \in 1..Len(setup.ruler)] ==
        [t \in DOMAIN ruled |->
           LastSetter({h \in 1..(j - 1) :
                         Goes(setup.ruler[h], Index, [u \in DOMAIN ruled |-> [ruled[u] EXCEPT !.tag = tags[h][u]]], t)},
                      "tag", ruled[t].tag)]
      hits == {j \in DOMAIN setup.ruler :
                 Goes(setup.ruler[j], Index, [u \in DOMAIN ruled |-> [ruled[u] EXCEPT !.tag = tags[j][u]]], i)}
  IN  [f \in {"tag", "pos", "morph", "lemma"} |-> LastSetter(hits, f, ruled[i][f])]

(* When ruler and lemmatizer are through with a document. *)
Lemmatized == pc = "ner"

(* "Patterns are applied in registration order; the LAST winning pattern's     *)
(* attrs survive on each token" (attributeruler.go:85-86): whether or not the  *)
(* StringStore knows the strings a pattern names, and with the tags earlier    *)
(* patterns rewrote.                                                          *)
RulerAsWritten ==
  Lemmatized => \A i \in DOMAIN tokens : \A f \in {"tag", "pos", "morph"} :
             tokens[i][f] = RuledBy(LoadedIndex, i)[f]

(* "Index selects which token in a matched span gets the attrs"               *)
(* (attributeruler_loader.go:54-56).                                          *)
IndexSelectsToken ==
  LET Written(index) == index.value
  IN  Lemmatized => \A i \in DOMAIN tokens : tokens[i].pos = RuledBy(Written, i).pos

(* The form the tables give a text: the last exception that is no form of a   *)
(* rule, else the form of the last rule that makes a word of the index, else   *)
(* of the first that makes a non-word, else of the first that makes anything. *)
BestForm(s, univ, text) ==
  LET tables == Materialised(univ)
      fired  == {j \in DOMAIN tables.rules : s \in DOMAIN tables.rules[j] /\ tables.rules[j][s] # NoString}
      Made(js) == {tables.rules[j][s] : j \in js}
      known  == {j \in fired : tables.rules[j][s] \in tables.index}
      nonword == {j \in fired \ known : tables.rules[j][s] \notin AlphaForms}
      excs   == IF s \in DOMAIN tables.excs THEN tables.excs[s] ELSE <<>>
      extra  == {j \in DOMAIN excs : excs[j] \notin Made(known \union nonword)
                                     /\ \A h \in 1..(j - 1) : excs[h] # excs[j]}
  IN  CASE extra # {} -> excs[Max(extra)]
        [] extra = {} /\ known # {} -> tables.rules[Max(known)][s]
        [] extra = {} /\ known = {} /\ nonword # {} -> tables.rules[Min(nonword)][s]
        [] extra = {} /\ known \union nonword = {} /\ fired # {} -> tables.rules[Min(fired)][s]
        [] OTHER -> text

HasEntries(univ) == Materialised(univ) # [rules |-> <<>>, excs |-> <<>>, index |-> {}]

(* In rule mode the lemma of a token is decided by its text, part of speech    *)
(* and morphology alone, whatever documents were annotated before it, and a    *)
(* lemma the ruler set survives unless the config says overwrite.             *)
LemmaAsTables ==
  setup.mode = "rule" /\ Lemmatized =>
    \A i \in DOMAIN tokens :
      LET tok  == tokens[i]
          univ == LowerOf(tok.pos)
          set  == RuledBy(LoadedIndex, i)["lemma"]
      IN  tok.lemma =
            CASE set # NoString /\ ~setup.overwrite -> set
              [] (set = NoString \/ setup.overwrite)
                   /\ (univ \in {NoString, "eol", "space"} \/ IsBaseForm(tok, univ)) -> tok.lower
              [] OTHER -> IF HasEntries(univ) THEN BestForm(tok.lower, univ, tok.text)
                          ELSE IF univ = "propn" THEN tok.text ELSE tok.lower

(* The search gives what its patterns, read as strings, select of the tokens,  *)
(* and in one order only, whatever the order of the map.                      *)
MatchesAsWritten == MatchesAre(tokens, Strings)
=============================================================================
