--------------------------- MODULE TokenPatterns ---------------------------
(***************************************************************************)
(* Token patterns: what the loaders of the matcher and of the attribute      *)
(* ruler accept of a pattern, and when a token satisfies it.  Strings are    *)
(* members of a set; a token holds their hashes, and a pattern can only      *)
(* name the hash of a string the document's StringStore knows.               *)
(***************************************************************************)
EXTENDS Integers, Sequences, FiniteSets, TLC

CONSTANTS NoString,           \* the empty string: hash 0, an attribute not set
          Symbols,            \* strings with a fixed id, known to every store
          LowerOf(_),         \* strings.ToLower
          FlagsOf(_),         \* the IS_ keys that hold of a text
          Compiles(_),        \* regexp.Compile succeeds
          RegexMatches(_, _)  \* the expression matches a lower-cased text

(* A token pattern maps keys to values.  The form of a value is "scalar",    *)
(* "IN", "NOT_IN", "REGEX", "bool" or anything else; its strings and its     *)
(* truth value are the rest.                                                 *)
Value(form, strings) == [form |-> form, strings |-> strings, on |-> FALSE]
Scalar(s) == Value("scalar", {s})
In(strings) == Value("IN", strings)
NotIn(strings) == Value("NOT_IN", strings)
Regex(s) == Value("REGEX", {s})
Bool(on) == [Value("bool", {}) EXCEPT !.on = on]

StringForms == {"scalar", "IN"}
RulerForms ==
  [ORTH |-> StringForms, LOWER |-> StringForms \union {"REGEX"},
   TAG |-> StringForms \union {"NOT_IN"}, DEP |-> StringForms \union {"NOT_IN"},
   IS_SPACE |-> {"bool"}]
MatcherForms ==
  [key \in DOMAIN RulerForms \union {"POS", "LEMMA", "ENT_TYPE", "IS_STOP",
                                     "IS_ALPHA", "IS_PUNCT", "IS_DIGIT", "LIKE_NUM"} |->
     CASE key \in DOMAIN RulerForms            -> RulerForms[key]
       [] key \in {"POS", "LEMMA", "ENT_TYPE"} -> StringForms
       [] OTHER                                -> {"bool"}]

Supported(forms, spec) ==
  \A key \in DOMAIN spec :
    /\ key \in DOMAIN forms
    /\ spec[key].form \in forms[key]
    /\ spec[key].form = "REGEX" => \A re \in spec[key].strings : Compiles(re)

(* The token field each key of a string is compared with. *)
Field == [ORTH |-> "text", LOWER |-> "lower", TAG |-> "tag", POS |-> "pos",
          DEP |-> "dep", ENT_TYPE |-> "ent"] @@ ("LEMMA" :> "lemma")

(* StringStore.Get *)
Known(store) == store \union Symbols \union {NoString}

(* One constraint.  An empty string and an empty list leave the field         *)
(* unconstrained; the empty string in a list stands for an attribute not set. *)
TestValue(tok, key, v, store) ==
  CASE v.form = "scalar" -> v.strings = {NoString} \/ tok[Field[key]] \in v.strings \intersect Known(store)
    [] v.form = "IN"     -> v.strings = {} \/ tok[Field[key]] \in v.strings \intersect Known(store)
    [] v.form = "NOT_IN" -> tok[Field[key]] \notin v.strings \intersect Known(store)
    [] v.form = "REGEX"  -> \A re \in v.strings : RegexMatches(re, LowerOf(tok.text))
    [] v.form = "bool"   -> v.on = (key \in FlagsOf(tok.text))

(* testSpec: all constraints of one position. *)
TestSpec(tok, spec, store) == \A key \in DOMAIN spec : TestValue(tok, key, spec[key], store)

(* scanPattern and matchPattern: the starts, counted from 0, of the runs of   *)
(* tokens that satisfy a pattern.                                             *)
Starts(tokens, pattern, store) ==
  IF pattern = <<>> THEN {}
  ELSE {i \in 0..(Len(tokens) - Len(pattern)) :
          \A j \in DOMAIN pattern : TestSpec(tokens[i + j], pattern[j], store)}
=============================================================================
