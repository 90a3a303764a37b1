----------------------------- MODULE Vocabulary -----------------------------
(***************************************************************************)
(* The string store and the lexeme cache of a bundle (vocab/vocab.go,      *)
(* vocab/stringstore.go, vocab/lexeme.go) as operators on their contents:  *)
(* the set of strings the store maps from their hashes and the set of      *)
(* words whose lexeme is cached.  A string stands for its hash.            *)
(***************************************************************************)
EXTENDS Naturals, FiniteSets

CONSTANTS
  Symbols,  \* the strings of the symbol table, which have fixed hashes
  Forms     \* word -> [prefix, suffix, shape, lower], the strings of its lexeme

\* Add writes the map unless the string is a symbol, empty or known.
Added(store, new) == store \cup (new \ (Symbols \cup {""}))

\* Lookup finds symbols without an Add, and the empty string at hash zero.
Resolves(store, s) == s \in store \cup Symbols \cup {""}

LexemeStrings(word) ==
  {word, Forms[word].prefix, Forms[word].suffix, Forms[word].shape, Forms[word].lower}

\* Vocab.Get of each of the words: a cached word touches nothing, the lexeme of
\* a new one interns its five strings.
StoreAfterGet(store, cache, words) ==
  Added(store, UNION {LexemeStrings(word) : word \in words \ cache})
CacheAfterGet(cache, words) == cache \cup words

\* Tokens as the tokenizer returns them: the text and the NORM of the rule that
\* made it, "" for none.
WordsOf(tokens) == {t.orth : t \in tokens} \cup ({t.norm : t \in tokens} \ {""})

\* The strings whose hashes ToDoc writes into the tokens.
TokenStrings(t) ==
  {t.orth, Forms[t.orth].prefix, Forms[t.orth].suffix, Forms[t.orth].lower,
   IF t.norm = "" THEN Forms[t.orth].lower ELSE t.norm}
=============================================================================
