# gospacy: verification project

gospacy runs trained spaCy pipelines from Go: it reads a `.spacy` bundle, tokenizes a
text and lets the bundle's components annotate the tokens. This directory models the
parts of it whose correctness depends on state and order rather than on arithmetic:
the transition systems of the parser and the entity recognizer, the repair of
non-projective arcs, the tokenizer, the rules that rewrite and search annotated tokens
(attribute ruler, lemmatizer, matcher), the views of a finished document, the
interpolation of config files, the trees of layers that are built from them, and the
life of a bundle and its clones: load, clone, call, layer by layer, one goroutine each.

The kernels of the neural layers are numeric. A tensor is modelled by its shape, by the
tokens each of its rows was computed from and by the memory it lies in. Wherever a score
decides, the models let every choice the code would accept win: what is shown holds for
every model file and every text.

## 1. The system

| component | source | state | operations | modelled in |
|---|---|---|---|---|
| dependency parser | `pipeline/parser.go`, `parserinternals/state.go`, `arc_eager.go` | stack, rebuffer and buffer position, heads, two maps of arcs, unshiftable marks, sentence starts | five transitions with validity tests, forced end, write-back | `ArcEager` |
| entity recognizer | `pipeline/ner.go`, `parserinternals/biluo.go` | open entity, code per token, recorded spans | BILUO transitions, forced end, two write-backs | `Biluo` |
| deprojectivizer | `parserinternals/nonproj.go` | the document's heads and labels | one breadth-first search per decorated label | `Nonproj` |
| transition tables | `parserinternals/transition_system.go` | list of (move, label) | load from msgpack | as a constant of the two parsers |
| config reader | `config/config.go` | flat key table | parse, interpolate, typed getters | interpolation in `ConfigInterp` |
| bundle | `bundle/bundle.go` | pipes with Skipped records, lazily built components, a `sync.Once` error | FromDisk, Clone, PipeWith, ensureComponents | `BundleLifecycle` over changing files, `Workers` layer by layer |
| tagger, attribute ruler, lemmatizer | `pipeline/tagger.go`, `attributeruler.go`, `lemmatizer.go` and their loaders | pattern list, tables cached per part of speech, strings interned on construction and by writes | Apply over a document | `Annotators` |
| tokenizer | `tokenizer/tokenizer.go`, `rules.go` | compiled rules, the chunk being cut, tokens of two passes | NewRules, affix stripping, special cases, infixes, ToDoc | `Tokenizer` |
| matcher | `matcher/` | patterns by key | Add, FromPatternDict, Remove, Match | `Matcher`, over `TokenPatterns`; composed with the annotators in `Annotation` |
| vocabulary | `vocab/` | lexeme and string maps, filled on reads | Get, Add, Lookup, Clone | `Vocabulary`, in `Workers` |
| document views | `doc/` | children index built on first use | ChildrenOf, SubtreeOf, Sents, NounChunks | `DocViews` |
| architecture registry | `registry/` | none | one factory per architecture, from a config section to a tree of layers | `ModelTrees`, `Architectures` |
| layers | `nn/` | dims, parameters, a scratch slice per closure | Walk, FromBytes, Predict | `ModelTrees`, `Forward` |

A call `Bundle.PipeWith` runs tokenizer, tok2vec, tagger, parser (which ends with the
deprojectivizer), attribute ruler, lemmatizer and recognizer in this order on one
document. They communicate through the tokens: the parser leaves heads, labels and
sentence starts, and the recognizer reads the sentence starts; the ruler reads tags and
labels and writes tags, parts of speech, morphology and lemmas, which the lemmatizer
reads. An attribute is a hash, and only the StringStore turns it back into a
string. The components share the bundle's vocabulary, whose maps grow on reads, and every
layer returns a slice it will overwrite in its next call; this is why a bundle belongs to
one goroutine and `Clone` makes one per worker: parameters, rules and config are shared,
maps are copied, layers are built anew.

What is hard here, and what the properties are for (each is listed with its line
under `hazards` in PROJECT.json):

* *protocol*: legal transition sequences of any length must keep the arcs a forest,
  keep arcs inside sentences, and end, although tokens travel back into the buffer and
  heads are replaced;
* *order*: Go iterates maps at random, in the write-back of arcs and in the
  interpolation of the config;
* *aliasing*: the search of the deprojectivizer builds one level in the memory of the
  level it is reading; layers return scratch slices that residual blocks, later arms of a
  concatenation and the rest of the call still hold;
* *agreement*: a tree built from a config section is filled from a file written by
  another program, paired by position, and copied to clones;
* *partial failure*: a pipe that loads half, a lazy construction that stops in the
  middle, a decode with no valid transition left;
* *staleness*: component files read on the first call, a cached error, tables cached
  per part of speech from one document to the next, two encodings of the entities of one
  document;
* *interleaving*: unsynchronised maps and slices under a one-goroutine contract.

## 2. Modules

| module | role | module proved or checked in |
|---|---|---|
| `Forests` | head assignments: acyclic, projective, within sentences | |
| `DependencyForest` | abstract: grow a projective forest and split sentences | refined by `ArcEager` |
| `ArcEager` | the parser | `MCArcEager`, `ArcEagerProofs` |
| `ArcEagerProofs` | theorems: the state, the forest, nesting and sentences, the refinement, the step budget, arc lists and write-back | |
| `EntityChunks` | abstract: mark disjoint labelled spans inside sentences | refined by `Biluo` |
| `Biluo` | the recognizer | `MCBiluo`, `BiluoProofs` |
| `BiluoProofs` | theorems about it | |
| `Nonproj` | the deprojectivizer | `MCNonproj`, `DocViewsProofs` |
| `DocViews` | what a caller reads from the finished document; composed with `Nonproj` | `MCNonproj`, `DocViewsProofs` |
| `InductionProofs` | induction over numbers, trees and finite sets, for the three modules of theorems below | |
| `DocViewsProofs` | theorems about deprojectivizer and views | |
| `Tokenizer` | the tokenizer, up to the document | `MCTokenizer`, `TokenizerProofs` |
| `TokenizerProofs` | theorems about it | |
| `TokenPatterns` | what the two pattern loaders accept, and when a token satisfies a pattern | |
| `Annotators` | tagger, attribute ruler, lemmatizer over several documents | `MCAnnotation` |
| `Matcher` | patterns and the search over a document | `MCAnnotation` |
| `Annotation` | composes the two, and their properties | `MCAnnotation` |
| `ConfigInterp` | config interpolation | `MCConfigInterp`, `ConfigProofs` |
| `ConfigProofs` | theorem about it | |
| `BundleLifecycle` | load, clone, call, over files that come and go | `MCBundleLifecycle`, `BundleProofs` |
| `BundleProofs` | theorems about it | |
| `ModelTrees` | typed config sections; trees, their walk, FromBytes and cloneModelParams | |
| `Architectures` | the factories | |
| `Forward` | one step of Predict: shapes, provenance of rows, scratch slices | |
| `Vocabulary` | string store and lexeme cache | |
| `Workers` | composes the last four: bundles, clones and their goroutines | `MCWorkers`, `WorkersProofs` |
| `WorkersProofs` | theorems about it | |

Definitions whose name starts with `Mut` are deliberately wrong variants of the
definition they precede. No specification uses them; each property has one that breaks
it, so that a property that could never fail would be noticed.

### ArcEager

The variables are the fields of `parserinternals.State`: `stack` and `rebuffer` are the
slices (top last, as in Go), `bI` the buffer position, `heads`, the two arc maps as
functions from the head to its list, `unshiftable` and `sentStarts` as sets of tokens.
`table` is the transition table the model file brings.
`doc` holds the three token fields the write-back sets. Each transition is one action,
guarded by `Takes`: not final, in the table, valid. `AddArc` includes the removal of an
older arc by `DelArc` with its holes, and `Push` takes from the rebuffer before the
linear buffer without testing the bound, as the code does.

`WriteBack` lists the arcs in every order two map iterations can produce: if two lists
held an arc to the same child, either could win. `WriteBackIsParse` says the document
nevertheless gets exactly the heads of the state.

`CannotSentStart` is constantly false, as in the code. The state fields only the
recognizer uses are in `Biluo`.

### Biluo

Every BILUO transition pushes and pops one token, so the position `bI` is all there is
of stack and buffer. The initial sentence starts are arbitrary: the parser, or no
parser, ran before. `IsValid` keeps the code's distinctions: MISSING never, labels of
hash 0 only for OUT. `StreamEntities` is how a reader of the tokens
(`workflows/w18_entities.go`) finds entities. When the forced end cuts an entity short,
its tokens keep the codes of an entity without a type; `StreamGivesEntities` shows that
this is the only case in which the two write-backs differ, and that it never happens with
a table that can leave every entity it can begin.

### Nonproj

The outer loop is `Skip`/`Search`, the search one `Visit` or `Find` per token of the
level, `Descend` per level, `GiveUp` at the end. `next := queue[:0]` makes the two
levels one array: `Visit` appends to `next` and overwrites `queue` from its first place
on. When the array is full, `append` moves on to new memory, but then every place of
`queue` is already overwritten, so the capacity does not show.

### DocViews

`head` and `dep` are those `Nonproj` leaves, `sentStarts` the marks the parser drew before
the moves. `EnsureChildIdx` builds the compressed rows on the first view, after
`Parser.Apply` has returned; nothing invalidates them later. `SubtreeOf`, `Sents` and
`NounChunks` are operators on the finished document. Parses keep their arcs within
sentences (`StartsAssumption`), which `ArcEager` shows of the parser. Which tokens are nominals is arbitrary, up to the
sets the run names. `ViewsFollowHeads` compares rows and subtrees with the heads;
`ChunksFitSentences` says that chunks stay disjoint, ordered and within one sentence
although lifted tokens make subtrees with gaps, and that a chunk is left out only for
the sake of an earlier one.

### Tokenizer

A text is a sequence of runes, and a token a stretch of them with the `ws` flag and the
norm of the Go struct. `CollectChunk`, `FlagSpace` and `EmitSpaces` are the three
branches of the walk in `Tokenize`; one turn of the loop of `tokenizeChunk` is
`StripAffixes`, and its way out one of the `Attach` actions or `SplitInfixes`, after
which `CutInfix` takes a span at a time as `sortAndDeoverlap` and the loop behind it do.
Spans that start at the same rune are taken in any order: `sort.Slice` is not stable.
`MergeWindow` and `CopyToken` are the second pass over special cases of two and three
tokens, and `ToDoc` recomputes the white space from offsets.

The regular expression engine is the constant operator `Matches(re, s)`, the successive
matches of a pattern; all that is assumed of it is that a match lies inside the string.
`SpecialsAssumption` says that the pieces of a special case are not empty and spell its
key, which is so for the generated English table and which `NewRules` does not test.
`TokensTile` is the invariant behind the promise that the document spells the text: at
every point the tokens made so far, from both ends of a chunk, tile the runes read.

Left out: a pattern that does not compile (`NewRules` returns an error and there is no
tokenizer), and what a lexeme holds. `lexemes` records which strings get one.

### TokenPatterns, Annotators, Matcher, Annotation

A token attribute is a string in the models and `store` the set of strings the
StringStore knows. A pattern can only name the hash of a string that is known (the
matcher looks values up, the ruler's loader interns them), a regular expression is
matched against the lower-cased text, and a hash the store does not know reads as the
empty string, without an error: `TypeOK` says that every attribute resolves.
`RulerForms` and `MatcherForms` are the value forms the two loaders keep; an entry with
any other is dropped by the ruler and refused by the matcher. A scalar that is the empty
string, or an `IN` list that resolves to nothing, leaves its key unconstrained, as in
the code.

`ApplyPattern` is one turn of the ruler's loop over its patterns: it searches the
tokens as they are, tags of earlier patterns included, and writes as it goes.
`RulerAsWritten` compares the document with the patterns read as strings on the tokens the
ruler was given (`ruled`, a history variable). The index of a pattern carries the type
msgpack packs it with, and `LoadedIndex` keeps an `int`, `int64` or `uint64` and reads
every other as zero; `IndexSelectsToken` states the documented meaning and fails (finding 4).

The lemmatizer handles one token per step. `PosCache` fills the cache for a part of
speech on its first token and keeps it over calls; `LemmaAsTables` gives the lemma from
the tables on disk, so that a stale or mixed-up cache would show. `BestForm` restates the order in which
`lemmatizer.go` prefers exceptions, forms of the index, non-words and out-of-vocabulary
forms, by indices into the tables where the code merges lists. Lookup mode is part of
the model and of the runs, but only `TypeOK` speaks of it.

The search of the matcher takes its keys in any order (the range over the map), drops
the hits of a key that overlap a longer or earlier one, and sorts: `MatchesAsWritten` says the result is what the
patterns select, in one order only. Patterns are registered before the bundle's first
call and change afterwards only by building another matcher. The parser and the recognizer appear here as steps that
give each token any label of theirs.

### ConfigInterp

A value is a sequence of literal pieces and references with a mark for typed values. The
`range` over the map takes keys in any order (`todo`), `expandRefs` substitutes one
reference per step, `fullReplacement` decides the type on the table as it is at that
moment, and `EndPass` counts to sixteen. Values keep one spelling: that a float may be
printed with other digits than it was read with is not modelled.

### BundleLifecycle

`disk` says what the bundle directory holds for each pipe: listed and disabled in the
config, its model section, its model file, the data its component reads on the first
call. `FromDisk`, `Clone` and `PipeWith` are actions; `EnsureComponents` and its
`sync.Once` are part of the call, as in the code. `FilesChange` is the environment.
Components' work on the text is abstracted to the prefix of them that ran before one
failed. Calls on one bundle do not overlap and a bundle is cloned between calls: the
documentation of `Clone` and `Pipe` requires both of the caller.

### ModelTrees, Architectures

A config section is a function from key paths to typed values, as `buildFactoryCfg`
makes it; `ReadAny` is the chain of getters with what it loses. A tree is the depth-first
sequence of its nodes with kind, dims, lengths of parameters and the attributes a
`Forward` reads; `WalkIndex` is the breadth-first place by which `FromBytes` and
`CloneModelParams` pair nodes. `FromBytes` compares the number of nodes only. Each
architecture is one operator that returns a tree, a failure or a stub.

### Forward

A value has a Go type, columns, the lengths of its documents, for each row the set of
tokens it was computed from, and where it lies: nowhere else, or in the scratch slice of
a closure. Every layer checks types and widths before it computes, and the models keep
these checks. A run over a tree visits one node per step; a compound layer is entered,
its children run in turn, and it is returned to, which is when it uses what it kept.
`Stored` is the growth of a scratch slice: a longer result gets a new slice and leaves
the old one to whoever holds it, a shorter one overwrites the front.

### Vocabulary, Workers

`Workers` follows the pattern that `Clone` documents: the main goroutine loads, clones
and may call (`phase` "build"); after `Launch` each bundle belongs to a goroutine of its
own and steps of all of them interleave. `FromDisk` builds each pipe of the directory's
config and fills it from its file, or skips it. `Clone` copies string store and lexeme
map, builds the trees again and copies dims and parameters into them. A call is a plan of
stages: `components` (the `sync.Once`), `todoc` (every word through `Vocab.Get`), a
model run per stage in which `Layer` does one layer, the check of what came back (`Return`), `decode`,
`annotate`, `nerdecode`. A batch of two texts is given to tok2vec directly, as the registry's tests do.
A layer that refuses its input fails the call, as does a missing tok2vec.

Strings enter the store where the code calls `Add`:

| step | interns | writes into the document |
|---|---|---|
| `FromDisk` | the strings of the directory | |
| `EnsureComponents` | the labels of the loaded models (`LabelStrings`), what the ruler's patterns name or assign (`RulerStrings`, whether or not the ruler is a pipe) | |
| `ToDoc` | the five strings of each lexeme that is not cached | text, prefix, suffix, lower, norm |
| `Layer` | the shapes the feature extractor hashes | |
| `Return` of the tagger | the tags it writes | the same |
| `Decode` | the label before `\|\|` of each decorated label that the store resolves (`Lowered`, `nonproj.go:36`) | labels of the arcs, those replaced |
| `Annotate` | the lemmas the lemmatizer writes | what the ruler assigns and the store knows (`Get`, no `Add`), lemmas |
| `DecodeEntities` | | labels of entities |

Which labels win is data: any set that the tokens of the document can carry (`AtMost`); the ruler may
assign any part of what its patterns assign; a lemma is one the tables give the
text by some part of speech, or one the ruler set. `Undecorated` gives the part of a label before the
delimiter. The decorated label with the head's label, and the search for the new head, are in `Nonproj`.

`NoRace` takes the reads and writes of the next step of each goroutine: of the string store (every
`Add`, `Get` and `Lookup`), the lexeme map, the lemmatizer's `posCache` and the scratch slices. A map is written
when something new enters it (`Interned` is what a step may give to `Add`); `posCache` counts as written by every `annotate`. `HeldIntact` says that what a call still needs is what its
producer wrote. `RowsSeeTheirWindow` gives the exact set of tokens that a row of tok2vec
depends on. `LoadedPipesRun` says that a pipe that was loaded never fails on a shape, on
the source or on a clone; `Refusable` names the configurations the code loads but cannot run:
columns the feature extractor does not compute, `extra_state_tokens`, a recognizer that listens to
the shared tok2vec, and an `encode` section that differs from the flat keys the encoder is
built from. That these really fail, and no fewer of them, is not a property: the last is listed among the hazards
as not covered. The main goroutine never clones after `Launch`: that is the caller's side of
the contract and the model's assumption.

Directories are assumed well formed (`DisksAssumption`): values of the config have the type they
are written with, a list of columns is not empty (`concatenate.go:44` takes its first output), dims in
a file are integers, and the section of a tagger, parser or recognizer that can be built names the
architecture whose parts the component takes by their places. The last is what the counts of
layers and the tests of the lower model are for (`tagger.go:90`, `parser.go:129`, `parser.go:148`,
`ner.go:135`), which therefore never refuse a call in the model.

## 3. Runs

| run | instance | states | shows |
|---|---|---|---|
| `MCArcEager.cfg` | 5 tokens, labels dep, subtok, ROOT, a trained table and one without REDUCE, fair | 70740 | all safety properties of the parser, the step budget, refinement of `DependencyForest`, termination; the forced end still gives a parse |
| `MCBiluo.cfg` | 5 tokens, 2 labels, every division into sentences, a trained table and one without LAST-PER, fair | 29076 | all safety properties of the recognizer, refinement of `EntityChunks`, termination; the forced end codes every token |
| `MCNonproj.cfg` | 6 tokens in one or two sentences, up to two decorated labels, fair | 102129 | no cycle, moves go down, searches end; children, sentences and noun chunks fit the tree that results |
| `MCNonprojLost.cfg` | 7 tokens | | *violation*: a descendant with the label is missed |
| `MCTokenizer.cfg` | every text of at most 4 of 6 runes, two rule sets, fair | 58831 | tokens tile the text at every step, the document spells it, special cases stay whole, norms come from the table, termination |
| `MCAnnotation.cfg` | 2 texts of at most 3 tokens, two rulers, nine sets of rule tables and the lookup tables, matchers of at most 3 patterns | 99453 | attributes resolve, ruler, lemma tables and matcher mean what they say |
| `MCAnnotationIndex.cfg` | a pattern with index 1 packed in one byte | | *violation*: token 0 gets the attributes |
| `MCConfigInterp.cfg` | 3 keys, acyclic, all values of at most two pieces, fair | 37488 | every iteration order gives the meaning of the file, and absent keys are rejected |
| `MCConfigCycle.cfg` | a names b, b names a | | *violation*: Parse does not return |
| `MCBundleLifecycle.cfg` | a bundle and one clone, one fault on disk, 2 calls, 1 pipe's files lost at a time | 766634 | failed models never run, calls on one bundle agree, clones agree |
| `MCBundleDisabled.cfg` | lemmatizer disabled | | *violation*: it runs |
| `MCWorkers.cfg` | a bundle and one clone, seven directories, 2 calls with texts of 0 to 2 tokens or a batch of two | 499844 | no race on maps or scratch slices, no scratch slice overwritten under a holder, padding separates documents, loaded pipes run, every hash written resolves |

**Bounds.** Five tokens hold every interaction of the arc-eager moves: two arcs that
could cross need four, the replaced head and the unshifted token need one beside them,
a hole in an arc list needs three children of one head. The recognizer needs an
entity of three tokens (BEGIN, IN, LAST), a sentence start inside it and a second
entity behind it. A breadth-first search that forgets a token needs a level of two with
two children before the target, with the moved token that is seven, the violation; the
passing run needs two moved tokens in one tree, six. `subtok` is the only label a
validity test looks at. A text of four runes holds a prefix, a suffix and a word or an
infix between them, a special case of three tokens with a rune beside it, and white
space at both ends and in the middle. One rule set has the shape of the English one,
with infixes that start at the same rune; the other has no special cases, affixes that
can eat a chunk from both ends, and an infix that matches the empty string. Two calls are what a cache
filled by one document and read by the next takes; three tokens hold a repeated word
with another behind it, and a span whose second token gets the attributes. Three
patterns under two keys give a key with alternatives, a span found twice and an order
between keys. Three config keys give chains of two references, and two
references in one value. A bundle and a clone with two calls each way compare a call
with a later one and with one of the clone, with files lost or found between them.

The seven directories of `MCWorkers` have the shapes of the small pipeline (two columns,
parser and tagger on a shared tok2vec, a disabled stub), of the medium one (static vectors,
two encoder blocks), a recognizer with a tok2vec of its own, a tok2vec whose file comes from other
factories beside pipes without file or with a legacy architecture, a column that is
refused, an `encode` section that differs from the flat keys, and one whose load fails.
They hold every layer with a scratch slice, two residual blocks in a row and a
concatenation with arms that end in the same layer. The parser's table has a plain and a decorated label; two of
the directories have a ruler, one with a lemma, beside those without one; the symbol table holds one string of each kind of label. Two bundles suffice for a race; two calls for a slice that was
filled before, longer or shorter, for a word cached before the clone, and for a call
that meets components another call made. `RaceFree`, `Resolving` and `ScratchHolds` are proved for any number of all of these.

**Deadlock** is checked except where the system simply ends: a written-back document,
bundles whose calls are used up, a load that failed, an entity decode that is over, a
searched document.

**Fairness.** The decode loops, the search, the views, the tokenizer and the resolver run in the goroutine of
the caller without waiting for anything: `WF_vars(Next)` says no more than that the
goroutine is scheduled. Nothing is assumed of the choices within a step: which
transition wins and which key a map iteration gives next stays arbitrary. `Annotation`,
`BundleLifecycle` and `Workers` state safety only.

### Findings

1. `nonproj.go:61`: the search of `findNewHead` forgets tokens of the level it reads
   and attaches a lifted token to its old head although a descendant has the label.
2. `config.go:117`: cyclic references never reach the pass limit that is said to reject
   them.
3. `bundle.go:494-500`: the attribute ruler and the lemmatizer are built and run
   although the config disables them.
4. `attributeruler_loader.go:184`: the index of a ruler pattern is taken from three Go
   types only; a model file packs small numbers in others, so every index is read as 0.

Seen while modelling, contradicted by no doc and so without a run: the type a reference
through another key gets depends on the order of a map iteration (`config.go:156`); a
Tok2Vec section's `encode` is never read (`architectures.go:437`); a parser with a Tok2Vec
of its own is scored with the output of the shared one (`parser.go:128`); `use_upper =
false` reaches its factory as the integer zero and reads as the default (`bundle.go:570`).

## 4. Proofs

`ArcEagerProofs` proves, for every document length `N > 0`, every set of labels and
every set of transition tables:

* `TypeCorrect`: `Spec => []TypeOK`, the state never leaves the document;
* `OrderKept`: `Spec => []LiveInOrder`, the live tokens are one increasing run;
* `LiveHeadsCorrect`: `Spec => []LiveHeads`;
* `ForestCorrect`: `Spec => []NoCycle`, the heads never form a cycle.

None of them is inductive alone. The inductive invariant is their conjunction `IInv`:
the order (`LiveInOrder`) shows that a token is in one place only, so a token that
`LEFT` pops or `RIGHT` takes is no longer a buffer token; `LiveHeads` then shows that the
front of the buffer has no head, and that from any token of the stack the chain of heads
goes down the stack. The step that matters is `LEFT`, which gives the stack top a new
head and may replace the one `RIGHT` gave it: any set of tokens that kept all its heads
after the step would contain the front of the buffer, which has no head. For `RIGHT`, it
would be a set in which the chain from the stack top never leaves, and lemma
`StackEscapes` shows that such chains do leave it. Acyclicity is stated over sets, so
none of this needs induction over data. `ForceFinal` empties the lists and `WriteBack`
leaves the heads alone.

The assumption is `NAssumption` only; TLC evaluates all assumptions on every run.

The same module builds on that and proves

* `Nested`: `Spec => []ArcsNested`, projective and within the sentences;
* `Implements`: `Spec => ImplementsForest`, the refinement of `DependencyForest`.

The invariant `NInv` (`Nesting`) adds two parts to `IInv`. `Enclosed`: a token that is
neither on the stack nor in the buffer has its head between the live tokens around it
(the live ones included), so whatever lies between the stack top and the front of the
buffer is attached inside the arc that `LEFT` or `RIGHT` draws between them
(`ArcKeepsProjective`). It holds because a token leaves the stack for good only with a
head, or when nothing is left below it (`PopEncloses`); the unshifting `REDUCE` is what
keeps a headless token alive. `StartsOK`: a sentence start is in the buffer, or nothing live
lies before it. `BREAK` marks only a token behind the front of the buffer, and `SHIFT` puts a start
on an empty stack only, so no arc can pass over one (`ArcKeepsSentences`), and `BREAK` meets no arc
that is already drawn (`BreakKeepsSentences`).

The module also proves `LoopEnds`: `Spec => BudgetDecreases`. The budget starts at `7N - 1`
(`InitialBudget`). Every transition but the unshifting `REDUCE` visibly takes something away;
that one lengthens the buffer and must be paid for by the token becoming unshiftable.
It pays only if the token was shiftable before, which the invariant `UnshiftedOnce`
(`OnceUnshifted`) gives: an unshiftable token of the stack without a head lies at the bottom, where
`REDUCE` pops it, because `SHIFT` puts such a token on an empty stack only and `RIGHT` gives it a head.

Finally it proves `ListsCorrect`: `Spec => []ListsSayHeads`, and `WriteBackCorrect`:
`Spec => []WriteBackIsParse`. The invariant `AInv` (`Listing`) says that the two lists of a head
hold one arc to each of its children, ordered from the inside out. `RightsBeforeFront`, `LeftsBehindTop`
and `TopIsNewestChild` follow from `Enclosed`; by the last of them the arc that
`LEFT` takes back is the newest of its list, so `delArc` cuts and never leaves a hole (`DelNewest`). With one arc
per child the iteration order of the maps cannot matter (`OneWinner`).

`WorkersProofs` proves, for any set of bundles that contains 1, any well formed directories, any texts,
symbol table and bound on the calls:

* `RaceFree`: `Spec => []NoRace`, goroutines with a bundle each never share memory that one writes;
* `Resolving`: `Spec => []DocsResolve`, every hash of a document resolves;
* `ScratchHolds`: `Spec => []HeldIntact`, no layer overwrites rows that a call still has to read.

The first two follow from the invariant `IInv` (`OwnMemory`), which `MCWorkers` also satisfies. It
says, bundle by bundle (`InvOf`): a loaded bundle uses the maps with its own number and its pipes
have closures of its own (`BundleOK`); every value a call holds, down to the frames of a
run that is inside nested layers, is nowhere or in a slice of its own bundle, and its plan
has only stages whose pipe is loaded (`CallOK`); the store knows the strings of every cached
lexeme, the labels of components already built, and what was written (`StoreOK`). A call of one document has made the
components before it comes to `todoc` (`PlanOK`), so that it annotates with the `posCache` of its own bundle.
What each writing step adds is known to the store or given to it in the same step (`WritingStep`):
for `Decode` this takes that the labels of the table were interned when the parser was made (`LabelsKnown`), since
Deprojectivize passes over a label it cannot look up and leaves its hash in the document. That
no layer hands out memory of another bundle is a lemma per kind of layer (`LeafOwned`,
`OpenedOwned`, `JoinedOwned`), lifted to a step of a run (`ResultOwned`, `AdvancedOK`). The
plan is needed because a stage of a pipe that was skipped would have no closure of its own to
write to; the cache because `Get` of a cached word interns nothing. A step of one bundle
leaves the tables of the others alone (`LocalStep`), so each action is one lemma about
one bundle.

`ScratchHolds` is about the slices that the layers reuse: each layer keeps one and writes its
next result over its last. Nothing in the code says why the last one is not needed any more. The
proof finds the reason in the order of a run. A model is a sequence of nodes in the order of
their evaluation (`IsTree`: depth first, no path twice, children numbered without gaps). The nodes a run may
still store at are those it has not come to and the compounds it is inside of (`Pending`), and a
step only takes from that set: what has stored is never visited again in this run
(`AdvancedBounds`). Different nodes have different slices, so what a run holds is safe if it was made at
a node that is not pending (`Safe`). Across runs of a call the vectors are safe because they lie
in slices of the tok2vec pipe, in which no later stage runs (`FromT`); the output of the
projection, or of a recognizer's own tok2vec, because it was made before the place of the lower model
(`Low`), and the lower model's run starts there (`Fenced`, `ParserShape`). Calls of
other bundles have slices of their own by `IInv`. The invariant is `Kept`; it says this of every stage of
every call, with the order in which stages can follow each other (`Linked`, `After`), and is
inductive together with `IInv` (`ScratchKept`).

It holds for the trees the factories build and for no others: if two children of a compound
shared a path they would share a slice. So a large part of the module is about what is built: that each
architecture, whatever its section says, builds a tree of that kind (`FactoryOK`, from
`CompoundTree` and a lemma per architecture), that the model of a parser or recognizer has the parts its
component takes by their places (`TransitionModelOK`), and that reading a file, injecting the vectors and
cloning leave the shape alone (`FromBytesOK`, `InjectOK`, `CloneOK`).

`BiluoProofs` proves, for every document length, set of labels, set of tables and division
into sentences:

* `InDocument`, `RoomToClose`, `NothingDropped`: `TypeOK`, `OpenEntityFits` and
  `NoEntityDropped`;
* `WriteBacksAgree`: `StreamGivesEntities`, the codes and the spans say the same;
* `Implements`: `Spec => ImplementsChunks`, the refinement of `EntityChunks`.

The invariant `IInv` (`Decoding`) has five parts. `OpenOK`: the open entity starts
with the code B, has only I behind it, crosses no sentence start, and a token of its sentence is left;
this is what `BEGIN` and `IN` look one token ahead for. `CodesOK`: consumed tokens are coded, the others are
not, and a B or I belongs to a recorded span or to the open entity. `SpansOK`: a recorded span is coded
B, I, ..., I. `Ordered`: each span ends
before the next begins and before the open one. `DocOK`: the document once written. That
spans are disjoint makes the loop over them in the write-back independent of its order
(`OneSpan`, `TypeWritten`). For `WriteBacksAgree` a span is read back because the token behind it is
not coded I (`SpanEnds`), and what is read starts at a B, which is a recorded start or the entity a
forced end cut short (`ReadIsSpan`). `EntityChunks` sees the spans and the sentence
starts; `LAST` and `UNIT` are its `Mark`, and every other step a stutter.

`BundleProofs` proves, for any set of bundles with a source among them, any pipes,
directories and bound on the calls:

* `OnlyLoadedRun`: `Spec => []UnloadedModelsNeverRun`;
* `SameAnswer`: `Spec => []CallsAgree`;
* `Interchangeable`: `Spec => []ClonesAgree`.

The invariant (`Lifecycle`) ties what a bundle holds to the directory: a ready bundle's pipes are
those the config lists and enables, and one is usable just when its section and file load
(`PipesOK`), which no `FilesChange` of component data and no call alters; the components of a bundle
whose `once` is done need only usable pipes (`ComponentsOK`); and a call in the log ran a
prefix of the sequence that the components of its bundle and its options give (`Answered`). The
`sync.Once` is why two calls can be compared at all: after it nothing changes the components.

`DocViewsProofs` proves, for documents of any length, any parses that are forests, any
sets of nominals and any labels:

* `DeprojectivizeStaysForest`: `DocSpec => []StaysForest`;
* `DeprojectivizeMovesDown`: `DocSpec => MovesDown`;
* `ViewsStayTrue`: `DocSpec => []ViewsFollowHeads`;
* `ChunksStayInSentences`: `DocSpec => []ChunksFitSentences`.

The invariant `SearchInv` adds to the forest that roots are not decorated (`RootsPlain`) and
that every token in `queue` and `next` was reached without passing through the token to be
moved (`SearchStays`). `Visited` says the latter with sets: a set that holds the old head
and all children of its members except the moved token holds the visited token too. It is
what makes a found head a descendant of the old head that is not below the moved token, so
that moving makes no cycle (`ReattachKeepsForest`) and moves down (`FindMovesDown`). It holds
although the two levels share one array, whichever places of it are overwritten.
`ViewsStayTrue` needs that an index is only built when the outer loop is over
(`IndexCurrent`), that the rows cut out of it are the children (`ChildrenFromRows`), and that
the recursion of `SubtreeOf` collects the descendants and nothing else (`SubtreeMembers`).
For `ChunksStayInSentences`, heads stay within sentences because moving down never leaves one
(`HeadsInSentence`), so both edges of a subtree are in the sentence of its token
(`EdgeInSentence`), and the pass over the nominals carries the end of the last chunk
(`PassTakes`, `PassPasses`).

`TokenizerProofs` proves, for any texts, any compiled rules and any regular expression
engine that meets `MatchesAssumption` and `SpecialsAssumption`:

* `TokenizerTiles`: `Spec => []TokensTile`;
* `DocumentSpellsText`: `Spec => []RoundTrip`;
* `NormsComeFromTheTable`: `Spec => []NormsJustified`;
* `WordsOfTheTableStayWhole`: `Spec => []SpecialsStayWhole`.

The invariant `TInv` says of each phase which stretches the lists of tokens tile: `out` up to the
chunk, `prefixes` from there to what is left, `suffixes`, in reverse, behind it (`Strips`); spans up
to the last infix (`Splits`); `result` up to the token the second pass has reached (`Merging`).
A space flag counts as a rune of the token before it, and is set only when the space is read, after
the token was made. So the invariant also says that the tokens of `prefixes` and `suffixes` have no
flag yet (`Plain`), nor has the last token of `out` where a space is read (`LastPlain`). `JInv` says every token of every list has
its norm from an entry of the table that spells the runes it lies on. `WInv` says of words, the
stretches between white space, that all before the chunk have come out as the rules want it
(`Kept`), that the chunk is the only word not yet emitted (`OnlyWord`), and that a chunk the
rules decide as a whole has not been stripped of anything (`Undecided`): `StripAffixes` tests
that before each affix. The property looks at `out` before the second pass, as the model does.

`ConfigProofs` proves, for any finite set of keys and any files over them, cyclic or not:

* `ResolvedMeansFile`: `Spec => []ResolvedAsWritten`.

No assumption excludes cycles: the theorem says what a resolved table holds, and the expansion
of a key that leads to a cycle never ends. A text is spelled with a meaning of its keys
(`Spelled`), and `Meaning` follows the references as often as there are keys. That this is
often enough is `MeaningSettles`: a key is settled once its text has no key left, a step
that settles no new key is the last to settle any, and there are only `Cardinality(Keys)`
of them; so afterwards a key is settled exactly if all keys it refers to are, and what is
settled no longer changes. The invariant `CInv` says with it that each row of
the table still has its value of the file or has the text its settled key means, and the type that
follows (`Rows`); that the text being expanded, settled references replaced, still means what its
key means, and has an unsettled key exactly if the key is unsettled itself (`Expanding`, by
`SubstituteMeans`); and that a pass that is over leaves no reference (`Passes`). The first
pass therefore resolves everything and a second finds nothing to do, which is
why `MaxPass > 1` is assumed: the code allows sixteen.

`InductionProofs` is what `DocViewsProofs`, `TokenizerProofs`, `ConfigProofs` and `WorkersProofs` share. The induction principles of the library are
parameterised by an operator, which the provers here cannot instantiate. The module obtains
induction from the pigeonhole principle for finite sets and states it with sets in place of
operators (`SetInduction`), and definition by recursion with a function per step
(`Recursion`). A recursive function of the model is then shown to be such an iteration
(`InOrderIsIterated`, `SubtreeIsIterated`, `ChunksAreIterated`, `MeantIsIterated`), from which its
properties follow step by step. `FlattenSeq` of the community modules is treated
alike (`FlattenConcatenates`).

Every safety and action property of `ArcEager`, `Biluo`, `Nonproj`, `DocViews`, `Tokenizer`,
`ConfigInterp` and `BundleLifecycle` that a passing run checks is proved. Only model-checked, so far:

* `Workers`: `RowsSeeTheirWindow` and `LoadedPipesRun`. That the trees are depth first, which
  `ScratchHolds` needed, is not enough for them: they also need the number of columns and the set of
  tokens that every layer of every architecture yields, as a recursion over its tree.
* `Annotation`: `TypeOK`, `RulerAsWritten`, `LemmaAsTables` and `MatchesAsWritten`; the last three
  speak of folds and sorted sequences of the community modules.
* Liveness under fairness, which is outside the prover's reach. The budget
  (`BudgetDecreases`) is the part of termination that can be proved.

## 5. Plan

1. `ParserPipeline`: the parser composed with the deprojectivizer over one document, so
   that `StartsAssumption` of `DocViews` becomes a theorem about the parser.
2. The typed getters and the line parser of the config.
3. Proofs: `LoadedPipesRun` and `RowsSeeTheirWindow` of `Workers`, over the columns of what the
   factories build, then the properties of `Annotation`.

## 6. Not modelled

The arithmetic of the kernels (`nn/backend`, the inner loops of `nn/layers`): no model
checker or prover here has floating point. Hashing and lexical flags: bit mixing and
character classes, covered by golden tests. The msgpack readers of models, moves, tables
and vectors: they parse a file into what the models take as data. `with_padded.go`: no
architecture builds it. Generated English data, the report workflows, test tools and
examples: tables and output.
