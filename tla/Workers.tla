------------------------------- MODULE Workers -------------------------------
(***************************************************************************)
(* Bundles and the goroutines that use them: FromDisk, Clone, and the call *)
(* Bundle.PipeWith layer by layer (bundle/bundle.go), with the vocabulary  *)
(* and the scratch slices every call writes.  The documented pattern has   *)
(* two phases: the main goroutine loads, clones and may call, one call at  *)
(* a time; after Launch every bundle belongs to a goroutine of its own and *)
(* nothing is cloned any more.                                             *)
(*                                                                         *)
(* Predict on a batch of documents is the tok2vec model called directly,   *)
(* as the tests of package registry do.                                    *)
(***************************************************************************)
EXTENDS Integers, Forward, Vocabulary

CONSTANTS
  Bundles,   \* 1 is loaded from disk, the others are clones of it
  Disks,     \* the bundle directories, [config, files, vectors, strings, and of the
             \* components labels, ruler and lemmas]
  Batches,   \* the sequences of texts a call may be given
  Tokens,    \* text -> the sequence of its tokens
  Undecorated, \* dependency label with the delimiter "||" -> the part before it
  MaxCalls   \* bound on the calls of a behaviour

ASSUME BundlesAssumption == 1 \in Bundles /\ Bundles \subseteq Nat
ASSUME BoundAssumption == MaxCalls \in Nat
ASSUME TextsAssumption ==
  /\ \A docs \in Batches : docs \in Seq(DOMAIN Tokens)
  /\ \A text \in DOMAIN Tokens : Len(Tokens[text]) \in Nat

\* The architecture the code of a component is written for: it takes the parts
\* of the model by their places (tagger.go:95, parser.go:128).
Expected == [tagger |-> "spacy.Tagger.v2", parser |-> "spacy.TransitionBasedParser.v2",
             ner |-> "spacy.TransitionBasedParser.v2"]
\* What the config and the files of a directory hold: integers, at least one
\* column in a list of columns (concatenate.go:44 indexes the first output), and
\* for each component, if anything can be built, the expected architecture.
WellFormed(d) ==
  /\ DOMAIN d.config \subseteq Seq(STRING)
  /\ \A p \in DOMAIN d.config :
       /\ d.config[p].type \in {"int", "float"} => d.config[p].val \in Int
       /\ d.config[p].type = "strings" /\ p[1] = "components" => d.config[p].val \in Seq(STRING) \ {<<>>}
  /\ \A name \in DOMAIN d.files : \A k \in 1..Len(d.files[name]) :
       \A dim \in DOMAIN d.files[name][k].dims : d.files[name][k].dims[dim] \in Int
  /\ \A name \in DOMAIN Expected :
       LET cfg == BuildFactoryCfg(d.config, <<"components", name, "model">>)
       IN BuildSection(cfg).out = "built" => Architecture(cfg, "") = Expected[name]
ASSUME DisksAssumption == \A d \in Disks : WellFormed(d)

VARIABLES
  disk,      \* the directory the bundles come from
  phase,     \* "load", "failed", "build" (one goroutine) or "run" (one for each bundle)
  bundles,   \* bundle -> its fields
  strings,   \* the string stores: location -> contents
  lexemes,   \* the lexeme maps: location -> contents
  memory,    \* the scratch slices
  calls,     \* bundle -> the call it is in
  documents, \* bundle -> the strings hashed in the documents it made
  failures,  \* the stages at which a call returned an error, "missing" if it
             \* found no tok2vec
  made       \* the number of calls made

vars == <<disk, phase, bundles, strings, lexemes, memory, calls, documents, failures, made>>
stores == <<strings, lexemes>>

Pipeline == disk.config[<<"nlp", "pipeline">>].val
Disabled ==
  IF <<"nlp", "disabled">> \in DOMAIN disk.config THEN ToSet(disk.config[<<"nlp", "disabled">>].val) ELSE {}
ModelCfg(name) == BuildFactoryCfg(disk.config, <<"components", name, "model">>)

-----------------------------------------------------------------------------
(* Loading.                                                                *)

Absent == [loaded |-> FALSE, strings |-> 0, lexemes |-> 0, pipes |-> <<>>, ready |-> FALSE, parts |-> {},
           posCache |-> 0]
Skipped == [skipped |-> TRUE, tree |-> <<>>, closures |-> 0]
Loaded(tree, b) == [skipped |-> FALSE, tree |-> tree, closures |-> b]

Factory(name) == BuildSection(ModelCfg(name))
Aborts(name) ==
  name \notin Disabled /\ Has(ModelCfg(name), "@architectures") /\ Factory(name).out = "error"

\* A pipe that is disabled, has no model, is a stub, has no file or does not
\* match its file is skipped.
Filled(result) ==
  IF result.out = "error" THEN Skipped ELSE Loaded(InjectVectors(result.tree, disk.vectors), 1)
LoadBuilt(name, built) ==
  IF built.out = "stub" \/ name \notin DOMAIN disk.files
  THEN Skipped
  ELSE Filled(FromBytes(built.tree, disk.files[name]))
LoadPipe(name) ==
  IF name \in Disabled \/ ~Has(ModelCfg(name), "@architectures")
  THEN Skipped
  ELSE LoadBuilt(name, Factory(name))

FromDisk ==
  /\ phase = "load"
  /\ IF \E name \in ToSet(Pipeline) : Aborts(name)
     THEN phase' = "failed" /\ UNCHANGED <<bundles, stores>>
     ELSE /\ phase' = "build"
          /\ bundles' = [bundles EXCEPT ![1] =
               [Absent EXCEPT !.loaded = TRUE, !.strings = 1, !.lexemes = 1,
                              !.pipes = [name \in ToSet(Pipeline) |-> LoadPipe(name)]]]
          /\ strings' = [strings EXCEPT ![1] = Added({}, disk.strings)]
          /\ lexemes' = [lexemes EXCEPT ![1] = {}]
  /\ UNCHANGED <<disk, memory, calls, documents, failures, made>>

\* vectors is the output of tok2vec, out that of the last model run.
Nothing == Value("none", 0, <<>>, <<>>)
NoRun == [pipe |-> "", place |-> 0, last |-> 0, x |-> Nothing, frames |-> <<>>]
Idle == [docs |-> <<>>, skipNER |-> FALSE, plan |-> <<>>, run |-> NoRun, vectors |-> Nothing, out |-> Nothing]
Busy(b) == calls[b].plan # <<>>

ClonePipe(pipe, name, b) ==
  IF pipe.skipped
  THEN Skipped
  ELSE Loaded(InjectVectors(CloneModelParams(pipe.tree, Factory(name).tree).tree, disk.vectors), b)

MutCloneSharesLexemes(b) ==
  /\ phase = "build"
  /\ ~bundles[b].loaded
  /\ ~\E c \in Bundles : Busy(c)
  /\ bundles' = [bundles EXCEPT ![b] =
       [Absent EXCEPT !.loaded = TRUE, !.strings = b, !.lexemes = bundles[1].lexemes,
                      !.pipes = [name \in DOMAIN bundles[1].pipes |->
                                   ClonePipe(bundles[1].pipes[name], name, b)]]]
  /\ strings' = [strings EXCEPT ![b] = strings[bundles[1].strings]]
  /\ UNCHANGED <<disk, phase, lexemes, memory, calls, documents, failures, made>>
MutCloneStartsOver(b) ==
  /\ phase = "build"
  /\ ~bundles[b].loaded
  /\ ~\E c \in Bundles : Busy(c)
  /\ bundles' = [bundles EXCEPT ![b] =
       [Absent EXCEPT !.loaded = TRUE, !.strings = b, !.lexemes = b,
                      !.pipes = [name \in DOMAIN bundles[1].pipes |->
                                   ClonePipe(bundles[1].pipes[name], name, b)]]]
  /\ strings' = [strings EXCEPT ![b] = Added({}, disk.strings)]
  /\ lexemes' = [lexemes EXCEPT ![b] = lexemes[bundles[1].lexemes]]
  /\ UNCHANGED <<disk, phase, memory, calls, documents, failures, made>>
\* Clone of the source while it is quiescent: copies of the two maps, trees
\* with closures of their own, the parameters shared.
Clone(b) ==
  /\ phase = "build"
  /\ ~bundles[b].loaded
  /\ ~\E c \in Bundles : Busy(c)
  /\ bundles' = [bundles EXCEPT ![b] =
       [Absent EXCEPT !.loaded = TRUE, !.strings = b, !.lexemes = b,
                      !.pipes = [name \in DOMAIN bundles[1].pipes |->
                                   ClonePipe(bundles[1].pipes[name], name, b)]]]
  /\ strings' = [strings EXCEPT ![b] = strings[bundles[1].strings]]
  /\ lexemes' = [lexemes EXCEPT ![b] = lexemes[bundles[1].lexemes]]
  /\ UNCHANGED <<disk, phase, memory, calls, documents, failures, made>>

Launch ==
  /\ phase = "build"
  /\ \A b \in Bundles : bundles[b].loaded /\ ~Busy(b)
  /\ phase' = "run"
  /\ UNCHANGED <<disk, bundles, stores, memory, calls, documents, failures, made>>

-----------------------------------------------------------------------------
(* A call.  Its plan is the sequence of stages it still has to go through. *)

Runs(b, name) == name \in DOMAIN bundles[b].pipes /\ ~bundles[b].pipes[name].skipped
Tree(b, name) == bundles[b].pipes[name].tree
NodeAt(b, name, at) == Tree(b, name)[PlaceOf(Tree(b, name), at)]

Lens(docs) == [d \in DOMAIN docs |-> Len(Tokens[docs[d]])]
IsBatch(call) == Len(call.docs) > 1

Stages(b, call) ==
  LET parts == bundles[b].parts
      when(condition, stages) == IF condition THEN stages ELSE <<>>
      some == Lens(call.docs)[1] > 0
  IN IF IsBatch(call)
     THEN <<"tok2vec">>
     ELSE when(parts \cap {"tagger", "parser"} # {}, <<"tok2vec">>)
       \o when("tagger" \in parts /\ some, <<"tagger">>)
       \o when("parser" \in parts /\ some, <<"project", "lower", "decode">>)
       \o <<"annotate">>
       \o when("ner" \in parts /\ ~call.skipNER, <<"nertok2vec">>)
       \o when("ner" \in parts /\ ~call.skipNER /\ some, <<"nerlower", "nerdecode">>)

\* The part of a tree a stage runs and the value it gives it.
RunOf(b, call) ==
  LET stage == Head(call.plan)
      name == CASE stage = "tok2vec" -> "tok2vec"
                [] stage = "tagger" -> "tagger"
                [] stage \in {"project", "lower"} -> "parser"
                [] OTHER -> "ner"
      tree == Tree(b, name)
      at(path) == PlaceOf(tree, path)
      sub(path, x) == Start(name, tree, at(path), LastOf(tree, at(path)), x)
      docs == Docs(Lens(call.docs))
  IN CASE stage = "tok2vec" -> sub(<<>>, docs)
       [] stage = "tagger" -> sub(<<2>>, [call.vectors EXCEPT !.kind = "ragged"])
       [] stage = "project" -> Start(name, tree, at(<<1, 2>>), at(<<1, 3>>), call.vectors)
       [] stage = "nertok2vec" -> sub(<<1>>, docs)
       [] stage \in {"lower", "nerlower"} -> sub(<<2>>, call.out)

RunStages == {"tok2vec", "tagger", "project", "lower", "nertok2vec", "nerlower"}

\* The call at the first stage of its plan; it has returned when none is left.
Entered(b, call) ==
  IF call.plan = <<>>
  THEN Idle
  ELSE [call EXCEPT !.run = IF Head(call.plan) \in RunStages THEN RunOf(b, call) ELSE NoRun]

\* A needed tok2vec that is not loaded fails the call.
Enter(b, call) ==
  IF call.plan # <<>> /\ Head(call.plan) = "tok2vec" /\ ~Runs(b, "tok2vec")
  THEN calls' = [calls EXCEPT ![b] = Idle] /\ failures' = failures \cup {"missing"}
  ELSE calls' = [calls EXCEPT ![b] = Entered(b, call)] /\ UNCHANGED failures

Fail(b) ==
  /\ calls' = [calls EXCEPT ![b] = Idle]
  /\ failures' = failures \cup {Head(calls[b].plan)}

Call(b, docs, skipNER) ==
  /\ made < MaxCalls
  /\ bundles[b].loaded /\ ~Busy(b)
  /\ phase = "build" => \A c \in Bundles : ~Busy(c)
  /\ calls' = [calls EXCEPT ![b] =
       [Idle EXCEPT !.docs = docs, !.skipNER = skipNER,
                    !.plan = IF Len(docs) > 1 THEN <<"todoc">> ELSE <<"components", "todoc">>]]
  /\ made' = made + 1
  /\ UNCHANGED <<disk, phase, bundles, stores, memory, documents, failures>>

\* sync.Once: the first call makes the components.  An NER whose output layer
\* does not fit its moves is left out.  Their files are all there, but for the
\* ruler's: BundleLifecycle is about those that are not.
Components(b) ==
  (IF Runs(b, "tagger") THEN {"tagger"} ELSE {})
    \cup (IF Runs(b, "parser") THEN {"parser"} ELSE {})
    \cup (IF Runs(b, "ner") /\ NodeAt(b, "ner", <<3>>).dims.nO = Cardinality(disk.labels.ner)
          THEN {"ner"} ELSE {})

\* What the constructors intern: the labels of the models, and whatever the
\* patterns of the attribute ruler name or assign.  It is built from its file
\* alone, whether or not it is a pipe; without a file both sets are empty.
LabelStrings(b) ==
  (UNION {disk.labels[name] : name \in {n \in {"tagger", "parser", "ner"} : Runs(b, n)}})
    \cup (IF Runs(b, "parser") THEN {"ROOT"} ELSE {})
RulerStrings == disk.ruler.specs \cup disk.ruler.attrs
ComponentStrings(b) == LabelStrings(b) \cup RulerStrings

\* The lemmatizer keeps a map of the parts of speech it met, its posCache.
EnsureComponents(b) ==
  /\ Busy(b) /\ Head(calls[b].plan) = "components"
  /\ calls' = [calls EXCEPT ![b].plan = Tail(@)]
  /\ IF bundles[b].ready
     THEN UNCHANGED <<bundles, strings>>
     ELSE /\ bundles' = [bundles EXCEPT ![b].ready = TRUE, ![b].parts = Components(b), ![b].posCache = b]
          /\ strings' = [strings EXCEPT ![bundles[b].strings] = Added(@, ComponentStrings(b))]
  /\ UNCHANGED <<disk, phase, lexemes, memory, documents, failures, made>>

CallTokens(call) == UNION {ToSet(Tokens[call.docs[d]]) : d \in DOMAIN call.docs}

ToDoc(b) ==
  LET call == calls[b]
      at == bundles[b]
      words == WordsOf(CallTokens(call))
      begun == [call EXCEPT !.plan = Stages(b, call)]
  IN /\ Busy(b) /\ Head(call.plan) = "todoc"
     /\ strings' = [strings EXCEPT ![at.strings] = StoreAfterGet(@, lexemes[at.lexemes], words)]
     /\ lexemes' = [lexemes EXCEPT ![at.lexemes] = CacheAfterGet(@, words)]
     /\ documents' = [documents EXCEPT ![b] = @ \cup UNION {TokenStrings(t) : t \in CallTokens(call)}]
     /\ Enter(b, begun)
     /\ UNCHANGED <<disk, phase, bundles, memory, made>>

-----------------------------------------------------------------------------
(* Forward.                                                                *)

InRun(b) == Busy(b) /\ Head(calls[b].plan) \in RunStages
CurrentTree(b) == Tree(b, calls[b].run.pipe)
CurrentNode(b) == NodeOf(CurrentTree(b), calls[b].run)
BufferOf(b) == Buffer(bundles[b].pipes[calls[b].run.pipe].closures, calls[b].run.pipe, CurrentNode(b))

\* The feature extractor interns the shapes it hashes.
ShapesHashed(b) ==
  IF CurrentNode(b).kind = "extract_features" /\ "SHAPE" \in ToSet(CurrentNode(b).attrs.columns)
  THEN {Forms[t.orth].shape : t \in CallTokens(calls[b])}
  ELSE {}

\* One layer: it fails the call or stores its result and goes on.
Layer(b) ==
  LET run == calls[b].run
      tree == CurrentTree(b)
      y == Result(tree, run)
      stored == Stored(memory, BufferOf(b), CurrentNode(b).at, y.rows)
      kept == [y EXCEPT !.at = [buf |-> BufferOf(b), gen |-> stored[BufferOf(b)].gen, by |-> CurrentNode(b).at]]
  IN /\ InRun(b) /\ ~Finished(run)
     /\ strings' = [strings EXCEPT ![bundles[b].strings] = Added(@, ShapesHashed(b))]
     /\ CASE y.kind = "error" -> Fail(b) /\ UNCHANGED memory
          [] y.kind # "error" /\ Storing(tree, run) ->
               /\ memory' = stored
               /\ calls' = [calls EXCEPT ![b].run = Advanced(tree, run, kept)]
               /\ UNCHANGED failures
          [] OTHER ->
               /\ calls' = [calls EXCEPT ![b].run = Advanced(tree, run, y)]
               /\ UNCHANGED <<memory, failures>>
     /\ UNCHANGED <<disk, phase, bundles, lexemes, documents, made>>

\* The checks on what a model returned, before it is used.
Fits(b, name, nF, moves) ==
  LET lower == NodeAt(b, name, <<2>>)
  IN /\ lower.dims.nF = nF
     /\ lower.params.b = lower.dims.nO * lower.dims.nP
     /\ NodeAt(b, name, <<3>>).dims.nO = moves

ReturnFits(b) ==
  LET stage == Head(calls[b].plan)
      x == calls[b].run.x
  IN CASE stage = "tok2vec" -> x.kind = "floatlist"
       [] stage = "tagger" -> x.kind = "ragged" /\ x.cols = Cardinality(disk.labels.tagger)
       [] stage = "project" -> x.kind = "floats2d"
       [] stage = "nertok2vec" -> x.kind = "floats2d"
       [] stage = "lower" -> Fits(b, "parser", 8, Cardinality(disk.labels.parser))
       [] stage = "nerlower" -> Fits(b, "ner", 3, Cardinality(disk.labels.ner))

\* Any label may win for any token: the sets of labels n tokens can end with.
AtMost(n, labels) == {won \in SUBSET labels : Cardinality(won) <= n}
TokenCount(call) == Lens(call.docs)[1]

\* The tagger interns the tags it writes.
Tags(b) ==
  IF Head(calls[b].plan) = "tagger"
  THEN AtMost(TokenCount(calls[b]), disk.labels.tagger) \ {{}}
  ELSE {{}}

Return(b) ==
  LET call == calls[b]
      rest == [call EXCEPT !.plan = Tail(@)]
      x == call.run.x
  IN /\ InRun(b) /\ Finished(call.run)
     /\ IF ~ReturnFits(b)
        THEN Fail(b) /\ UNCHANGED <<strings, documents>>
        ELSE /\ Enter(b, CASE Head(call.plan) = "tok2vec" -> [rest EXCEPT !.vectors = x]
                           [] Head(call.plan) = "tagger" -> rest
                           [] OTHER -> [rest EXCEPT !.out = x])
             /\ \E tags \in Tags(b) :
                  /\ strings' = [strings EXCEPT ![bundles[b].strings] = Added(@, tags)]
                  /\ documents' = [documents EXCEPT ![b] = @ \cup tags]
     /\ UNCHANGED <<disk, phase, bundles, lexemes, memory, made>>

\* The decorated labels Deprojectivize finds among those of a document: a hash
\* the store does not resolve is passed over.
Lifted(store, deps) == {s \in deps \cap DOMAIN Undecorated : Resolves(store, s)}
Lowered(store, deps) == {Undecorated[s] : s \in Lifted(store, deps)}

MutDecodeHashes(b) ==
  LET call == calls[b]
      store == strings[bundles[b].strings]
  IN /\ Busy(b) /\ Head(call.plan) = "decode"
     /\ \E won \in AtMost(TokenCount(call) - 1, disk.labels.parser) :
          LET deps == won \cup {"ROOT"}
          IN documents' = [documents EXCEPT ![b] =
               @ \cup (deps \ Lifted(store, deps)) \cup Lowered(store, deps)]
     /\ Enter(b, [call EXCEPT !.plan = Tail(@), !.out = Nothing])
     /\ UNCHANGED <<disk, phase, bundles, stores, memory, made>>
\* The greedy decoding of the parser reads the output of the lower layer and
\* writes the labels of its arcs.  Heads form a forest, so a token is left with
\* the label of a root.  Deprojectivize then replaces the decorated labels and
\* interns what it replaces them by.
Decode(b) ==
  LET call == calls[b]
      store == strings[bundles[b].strings]
  IN /\ Busy(b) /\ Head(call.plan) = "decode"
     /\ \E won \in AtMost(TokenCount(call) - 1, disk.labels.parser) :
          LET deps == won \cup {"ROOT"}
          IN /\ strings' = [strings EXCEPT ![bundles[b].strings] = Added(@, Lowered(store, deps))]
             /\ documents' = [documents EXCEPT ![b] =
                  @ \cup (deps \ Lifted(store, deps)) \cup Lowered(store, deps)]
     /\ Enter(b, [call EXCEPT !.plan = Tail(@), !.out = Nothing])
     /\ UNCHANGED <<disk, phase, bundles, lexemes, memory, made>>

\* The recognizer writes the hashes it got when it was made.
DecodeEntities(b) ==
  LET call == calls[b]
  IN /\ Busy(b) /\ Head(call.plan) = "nerdecode"
     /\ \E types \in AtMost(TokenCount(call), disk.labels.ner) :
          documents' = [documents EXCEPT ![b] = @ \cup types]
     /\ Enter(b, [call EXCEPT !.plan = Tail(@), !.out = Nothing])
     /\ UNCHANGED <<disk, phase, bundles, stores, memory, made>>

\* The lemmas of a document: for each token one that the tables give its text,
\* by its part of speech, or one the ruler set, which is kept.
LemmasOf(call, kept) ==
  LET tokens == Tokens[call.docs[1]]
      from(i) == disk.lemmas[tokens[i].orth] \cup kept
  IN {ToSet(lemmas) : lemmas \in {l \in [DOMAIN tokens -> UNION {from(i) : i \in DOMAIN tokens}] :
                                  \A i \in DOMAIN tokens : l[i] \in from(i)}}

\* The attribute ruler writes what its patterns assign if the store knows the
\* string, and interns nothing; the lemmatizer interns the lemmas it writes.
Annotate(b) ==
  LET call == calls[b]
      store == strings[bundles[b].strings]
  IN /\ Busy(b) /\ Head(call.plan) = "annotate"
     /\ \E assigned \in SUBSET (IF TokenCount(call) > 0 THEN disk.ruler.attrs ELSE {}) :
          LET ruled == {s \in assigned : Resolves(store, s)}
          IN \E lemmas \in LemmasOf(call, ruled \cap disk.ruler.lemmas) :
               /\ strings' = [strings EXCEPT ![bundles[b].strings] = Added(@, lemmas)]
               /\ documents' = [documents EXCEPT ![b] = @ \cup ruled \cup lemmas]
     /\ Enter(b, [call EXCEPT !.plan = Tail(@)])
     /\ UNCHANGED <<disk, phase, bundles, lexemes, memory, made>>

Init ==
  /\ disk \in Disks
  /\ phase = "load"
  /\ bundles = [b \in Bundles |-> Absent]
  /\ strings = [b \in Bundles |-> {}]
  /\ lexemes = [b \in Bundles |-> {}]
  /\ memory = NoMemory
  /\ calls = [b \in Bundles |-> Idle]
  /\ documents = [b \in Bundles |-> {}]
  /\ failures = {}
  /\ made = 0

Next ==
  \/ FromDisk
  \/ Launch
  \/ \E b \in Bundles :
       \/ Clone(b)
       \/ \E docs \in Batches, skipNER \in BOOLEAN : Call(b, docs, skipNER)
       \/ EnsureComponents(b)
       \/ ToDoc(b)
       \/ Layer(b)
       \/ Return(b)
       \/ Decode(b)
       \/ DecodeEntities(b)
       \/ Annotate(b)

Spec == Init /\ [][Next]_vars

-----------------------------------------------------------------------------
(* Properties.                                                             *)

\* The strings the step a call is about to take may give to StringStore.Add.
Interned(b) ==
  LET call == calls[b]
      stage == Head(call.plan)
      words == WordsOf(CallTokens(call)) \ lexemes[bundles[b].lexemes]
  IN CASE stage = "components" -> IF bundles[b].ready THEN {} ELSE ComponentStrings(b)
       [] stage = "todoc" -> UNION {LexemeStrings(word) : word \in words}
       [] stage = "decode" -> {Undecorated[s] : s \in disk.labels.parser \cap DOMAIN Undecorated}
       [] stage = "annotate" -> UNION {disk.lemmas[t.orth] : t \in CallTokens(call)}
       [] InRun(b) /\ ~Finished(call.run) -> ShapesHashed(b)
       [] InRun(b) /\ Finished(call.run) /\ stage = "tagger" -> disk.labels.tagger
       [] OTHER -> {}

\* What that step reads and writes of the memory that bundles could share.  Add
\* reads the map and writes it only if the string is new; tokenizing, the ruler,
\* the lemmatizer and Deprojectivize also look strings up.
Reads(b) ==
  LET call == calls[b]
      at == bundles[b]
      stage == Head(call.plan)
      slices(values) == {<<"slice", v.at.buf>> : v \in {u \in values : u.at # Fresh}}
      when(condition, places) == IF condition THEN places ELSE {}
  IN IF ~Busy(b) THEN {} ELSE
     when(stage \in {"todoc", "decode", "annotate"} \/ Interned(b) # {}, {<<"strings", at.strings>>})
       \cup when(stage = "todoc", {<<"lexemes", at.lexemes>>})
       \cup when(stage = "annotate", {<<"posCache", at.posCache>>})
       \cup when(stage \in {"decode", "nerdecode"}, slices({call.out}))
       \cup when(InRun(b), slices(HeldBy(call.run) \cup {call.vectors, call.out}))

Writes(b) ==
  LET at == bundles[b]
      stage == Head(calls[b].plan)
      store == strings[at.strings]
      when(condition, places) == IF condition THEN places ELSE {}
  IN IF ~Busy(b) THEN {} ELSE
     when(Added(store, Interned(b)) # store, {<<"strings", at.strings>>})
       \cup when(stage = "todoc" /\ ~(WordsOf(CallTokens(calls[b])) \subseteq lexemes[at.lexemes]),
                 {<<"lexemes", at.lexemes>>})
       \cup when(stage = "annotate", {<<"posCache", at.posCache>>})
       \cup when(InRun(b) /\ ~Finished(calls[b].run) /\ Storing(CurrentTree(b), calls[b].run),
                 {<<"slice", BufferOf(b)>>})

\* Two goroutines with a bundle each never touch the same map or scratch
\* slice while one of them writes it: what Clone promises, and what the race
\* detector samples in TestBundle_Clone_ConcurrentPipeNoRace
\* (bundle_clone_test.go:62).
NoRace ==
  phase = "run" =>
    \A b, c \in Bundles : b # c => Writes(b) \cap (Reads(c) \cup Writes(c)) = {}

\* A layer that reuses its output slice never overwrites what somebody still
\* holds: the input of a residual block during the block, the outputs of the
\* first arms of a concatenation during the last, the vectors of the document
\* during the tagger and the parser, the lower layer's rows during decoding.
HeldIntact ==
  \A b \in Bundles : \A v \in HeldBy(calls[b].run) \cup {calls[b].vectors, calls[b].out} :
    Intact(memory, v)

\* The encoder section of a Tok2Vec as the factories read it: flat keys.
EncoderOf(name, cfg) == IF name = "tok2vec" THEN cfg ELSE Section(cfg, "tok2vec")
EncoderCfg(name) == EncoderOf(name, ModelCfg(name))

\* The row of a token depends on the tokens of its own document within depth
\* times window positions and on no other, in a batch too: this is what the
\* padding of the encoder is for.
RowsSeeTheirWindow ==
  \A b \in Bundles :
    InRun(b) /\ Finished(calls[b].run) /\ Head(calls[b].plan) \in {"tok2vec", "nertok2vec"} =>
      LET cfg == EncoderCfg(calls[b].run.pipe)
          reach == Depth(cfg) * WindowSize(cfg)
          docs == Docs(Lens(calls[b].docs))
      IN calls[b].run.x.rows = FlattenSeq([d \in DOMAIN docs.lens |-> Neighbours(RowsOf(docs, d), reach)])

\* The configurations whose calls fail: columns the feature extractor does not
\* compute, the extra state tokens, a recognizer that listens to a shared
\* tok2vec, and a section encode that says other than the flat keys the encoder
\* is built from (architectures.go:437), which the trained file follows.
EncoderSizes(cfg) == <<Depth(cfg), WindowSize(cfg), Pieces(cfg)>>
RefusedPipe(name, cfg, encoder) ==
  \/ HasA(Section(encoder, "embed"), "attrs", "strings")
       /\ ~(ToSet(Section(encoder, "embed")[<<"attrs">>].val) \subseteq Supported)
  \/ CfgBool(cfg, "extra_state_tokens", FALSE)
  \/ name = "ner" /\ Architecture(encoder, "") # "spacy.Tok2Vec.v2"
  \/ /\ name \in {"tok2vec", "ner"} /\ HasSection(encoder, "encode")
     /\ EncoderSizes(Section(encoder, "encode")) # EncoderSizes(encoder)
Refusable == \E name \in ToSet(Pipeline) : RefusedPipe(name, ModelCfg(name), EncoderCfg(name))

\* Every pipe a bundle loads can be run, on the source and on every clone: the
\* dims and the parameters read from the file fit the layers that were built
\* from the config and the columns, vectors and labels they meet.
LoadedPipesRun == failures \ {"missing"} # {} => Refusable

\* Every hash written into a document, by the tokenizer, the tagger, the
\* decoders, Deprojectivize, the ruler or the lemmatizer, resolves in the string
\* store of its bundle, also for words cached before the bundle was cloned.
DocsResolve ==
  \A b \in Bundles : \A s \in documents[b] : Resolves(strings[bundles[b].strings], s)
=============================================================================
