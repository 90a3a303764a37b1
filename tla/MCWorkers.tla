------------------------------ MODULE MCWorkers ------------------------------
(***************************************************************************)
(* Small bundle directories for Workers: the shapes of the sm and the md   *)
(* pipelines with one or two columns, a recognizer with its own tok2vec, a *)
(* directory whose tok2vec does not load, and one with a column the        *)
(* feature extractor refuses.  A model file is what spaCy saves: the tree  *)
(* of its own factories, with every parameter at its length.               *)
(***************************************************************************)
EXTENDS Workers

Join(f, g) == [x \in DOMAIN f \cup DOMAIN g |-> IF x \in DOMAIN g THEN g[x] ELSE f[x]]
Under(prefix, cfg) == [p \in {prefix \o q : q \in DOMAIN cfg} |-> cfg[SubSeq(p, Len(prefix) + 1, Len(p))]]
Entry(key, value) == [p \in {<<key>>} |-> value]
Model(arch, entries) == Join(Entry("@architectures", Text(arch)), entries)

\* spaCy's factories read the section encode, and a Tok2Vec inside a parser.
Flat(cfg) == [p \in DOMAIN cfg \cup DOMAIN Section(cfg, "encode") |->
                IF p \in DOMAIN Section(cfg, "encode") \ {<<"@architectures">>}
                THEN Section(cfg, "encode")[p] ELSE cfg[p]]
SpacyCfg(cfg) ==
  IF HasSection(cfg, "tok2vec")
  THEN Join(cfg, Under(<<"tok2vec">>, Flat(Section(cfg, "tok2vec"))))
  ELSE Flat(cfg)

Trained(n) ==
  LET all == n.dims.nF * n.dims.nO * n.dims.nP
  IN CASE n.kind = "hashembed" -> [E |-> n.dims.nV * n.dims.nO]
       [] n.kind = "maxout" -> [W |-> n.dims.nO * n.dims.nP * n.dims.nI, b |-> n.dims.nO * n.dims.nP]
       [] n.kind = "layernorm" -> [G |-> n.dims.nI, b |-> n.dims.nI]
       [] n.kind \in {"linear", "softmax", "mish"} -> [W |-> n.dims.nO * n.dims.nI, b |-> n.dims.nO]
       [] n.kind = "precomputable_affine" ->
            [W |-> all * n.dims.nI, b |-> n.dims.nO * n.dims.nP, pad |-> all]
       [] n.kind = "static_vectors" -> [W |-> n.dims.nO * n.dims.nM]
       [] OTHER -> <<>>
Saved(tree) == [k \in DOMAIN tree |-> [dims |-> Walk(tree)[k].dims, params |-> Trained(Walk(tree)[k])]]
\* dims: the sizes that training settled, labels of the tagger, moves, feature
\* slots, by the place of the node.
Settled(tree, dims) ==
  [i \in DOMAIN tree |->
     IF tree[i].at \in DOMAIN dims THEN [tree[i] EXCEPT !.dims = Join(@, dims[tree[i].at])] ELSE tree[i]]
File(cfg, dims) == Saved(Settled(BuildSection(SpacyCfg(cfg)).tree, dims))

-----------------------------------------------------------------------------
Embed(columns, rows, static) == Under(<<"embed">>, Model("spacy.MultiHashEmbed.v2",
  Join(Join(Entry("attrs", Texts(columns)), Entry("rows", Numbers(rows))),
       Join(Entry("width", Number(96)), Entry("include_static_vectors", Flag(static))))))
Encode(depth, window) == Under(<<"encode">>, Model("spacy.MaxoutWindowEncoder.v2",
  Join(Entry("depth", Number(depth)), Entry("window_size", Number(window)))))
Tok2VecCfg(columns, rows, static, depth) ==
  Model("spacy.Tok2Vec.v2",
        Join(Join(Embed(columns, rows, static), Encode(depth, 1)), Entry("depth", Number(depth))))
ListenerCfg == Model("spacy.Tok2VecListener.v1",
  Join(Entry("upstream", Text("tok2vec")), Entry("width", Tenths(960))))
TaggerCfg == Model("spacy.Tagger.v2", Join(Entry("nO", Text("")), Under(<<"tok2vec">>, ListenerCfg)))
ParserCfg(type, tok2vec) == Model("spacy.TransitionBasedParser.v2",
  Join(Join(Entry("state_type", Text(type)), Entry("use_upper", Flag(TRUE))),
       Join(Entry("extra_state_tokens", Flag(FALSE)), Under(<<"tok2vec">>, tok2vec))))

Config(pipeline, disabled, models) ==
  Join([p \in {<<"nlp", "pipeline">>, <<"nlp", "disabled">>} |->
          Texts(IF p[2] = "pipeline" THEN pipeline ELSE disabled)],
       [p \in UNION {{<<"components", name, "model">> \o q : q \in DOMAIN models[name]} :
                     name \in DOMAIN models} |->
          models[p[2]][SubSeq(p, 4, Len(p))]])

Labels == [tagger |-> {"NN", "DT"}, parser |-> {"dep", "mod||dep"}, ner |-> {"ORG"}]
Ruler(specs, attrs, lemmas) == [specs |-> specs, attrs |-> attrs, lemmas |-> lemmas]
NoRuler == Ruler({}, {}, {})
Lemmas == [Dogs |-> {"dog"}, a |-> {"a"}, NOUN |-> {"NOUN", "noun"}]
\* A directory as trained: file is name -> <<cfg, dims>>.
Bundle(pipeline, disabled, models, file, vectors) ==
  [pipeline |-> pipeline, disabled |-> disabled, models |-> models, file |-> file, vectors |-> vectors,
   ruler |-> NoRuler]
Ruled(d, ruler) == [d EXCEPT !.ruler = ruler]
Plain(cfg) == <<cfg, <<>>>>
TaggerDims(labels) == <<2, 1>> :> [nO |-> labels]
ParserDims(nF, moves) == <<2>> :> [nF |-> nF] @@ <<3>> :> [nO |-> moves]

SmTok2Vec == Tok2VecCfg(<<"NORM", "SHAPE">>, <<5000, 2500>>, FALSE, 1)
SmParser == ParserCfg("parser", ListenerCfg)
Sm == Ruled(Bundle(<<"tok2vec", "tagger", "parser", "senter", "attribute_ruler">>, <<"senter">>,
  [tok2vec |-> SmTok2Vec, tagger |-> TaggerCfg, parser |-> SmParser],
  [tok2vec |-> Plain(SmTok2Vec), tagger |-> <<TaggerCfg, TaggerDims(2)>>,
   parser |-> <<SmParser, ParserDims(8, 2)>>], 0), Ruler({"NN", "Dogs"}, {"VBZ"}, {}))

\* A tok2vec and a tagger with two labels.
Tagging(tok2vec, vectors) ==
  Bundle(<<"tok2vec", "tagger">>, <<>>, [tok2vec |-> tok2vec, tagger |-> TaggerCfg],
    [tok2vec |-> Plain(tok2vec), tagger |-> <<TaggerCfg, TaggerDims(2)>>], vectors)

Md == Tagging(Tok2VecCfg(<<"SHAPE">>, <<2500>>, TRUE, 2), 300)
Orth == Tagging(Tok2VecCfg(<<"ORTH">>, <<5000>>, FALSE, 1), 0)
\* The encoder section asks for a window of two tokens, at spaCy's depth.
Wide == Tagging(Model("spacy.Tok2Vec.v2", Join(Embed(<<"NORM">>, <<5000>>, FALSE), Encode(4, 2))), 0)

NerCfg == ParserCfg("ner", Tok2VecCfg(<<"SHAPE">>, <<2500>>, FALSE, 1))
Ner == Ruled(Bundle(<<"ner", "attribute_ruler">>, <<>>, [ner |-> NerCfg],
  [ner |-> <<NerCfg, ParserDims(3, 1)>>], 0), Ruler({"not"}, {"NOUN", "be"}, {"be"}))

\* Foreign: the tok2vec of the file has nodes of another factory, the senter is
\* a legacy stub, the parser has no file.
ForeignTok2Vec == Join(Model("spacy.Tok2Vec.v2", Entry("depth", Tenths(15))),
                       Under(<<"embed">>, Model("spacy.HashEmbedCNN.v2", Entry("depth", Number(1)))))
Foreign == Bundle(<<"tok2vec", "tagger", "parser", "senter">>, <<>>,
  [tok2vec |-> ForeignTok2Vec, tagger |-> TaggerCfg, parser |-> SmParser,
   senter |-> Model("spacy-legacy.Tagger.v1", <<>>)],
  [tok2vec |-> Plain(SmTok2Vec), tagger |-> <<TaggerCfg, TaggerDims(2)>>], 0)

\* The embedding is a character embedding without a width: no factory takes it.
BrokenTok2Vec == Model("spacy.Tok2Vec.v2",
  Under(<<"embed">>, Model("spacy.CharacterEmbed.v2", <<>>)))
Broken == Bundle(<<"tok2vec", "tagger">>, <<>>, [tok2vec |-> BrokenTok2Vec, tagger |-> TaggerCfg],
  [tagger |-> <<TaggerCfg, TaggerDims(2)>>], 0)

Directory(d) ==
  [config |-> Config(d.pipeline, d.disabled, d.models),
   files |-> [name \in DOMAIN d.file |-> File(d.file[name][1], d.file[name][2])],
   vectors |-> d.vectors, labels |-> Labels, ruler |-> d.ruler, lemmas |-> Lemmas, strings |-> {"a", "NN"}]
MCDisks == {Directory(d) : d \in {Sm, Md, Ner, Foreign, Orth, Wide, Broken}}

-----------------------------------------------------------------------------
MCSymbols == {"NOUN", "dep", "ORG"}
MCUndecorated == "mod||dep" :> "mod"
Form(prefix, suffix, shape, lower) == [prefix |-> prefix, suffix |-> suffix, shape |-> shape, lower |-> lower]
MCForms == [Dogs |-> Form("D", "ogs", "Xxxx", "dogs"), a |-> Form("a", "a", "x", "a"),
            NOUN |-> Form("N", "OUN", "XXXX", "noun"), not |-> Form("n", "not", "xxx", "not")]
Tok(orth, norm) == [orth |-> orth, norm |-> norm]
MCTokens == [t1 |-> <<Tok("Dogs", ""), Tok("a", "not")>>, t2 |-> <<Tok("NOUN", "")>>, none |-> <<>>]
MCBatches == {<<"none">>, <<"t1">>, <<"t2">>, <<"t1", "t2">>}
=============================================================================
