---------------------------- MODULE Architectures ----------------------------
(***************************************************************************)
(* The architecture factories (registry/architectures.go), the registry    *)
(* that dispatches to them, and the two operations that fill a built tree: *)
(* FromBytes from a model file and cloneModelParams from another tree.     *)
(* Both pair nodes by their place in the breadth-first walk and compare    *)
(* nothing but the number of nodes; neither touches attributes.            *)
(***************************************************************************)
EXTENDS ModelTrees

Built(tree) == [out |-> "built", tree |-> tree]
Stub == [out |-> "stub", tree |-> <<>>]
Failed == [out |-> "error", tree |-> <<>>]

DefaultColumns == <<"NORM", "PREFIX", "SUFFIX", "SHAPE", "SPACY", "IS_SPACE">>
DefaultRows == <<5000, 1000, 2500, 2500, 50, 50>>

Width(cfg) == CfgInt(cfg, "width", 96)
Depth(cfg) == CfgInt(cfg, "depth", 4)
WindowSize(cfg) == CfgInt(cfg, "window_size", 1)
Pieces(cfg) == CfgInt(cfg, "maxout_pieces", 3)
Window(nW, width) == (2 * nW + 1) * width

-----------------------------------------------------------------------------
(* Factories that build no other architecture.                             *)

HashEmbedCNN(cfg) ==
  LET w == Width(cfg)  nW == WindowSize(cfg)
      tables == [i \in 1..4 |-> HashEmbed(w, CfgInt(cfg, "embed_size", 2000), i - 1)]
      block == Chain(<<ExpandWindow(nW), Maxout(w, Window(nW, w), Pieces(cfg))>>)
  IN IF w <= 0 \/ Depth(cfg) <= 0
     THEN Failed
     ELSE Built(Chain(<<Chain(<<Concatenate(tables), Linear(w, 4 * w)>>),
                        Chain([d \in 1..Depth(cfg) |-> Residual(block)])>>))

\* The embedding: one hash table per column, joined by the static vectors of
\* the md and lg bundles, reduced by a maxout.
MultiHashEmbed(cfg) ==
  IF ~HasA(cfg, "attrs", "strings") \/ ~HasA(cfg, "rows", "ints")
  THEN Failed
  ELSE
    LET columns == cfg[<<"attrs">>].val
        rows == cfg[<<"rows">>].val
        w == Width(cfg)
        static == CfgBool(cfg, "include_static_vectors", FALSE)
        arms == IF static THEN Len(columns) + 1 ELSE Len(columns)
        column(i) == Chain(<<IntsGetitem(i - 1), HashEmbed(w, rows[i], 7 + i)>>)
        hashes == WithArray(Concatenate([i \in DOMAIN columns |-> column(i)]), 0)
        reduce == WithArray(Chain(<<Chain(<<Maxout(w, w * arms, Pieces(cfg)), LayerNorm(w)>>),
                                    Dropout>>), 0)
        features == <<FeatureExtractor(columns), List2Ragged, hashes>>
    IN IF Len(columns) # Len(rows)
       THEN Failed
       ELSE Built(Chain(
              (IF static THEN <<Concatenate(<<Chain(features), StaticVectors(w, 300)>>)>> ELSE features)
                \o <<reduce, Ragged2List>>))

MaxoutWindowEncoder(cfg) ==
  LET w == Width(cfg)  nW == WindowSize(cfg)
      block == Chain(<<ExpandWindow(nW), Maxout(w, Window(nW, w), Pieces(cfg)), LayerNorm(w), Dropout>>)
  IN IF Depth(cfg) <= 0
     THEN Failed
     ELSE Built(WithArray(Chain([d \in 1..Depth(cfg) |-> Residual(block)]), 0))

MishWindowEncoder(cfg) ==
  LET w == Width(cfg)  nW == WindowSize(cfg)
      block == Chain(<<ExpandWindow(nW), Mish(w, Window(nW, w))>>)
  IN Built(Chain([d \in 1..Depth(cfg) |-> Residual(block)]))

StaticVectorsArch(cfg) ==
  Built(StaticVectors(CfgInt(cfg, "nO", 96), CfgInt(cfg, "nM", 300)))

FeatureExtractorArch(cfg) ==
  IF HasA(cfg, "columns", "strings") THEN Built(FeatureExtractor(cfg[<<"columns">>].val)) ELSE Failed

CharacterEmbed(cfg) ==
  IF CfgInt(cfg, "nM", 0) <= 0 \/ CfgInt(cfg, "nC", 0) <= 0 THEN Failed ELSE Built(CharEmbed)

ListenerArch(cfg) ==
  IF HasA(cfg, "upstream", "string") /\ (HasA(cfg, "width", "int") \/ HasA(cfg, "width", "float"))
  THEN Built(Listener)
  ELSE Failed

PrecomputableAffineArch(cfg) ==
  LET dim(key, default) == CfgInt(cfg, key, default)
  IN IF \E n \in {dim("nO", 0), dim("nI", 0), dim("nF", 0), dim("nP", 1)} : n <= 0
     THEN Failed
     ELSE Built(PrecomputableAffine(dim("nO", 0), dim("nI", 0), dim("nF", 0), dim("nP", 1)))

\* The tagger always starts with a listener: its own tok2vec section is not read.
Tagger(cfg) ==
  LET nO == IF CfgInt(cfg, "nO", 50) <= 0 THEN 50 ELSE CfgInt(cfg, "nO", 50)
  IN Built(Chain(<<Listener, WithArray(Softmax(nO, Width(cfg)), 0)>>))

\* The names registered as stubs.
StubNames == {"spacy.Tokenizer.v1"} \cup
  {"spacy-legacy.Tagger.v1", "spacy-legacy.TransitionBasedParser.v1", "spacy-legacy.Tok2Vec.v1",
   "spacy-legacy.MultiHashEmbed.v1", "spacy-legacy.HashEmbedCNN.v1", "spacy-legacy.CharacterEmbed.v1",
   "spacy-legacy.MaxoutWindowEncoder.v1", "spacy-legacy.MishWindowEncoder.v1"}

\* Build of an architecture that has no sub-architecture; an unknown name fails.
BuildInner(arch, cfg) ==
  CASE arch = "spacy.HashEmbedCNN.v2" -> HashEmbedCNN(cfg)
    [] arch = "spacy.MultiHashEmbed.v2" -> MultiHashEmbed(cfg)
    [] arch = "spacy.MaxoutWindowEncoder.v2" -> MaxoutWindowEncoder(cfg)
    [] arch = "spacy.MishWindowEncoder.v2" -> MishWindowEncoder(cfg)
    [] arch = "spacy.StaticVectors.v2" -> StaticVectorsArch(cfg)
    [] arch = "spacy.FeatureExtractor.v1" -> FeatureExtractorArch(cfg)
    [] arch = "spacy.CharacterEmbed.v2" -> CharacterEmbed(cfg)
    [] arch = "spacy.Tok2VecListener.v1" -> ListenerArch(cfg)
    [] arch = "spacy.PrecomputableAffine.v1" -> PrecomputableAffineArch(cfg)
    [] arch = "spacy.Tagger.v2" -> Tagger(cfg)
    [] arch \in StubNames -> Stub
    [] OTHER -> Failed

-----------------------------------------------------------------------------
(* Factories with sub-architectures.                                       *)

MutTok2VecEncodeUnpadded(cfg) ==
  LET w == Width(cfg)  nW == WindowSize(cfg)
      block == Chain(<<ExpandWindow(nW),
                       Chain(<<Chain(<<Maxout(w, Window(nW, w), Pieces(cfg)), LayerNorm(w)>>),
                               Dropout>>)>>)
  IN IF Depth(cfg) <= 0
     THEN Failed
     ELSE Built(WithArray(Chain([d \in 1..Depth(cfg) |-> Residual(block)]), 0))
\* The encoder of Tok2Vec.v2 is built inline from the flat keys of the
\* section; a sub-section encode is not read.
Tok2VecEncode(cfg) ==
  LET w == Width(cfg)  nW == WindowSize(cfg)
      block == Chain(<<ExpandWindow(nW),
                       Chain(<<Chain(<<Maxout(w, Window(nW, w), Pieces(cfg)), LayerNorm(w)>>),
                               Dropout>>)>>)
  IN IF Depth(cfg) <= 0
     THEN Failed
     ELSE Built(WithArray(Chain([d \in 1..Depth(cfg) |-> Residual(block)]), nW * Depth(cfg)))

\* The embedding section, or the flat section with the default columns.
Tok2VecEmbed(cfg) ==
  LET columns == IF HasA(cfg, "columns", "strings") THEN cfg[<<"columns">>] ELSE Texts(DefaultColumns)
      defaults == [p \in {<<"attrs">>, <<"rows">>} |->
                     IF p = <<"attrs">> THEN columns ELSE Numbers(DefaultRows)]
      sub == Section(cfg, "embed")
      flat == IF Has(cfg, "attrs") THEN cfg ELSE OrElse(cfg, defaults)
  IN CASE HasSection(cfg, "embed") -> BuildInner(Architecture(sub, "spacy.MultiHashEmbed.v2"), sub)
       [] ~HasSection(cfg, "embed") /\ Has(cfg, "embed") -> Failed
       [] OTHER -> MultiHashEmbed(flat)

\* The first part that was not built is the result.
Encoded(embed, encode) ==
  IF embed.out # "built" THEN embed
  ELSE IF encode.out # "built" THEN encode
  ELSE Built(Chain(<<embed.tree, encode.tree>>))

Tok2Vec(cfg) == Encoded(Tok2VecEmbed(cfg), Tok2VecEncode(cfg))

TransitionModel(tok2vec, lower, upper) == Compound("parser_model", <<>>, <<tok2vec, lower, upper>>)

DefaultListener ==
  [p \in {<<"upstream">>, <<"width">>} |-> IF p = <<"width">> THEN Number(96) ELSE Text("tok2vec")]

ParserTok2Vec(arch, sub) == IF arch = "spacy.Tok2Vec.v2" THEN Tok2Vec(sub) ELSE BuildInner(arch, sub)

\* The parser model around its tok2vec, of the given width.
Parser(cfg, tok2vec, width) ==
  LET nF == IF CfgBool(cfg, "extra_state_tokens", FALSE) THEN 13 ELSE 8
      hidden == CfgInt(cfg, "hidden_width", 64)
  IN IF tok2vec.out # "built" THEN tok2vec
     ELSE Built(TransitionModel(
            Chain(<<tok2vec.tree, List2Array, Linear(hidden, width)>>),
            PrecomputableAffine(hidden, hidden, nF, CfgInt(cfg, "maxout_pieces", 2)),
            Linear(1, hidden)))

TransitionBasedParser(cfg) ==
  LET sub == IF HasSection(cfg, "tok2vec") THEN Section(cfg, "tok2vec") ELSE DefaultListener
      known == HasA(cfg, "state_type", "string") /\ cfg[<<"state_type">>].val \in {"parser", "ner"}
  IN IF ~known THEN Stub
     ELSE IF ~CfgBool(cfg, "use_upper", TRUE) THEN Failed
     ELSE Parser(cfg, ParserTok2Vec(Architecture(sub, "spacy.Tok2VecListener.v1"), sub), Width(sub))

Build(arch, cfg) ==
  CASE arch = "spacy.Tok2Vec.v2" -> Tok2Vec(cfg)
    [] arch = "spacy.TransitionBasedParser.v2" -> TransitionBasedParser(cfg)
    [] arch = "spacy.TransitionModel.v1" -> Failed
    [] OTHER -> BuildInner(arch, cfg)

BuildSection(cfg) == Build(Architecture(cfg, ""), cfg)

-----------------------------------------------------------------------------
(* Filling a tree.                                                         *)

\* f with the entries of g written over it.
Overwritten(f, g) == [x \in DOMAIN f \cup DOMAIN g |-> IF x \in DOMAIN g THEN g[x] ELSE f[x]]

\* A file holds the dims and parameters of its nodes in walk order.
FromBytes(tree, file) ==
  IF Len(tree) # Len(file)
  THEN Failed
  ELSE Built([i \in DOMAIN tree |->
         LET saved == file[WalkIndex(tree, i)]
         IN [tree[i] EXCEPT !.dims = Overwritten(@, saved.dims),
                            !.params = Overwritten(@, saved.params)]])

\* The loader hands the table of the bundle to every static_vectors node.
InjectVectors(tree, cols) ==
  [i \in DOMAIN tree |->
     IF tree[i].kind = "static_vectors" /\ cols > 0 THEN [tree[i] EXCEPT !.attrs.vectors = cols] ELSE tree[i]]

MutCloneModelParamsOnly(src, dst) ==
  IF Len(src) # Len(dst)
  THEN Failed
  ELSE Built([i \in DOMAIN dst |-> [dst[i] EXCEPT !.params = src[i].params]])
\* Both trees come from one factory and one section, so they have one shape and
\* the pairing by walk order is the pairing by place in the sequence.
CloneModelParams(src, dst) ==
  IF Len(src) # Len(dst)
  THEN Failed
  ELSE Built([i \in DOMAIN dst |-> [dst[i] EXCEPT !.dims = src[i].dims, !.params = src[i].params]])
=============================================================================
