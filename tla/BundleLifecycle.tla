--------------------------- MODULE BundleLifecycle ---------------------------
(***************************************************************************)
(* A bundle from FromDisk to its last Pipe call: which pipes of the config  *)
(* are loaded and which are recorded as skipped, what Clone carries over,   *)
(* how the first call builds the components from the loaded pipes and from  *)
(* files it reads only then (ensureComponents), and which components a call *)
(* runs (PipeWith).                                                         *)
(*                                                                         *)
(* Calls on one bundle are made one after the other, and a bundle is cloned *)
(* between its calls: both are documented duties of the caller.  The files  *)
(* of the bundle may come and go while it is in use.                        *)
(***************************************************************************)
EXTENDS Integers, Sequences, FiniteSets, SequencesExt

CONSTANTS Bundles,   \* the bundle objects of the program
          Source,    \* the one that is read from disk; the others are clones
          Disks,     \* the directories it may be read from
          Options,   \* the components a caller may leave out of a call
          MaxCalls,  \* calls of a run, over all bundles
          MaxLost    \* pipes without their files at any time

ModelPipes == {"tok2vec", "tagger", "parser", "ner"}
Pipes == ModelPipes \union {"attribute_ruler", "lemmatizer"}

(* What the directory holds for a pipe.  data: the files read on the first   *)
(* call (cfg, moves, patterns, lookups) are there and are accepted.          *)
Entry == [listed : BOOLEAN, disabled : BOOLEAN,
          section : {"none", "stub", "broken", "ok"},
          model : {"missing", "mismatch", "ok"},
          data : BOOLEAN]

ASSUME SourceAssumption == Source \in Bundles
ASSUME DisksAssumption == Disks \subseteq [Pipes -> Entry]
ASSUME OptionsAssumption == Options \subseteq SUBSET {"attribute_ruler", "lemmatizer", "ner"}
ASSUME BoundsAssumption == MaxCalls \in Nat /\ MaxLost \in Nat

VARIABLES disk,       \* the directory
          pc,         \* pc[b]: "unbuilt" | "ready" | "failed"
          pipes,      \* pipes[b]: the Pipes map, a function on the pipes it has
          once,       \* once[b]: ensureComponents has run
          components, \* components[b]: the components it built
          broken,     \* broken[b]: componentsErr is set
          log         \* every call: bundle, options, result, components it ran

vars == <<disk, pc, pipes, once, components, broken, log>>

Call == [bundle : Bundles, skip : Options,
         result : {"doc", "error"}, built : BOOLEAN, ran : Seq(Pipes)]

-----------------------------------------------------------------------------
(* FromDisk: what becomes of one pipe of nlp.pipeline. *)
Load(e) ==
  LET model == ~e.disabled /\ e.section \notin {"none", "stub"}
  IN  [skipped |-> ~model \/ e.model \in {"missing", "mismatch"}, model |-> model]

Listed(d) == {p \in Pipes : d[p].listed}

(* An architecture that cannot be built aborts the load. *)
Aborts(d) == \E p \in Listed(d) : ~d[p].disabled /\ d[p].section = "broken"

Init ==
  /\ disk \in Disks
  /\ pc = [b \in Bundles |-> "unbuilt"]
  /\ pipes = [b \in Bundles |-> <<>>]
  /\ once = [b \in Bundles |-> FALSE]
  /\ components = [b \in Bundles |-> {}]
  /\ broken = [b \in Bundles |-> FALSE]
  /\ log = <<>>

(* The load also fails when a file the pipes share (meta.json, config.cfg,   *)
(* the strings, the vectors, the tokenizer's rules) is refused.              *)
FromDisk ==
  /\ pc[Source] = "unbuilt"
  /\ \/ /\ pc' = [pc EXCEPT ![Source] = "failed"]
        /\ UNCHANGED pipes
     \/ /\ ~Aborts(disk)
        /\ pc' = [pc EXCEPT ![Source] = "ready"]
        /\ pipes' = [pipes EXCEPT ![Source] = [p \in Listed(disk) |-> Load(disk[p])]]
  /\ UNCHANGED <<disk, once, components, broken, log>>

(* A skipped pipe keeps its record and loses its model; a loaded one is built *)
(* anew and takes over the weights.                                          *)
MutClonePipeRebuilds(pipe) == [skipped |-> pipe.skipped /\ ~pipe.model, model |-> pipe.model]
ClonePipe(pipe) ==
  IF pipe.skipped \/ ~pipe.model THEN [pipe EXCEPT !.model = FALSE] ELSE pipe

Clone(b, c) ==
  /\ pc[b] = "ready" /\ pc[c] = "unbuilt" /\ c # Source
  /\ pipes' = [pipes EXCEPT ![c] = [p \in DOMAIN pipes[b] |-> ClonePipe(pipes[b][p])]]
  /\ pc' = [pc EXCEPT ![c] = "ready"]
  /\ UNCHANGED <<disk, once, components, broken, log>>

-----------------------------------------------------------------------------
(* A pipe whose model may be run. *)
MutUsableIfModel(b, p) == p \in DOMAIN pipes[b] /\ pipes[b][p].model
Usable(b, p) == p \in DOMAIN pipes[b] /\ ~pipes[b][p].skipped /\ pipes[b][p].model

(* The components ensureComponents finds.  The tagger, the parser and the     *)
(* recognizer want a usable pipe, the other two only their files; without the *)
(* lemmatizer's files it stops before the recognizer.                         *)
HasLemmatizer == disk["lemmatizer"].data

Found(b) ==
  {p \in {"tagger", "parser"} : Usable(b, p) /\ disk[p].data}
    \union {p \in {"attribute_ruler", "lemmatizer"} : disk[p].data}
    \union {p \in {"ner"} : HasLemmatizer /\ Usable(b, p) /\ disk[p].data}

(* sync.Once: the first call builds the components, the result stands. *)
MutEnsureRetries(b) ==
  IF once[b] /\ ~broken[b]
  THEN UNCHANGED <<once, components, broken>>
  ELSE /\ once' = [once EXCEPT ![b] = TRUE]
       /\ components' = [components EXCEPT ![b] = Found(b)]
       /\ broken' = [broken EXCEPT ![b] = ~HasLemmatizer]
EnsureComponents(b) ==
  IF once[b]
  THEN UNCHANGED <<once, components, broken>>
  ELSE /\ once' = [once EXCEPT ![b] = TRUE]
       /\ components' = [components EXCEPT ![b] = Found(b)]
       /\ broken' = [broken EXCEPT ![b] = ~HasLemmatizer]

(* What a call runs, in order, when nothing fails. *)
NeedsTok2vec(cs) == cs \intersect {"tagger", "parser"} # {}
Sequence(cs, skip) ==
  LET when(p) == IF p \in cs \ skip THEN <<p>> ELSE <<>>
  IN (IF NeedsTok2vec(cs) THEN <<"tok2vec">> ELSE <<>>)
       \o when("tagger") \o when("parser") \o when("attribute_ruler") \o when("lemmatizer") \o when("ner")

(***************************************************************************)
(* PipeWith.  A call on a broken bundle, and a call that needs a tok2vec     *)
(* model the bundle does not have, fail before anything runs; any component *)
(* may fail on the text, and then no later one runs.                        *)
(***************************************************************************)
PipeWith(b, skip) ==
  /\ pc[b] = "ready"
  /\ Len(log) < MaxCalls
  /\ EnsureComponents(b)
  /\ LET order == Sequence(components'[b], skip)
         refused == broken'[b] \/ (NeedsTok2vec(components'[b]) /\ ~Usable(b, "tok2vec"))
     IN \E n \in 0..Len(order) :
          /\ refused => n = 0
          /\ log' = Append(log, [bundle |-> b, skip |-> skip,
                                 result |-> IF ~refused /\ n = Len(order) THEN "doc" ELSE "error",
                                 built |-> ~refused,
                                 ran |-> SubSeq(order, 1, n)])
  /\ UNCHANGED <<disk, pc, pipes>>

(* The files of a pipe are lost, or provided, after the load. *)
FilesChange(p) ==
  /\ pc[Source] = "ready"
  /\ disk[p].data => Cardinality({q \in Pipes : ~disk[q].data}) < MaxLost
  /\ disk' = [disk EXCEPT ![p].data = ~@]
  /\ UNCHANGED <<pc, pipes, once, components, broken, log>>

Next ==
  \/ FromDisk
  \/ \E b, c \in Bundles : Clone(b, c)
  \/ \E b \in Bundles : \E skip \in Options : PipeWith(b, skip)
  \/ \E p \in Pipes : FilesChange(p)

Spec == Init /\ [][Next]_vars
-----------------------------------------------------------------------------
(***************************************************************************)
(* Properties                                                              *)
(***************************************************************************)
Calls == {log[i] : i \in 1..Len(log)}

(* A model that did not load, or that the config disables, is never run, by   *)
(* the bundle it was read into or by any clone, though a skipped pipe may     *)
(* hold a half-filled model.                                                  *)
UnloadedModelsNeverRun ==
  \A call \in Calls : \A p \in ToSet(call.ran) \intersect ModelPipes :
    /\ disk[p].listed /\ ~disk[p].disabled
    /\ disk[p].section = "ok" /\ disk[p].model = "ok"

(* One bundle answers the same call the same way every time, whatever becomes *)
(* of its files: a call that could not be built never can be, and two calls   *)
(* that ran to the end ran the same components.                               *)
CallsAgree ==
  \A x, y \in Calls : x.bundle = y.bundle /\ x.skip = y.skip =>
    /\ x.built = y.built
    /\ IsPrefix(x.ran, y.ran) \/ IsPrefix(y.ran, x.ran)
    /\ x.result = "doc" /\ y.result = "doc" => x.ran = y.ran

(* A clone finds the components its source would find, from the same files:   *)
(* a bundle and its clones may stand in for each other.                       *)
ClonesAgree ==
  \A b, c \in Bundles : pc[b] = "ready" /\ pc[c] = "ready" =>
    /\ Found(b) = Found(c)
    /\ Usable(b, "tok2vec") = Usable(c, "tok2vec")

(* FromDisk's comment: it would not build "a pipe Bundle.Pipe will never       *)
(* invoke", meaning one the config disables.                                   *)
DisabledNeverRun ==
  \A call \in Calls : \A p \in ToSet(call.ran) : ~disk[p].disabled

=============================================================================
