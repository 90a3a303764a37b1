-------------------------- MODULE MCBundleLifecycle --------------------------
(* Directories for model checking BundleLifecycle. *)
EXTENDS BundleLifecycle

Intact(p) == [listed |-> TRUE, disabled |-> FALSE,
              section |-> IF p \in ModelPipes THEN "ok" ELSE "none",
              model |-> "ok", data |-> TRUE]

(* The ways one pipe of a directory differs from a complete one. *)
Faulty(p) ==
  {[Intact(p) EXCEPT !.listed = FALSE], [Intact(p) EXCEPT !.disabled = TRUE],
   [Intact(p) EXCEPT !.data = FALSE]}
  \union
  (IF p \in ModelPipes
   THEN {[Intact(p) EXCEPT !.section = s] : s \in {"none", "stub", "broken"}}
          \union {[Intact(p) EXCEPT !.model = m] : m \in {"missing", "mismatch"}}
   ELSE {})

Complete == [p \in Pipes |-> Intact(p)]

(* A complete directory, and every one in which one pipe differs. *)
OneFault == {Complete} \union UNION {{[Complete EXCEPT ![p] = e] : e \in Faulty(p)} : p \in Pipes}

(* A full call, and one without the lemmatizer and the recognizer. *)
SomeOptions == {{}, {"lemmatizer", "ner"}}

DisabledLemmatizer == {[Complete EXCEPT !["lemmatizer"].disabled = TRUE]}
Tok2vecMismatch == {[Complete EXCEPT !["tok2vec"].model = "mismatch"]}
=============================================================================
