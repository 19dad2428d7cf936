----------------------------- MODULE MCLineScan -----------------------------
(***************************************************************************)
(* Every file up to a length over a letter, another letter, newline and    *)
(* NUL, read after a longer file whose tail stays in the buffer.           *)
(***************************************************************************)
EXTENDS LineScan, SequencesExt

CONSTANTS a, b, MaxFile

Letters == {a, b, NL, NUL}
Long == {<<b, a, b, a, b>>, <<a, NL, a, b, NL>>}
AfterLong == {<<f, g>> : f \in Long, g \in BoundedSeq(Letters, MaxFile)}
SmallPats == {<<>>, <<a>>, <<a, b>>, <<a, a>>, <<b, NL>>, <<NL>>}

GrepLoops == {
  c_std_scan, c_std_mt_scan, cpp_std_scan, cpp_scan, cpp_tuned_scan, java_std_scan, java_scan,
  java_tuned_scan, csharp_std_scan, csharp_scan, csharp_tuned_scan, d_std_scan, d_scan,
  d_tuned_scan, nim_std_scan, nim_scan, nim_tuned_scan, ocaml_std_scan, ocaml_scan,
  ocaml_tuned_scan, odin_std_scan, odin_scan, odin_tuned_scan, pascal_std_scan, pascal_scan,
  pascal_tuned_scan, ada_std_scan, ada_scan, ada_tuned_scan, swift_std_scan, swift_scan,
  swift_tuned_scan, pony_std_scan, pony_scan, pony_tuned_scan, haskell_std_scan, haskell_scan,
  haskell_tuned_scan, kotlin_std_scan, kotlin_scan, kotlin_tuned_scan, lisp_std_scan, lisp_scan,
  lisp_tuned_scan, fortran_std_scan, fortran_scan, fortran_tuned_scan, lua_scan, asm_scan, c_scan,
  zig_scan, chapel_std_scan, chapel_scan, chapel_tuned_scan, elixir_std_scan, elixir_scan,
  elixir_tuned_scan, python_std_scan, python_scan, python_tuned_scan, perl_scan, ruby_scan,
  dart_scan, wasm_scan, codon_scan, scala_scan, julia_std_scan, julia_scan, crystal_std_scan,
  crystal_scan, crystal_tuned_scan, clojure_tuned_scan, js_std_scan, js_scan, clojure_std_scan,
  clojure_scan, zig_std_scan}
\* Loops that answer an empty pattern otherwise.
OtherLoops == {zig_std_mt_scan, go_scan, go_mt_scan, rust_scan}
FileSearches == (GrepLoops \X SmallPats) \cup (OtherLoops \X (SmallPats \ {<<>>}))
ASSUME SearchesAssumption ==
  /\ \A s \in FileSearches : Conforms(s[1], s[2])
  /\ \A s \in OtherLoops : ~TakesEmpty(s)

StaleTail == {js_tuned_scan, js_std_i_scan, js_i_scan} \X SmallPats
=============================================================================
