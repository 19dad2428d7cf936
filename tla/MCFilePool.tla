----------------------------- MODULE MCFilePool -----------------------------
(***************************************************************************)
(* Small lists of files for FilePool, with room for two pieces in a        *)
(* worker's buffer.                                                        *)
(***************************************************************************)
EXTENDS FilePool

File(sizes, f) == [lines |-> sizes, fault |-> f]

\* A line that fills the buffer between short ones; a line that never fits
\* behind one that does; a file that cannot be opened or read first and last;
\* more workers than files.
SmallLists == {
  <<File(<<1, 2>>, "no"), File(<<1, 1, 1>>, "no")>>,
  <<File(<<1, 3, 1>>, "no"), File(<<2>>, "no"), File(<<>>, "no")>>,
  <<File(<<1>>, "read"), File(<<2>>, "no"), File(<<1>>, "open"), File(<<1>>, "no")>>,
  <<File(<<2>>, "no"), File(<<1>>, "no"), File(<<1>>, "no"), File(<<1>>, "read"), File(<<2>>, "open")>>,
  <<File(<<>>, "read"), File(<<1>>, "read")>>,
  <<File(<<1>>, "no")>>,
  <<>>}
TwoFiles == {<<File(<<2>>, "no"), File(<<2>>, "no")>>}

ThePools == {
  go_pool, java_pool, java_tuned_pool, csharp_pool, csharp_tuned_pool, odin_pool, odin_tuned_pool,
  ocaml_pool, ocaml_tuned_pool, kotlin_pool, kotlin_tuned_pool, clojure_pool, clojure_tuned_pool,
  nim_pool, nim_tuned_pool, lisp_pool, lisp_tuned_pool, fortran_pool, fortran_tuned_pool,
  d_pool, d_tuned_pool, pascal_pool, pascal_tuned_pool, swift_pool, swift_tuned_pool,
  ada_pool, ada_tuned_pool, haskell_pool, haskell_tuned_pool, c_std_pool, zig_std_pool,
  cpp_pool, cpp_tuned_pool, crystal_pool, crystal_tuned_pool, lua_pool, lua_tuned_pool, js_pool, js_tuned_pool,
  elixir_pool, elixir_tuned_pool, python_pool, python_tuned_pool, pony_pool, pony_tuned_pool,
  rust_pool, chapel_pool, chapel_tuned_pool, julia_pool, julia_tuned_pool}
JSPools == {js_pool, js_tuned_pool}
=============================================================================
