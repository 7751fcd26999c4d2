----------------------------- MODULE MCJarCache -----------------------------
(***************************************************************************)
(* Three processes, two versions of the jar, two chunks each.              *)
(***************************************************************************)
EXTENDS JarCache
=============================================================================
