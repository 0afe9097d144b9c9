--------------------------- MODULE MCChrootArchive ---------------------------
(* Model-checking instance of ChrootArchive: every path string of at most *)
(* MaxElems elements over two names, ".", and "..", absolute or relative, *)
(* with or without a trailing slash.                                       *)
EXTENDS ChrootArchive

MaxElems == 2

MCPaths ==
  {p \in [abs : BOOLEAN, elems : SeqOf({"a", "b", ".", ".."}, MaxElems),
          slash : BOOLEAN] : p.elems = <<>> => ~p.slash}

\* "/", "/a" and the working directory "." exist.
MCInitDirs ==
  {[abs |-> TRUE, elems |-> <<>>], [abs |-> TRUE, elems |-> <<"a">>],
   [abs |-> FALSE, elems |-> <<>>]}
=============================================================================
