---------------------------- MODULE MCChrootUntar ----------------------------
(* Model-checking instance of ChrootUntar: path strings of at most one    *)
(* element; every system call of SwitchRoot may fail.                     *)
EXTENDS ChrootUntar

MCPaths ==
  {p \in [abs : BOOLEAN, elems : SeqOf({"a", ".."}, 1), slash : BOOLEAN] :
     p.elems = <<>> => ~p.slash}

\* Every call of SwitchRoot (SwitchRoot!Calls) may fail.
MCChildFallible ==
  {"mounted", "bind", "mkdtemp", "pivot", "rmPivot", "chroot",
   "chdirChroot", "chdir", "private", "unmount", "deferUnmount",
   "deferRemove"}

MCInitDirs == {[abs |-> TRUE, elems |-> <<>>], [abs |-> FALSE, elems |-> <<>>]}
=============================================================================
