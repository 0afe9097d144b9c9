----------------------------- MODULE ChrootUntar -----------------------------
(***************************************************************************)
(* Composition of the chrootarchive entry points with the sandbox they     *)
(* run the archive code in.  After untarHandler / invokePack hand off      *)
(* (ChrootArchive), doUnpack / doPack start a child that calls             *)
(* mounttree.SwitchRoot(root) (SwitchRoot) and, only if that returned      *)
(* nil, runs archive.Unpack / archive.TarWithOptions on the resolved path  *)
(* inside the new root.  doUnpack, doPack and the child's set-up are not   *)
(* in this repository's sources; they are modelled from the spec (4.E,     *)
(* "chroot sandbox ... run this extraction with root confined to D").      *)
(***************************************************************************)
EXTENDS ChrootArchive

CONSTANT ChildFallible  \* the system calls of the child's SwitchRoot that may fail

VARIABLES
  srPc, srIsMount, srPivotExists, srOldRoot, srProcRoot, srCwd, srPrivate,
  srMounted, srDeferred, srRet, srCleanupErr,
  child,      \* the chroot child: "idle", "switching", "working", "done"
  worked,     \* the host directory the archive code ran on, or NoDir
  childRet    \* what doUnpack / doPack return: "none", "nil", "switchRoot"

SR == INSTANCE SwitchRoot
        WITH Fallible <- ChildFallible,
             pc <- srPc, isMount <- srIsMount, pivotExists <- srPivotExists,
             oldRoot <- srOldRoot, procRoot <- srProcRoot, cwd <- srCwd,
             private <- srPrivate, mounted <- srMounted,
             deferred <- srDeferred, ret <- srRet, cleanupErr <- srCleanupErr

\* Not a directory: a record of another shape than any path.
NoDir == [nodir |-> TRUE]

srVars == <<srPc, srIsMount, srPivotExists, srOldRoot, srProcRoot, srCwd,
            srPrivate, srMounted, srDeferred, srRet, srCleanupErr>>
callerVars == <<dirs, called, handoff, ret>>
allVars == <<callerVars, srVars, child, worked, childRet>>

UntarInit ==
  /\ Init
  /\ SR!Init
  /\ child = "idle"
  /\ worked = NoDir
  /\ childRet = "none"

\* One of the chrootarchive entry points runs (ChrootArchive!Next without
\* its final stutter).
Caller ==
  /\ ~called
  /\ Next
  /\ UNCHANGED <<srVars, child, worked, childRet>>

\* doUnpack / doPack: start the chroot child for the hand-off.
StartChild ==
  /\ handoff # NoHandoff
  /\ child = "idle"
  /\ child' = "switching"
  /\ UNCHANGED <<callerVars, srVars, worked, childRet>>

\* The child runs SwitchRoot(root), one statement at a time, until it
\* has returned.
Switch ==
  /\ child = "switching"
  /\ SR!Next
  /\ UNCHANGED <<callerVars, child, worked, childRet>>

\* SwitchRoot has returned: on an error the child reports it and runs
\* nothing; on nil it goes on to the archive code.
AfterSwitch ==
  /\ child = "switching"
  /\ srPc = "done"
  /\ IF srRet = "nil"
       THEN /\ child' = "working"
            /\ UNCHANGED childRet
       ELSE /\ child' = "done"
            /\ childRet' = "switchRoot"
  /\ UNCHANGED <<callerVars, srVars, worked>>

\* archive.Unpack(stream, relDest) / TarWithOptions(relSrc) in the new
\* root: the kernel resolves the path below `root`.
Work ==
  /\ child = "working"
  /\ worked' = Located(handoff.root, handoff.rel)
  /\ child' = "done"
  /\ childRet' = "nil"
  /\ UNCHANGED <<callerVars, srVars>>

Finished ==
  /\ called
  /\ child \in (IF handoff = NoHandoff THEN {"idle"} ELSE {"done"})
  /\ UNCHANGED allVars

UntarNext == Caller \/ StartChild \/ Switch \/ AfterSwitch \/ Work \/ Finished

UntarSpec == UntarInit /\ [][UntarNext]_allVars

\* The caller and the child are each one sequential goroutine / process:
\* a statement that can run is eventually run by the scheduler.  Nothing
\* is waited on that may never come (no lock, no channel): weak fairness.
UntarFairSpec == UntarSpec /\ WF_allVars(UntarNext)

-----------------------------------------------------------------------------
(* Properties.                                                             *)

\* SwitchRoot's own guarantees, in the child that calls it.
ChildIsolated == SR!SuccessIsolates

\* SwitchRoot's cleanup in the child releases the old root on every path
\* (SwitchRoot!OldRootReleased).
ChildOldRootReleased == SR!OldRootReleased

\* The child's SwitchRoot leaves no pivot directory in the extraction
\* target unless its deferred cleanup failed (SR!PivotDirCleaned).
ChildPivotDirCleaned == SR!PivotDirCleaned

\* Every hand-off to doUnpack / doPack is answered: the child eventually
\* reports nil or SwitchRoot's error, whichever of its calls fail.
ChildReturns == handoff # NoHandoff ~> childRet # "none"

\* The archive code only ever runs confined: when it has run, the child's
\* SwitchRoot returned nil, so the child's root is the chroot root, its
\* working directory is that root, and the caller's old root is not
\* mounted anywhere the archive code can reach.
WorkOnlyConfined ==
  worked # NoDir =>
    /\ srRet = "nil"
    /\ srProcRoot = "path"
    /\ srCwd = "newroot"
    /\ srOldRoot # "atPivot"

=============================================================================
