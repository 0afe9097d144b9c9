-------------------------- MODULE ChrootUntar_proofs --------------------------
(***************************************************************************)
(* Proofs about the chroot child (module ChrootUntar) for every set of     *)
(* paths, directories and failing system calls: the archive code runs only *)
(* after SwitchRoot returned nil, and then only confined.  The argument    *)
(* reuses SwitchRoot's inductive invariant through an instance with the    *)
(* child's variables.                                                      *)
(***************************************************************************)
EXTENDS ChrootUntar, TLAPS

SRP == INSTANCE SwitchRoot_proofs
         WITH Fallible <- ChildFallible,
              pc <- srPc, isMount <- srIsMount, pivotExists <- srPivotExists,
              oldRoot <- srOldRoot, procRoot <- srProcRoot, cwd <- srCwd,
              private <- srPrivate, mounted <- srMounted,
              deferred <- srDeferred, ret <- srRet, cleanupErr <- srCleanupErr

\* What the child may assume at each stage: SwitchRoot's invariant, and
\* that the archive code is reached only through a nil return of a
\* finished SwitchRoot, which then no longer changes.
CInv ==
  /\ SRP!IInv
  /\ child \in {"idle", "switching"} => worked = NoDir
  /\ child = "working" => srPc = "done" /\ srRet = "nil"
  /\ worked # NoDir => srPc = "done" /\ srRet = "nil"

-----------------------------------------------------------------------------

\* A Switch step of the child is a step of SwitchRoot on the child's
\* variables, as the instance SRP of the proof module sees it.
LEMMA SwitchIsStep == Switch => [SRP!Next]_(SRP!vars)
  BY DEF Switch, SR!Next, SRP!Next, SR!CheckMounted,
         SRP!CheckMounted, SR!BindMount, SRP!BindMount, SR!MkdirTemp,
         SRP!MkdirTemp, SR!PivotRoot, SRP!PivotRoot, SR!RemovePivot,
         SRP!RemovePivot, SR!Chroot, SRP!Chroot, SR!ChdirChroot,
         SRP!ChdirChroot, SR!Chdir, SRP!Chdir, SR!MakePrivate,
         SRP!MakePrivate, SR!UnmountOldRoot, SRP!UnmountOldRoot,
         SR!DeferUnmount, SRP!DeferUnmount, SR!DeferRemove, SRP!DeferRemove,
         SR!Done, SRP!Done, SR!Return, SRP!Return, SR!vars, SRP!vars

\* The composition starts in a state of CInv.
LEMMA CInvInit == UntarInit => CInv
<1> SUFFICES ASSUME UntarInit PROVE CInv
  OBVIOUS
<1>1. SRP!Init
  BY DEF UntarInit, SR!Init, SRP!Init
<1>2. SRP!IInv
  BY <1>1, SRP!IInvInit
<1>3. QED
  BY <1>2 DEF UntarInit, CInv

\* Each step of the composition preserves CInv.
LEMMA CInvStep == CInv /\ [UntarNext]_allVars => CInv'
<1> SUFFICES ASSUME CInv, [UntarNext]_allVars PROVE CInv'
  OBVIOUS
<1>1. CASE Caller
  BY <1>1 DEF Caller, CInv, srVars, SRP!IInv, SRP!TypeOK,
             SRP!MountedFlagTracksMount, SRP!SuccessIsolates,
             SRP!OldRootReleased, SRP!PivotDirCleaned
<1>2. CASE StartChild
  BY <1>2 DEF StartChild, CInv, srVars, SRP!IInv, SRP!TypeOK,
             SRP!MountedFlagTracksMount, SRP!SuccessIsolates,
             SRP!OldRootReleased, SRP!PivotDirCleaned
<1>3. CASE Switch
  <2>1. SRP!IInv'
    <3>1. [SRP!Next]_(SRP!vars)
      BY <1>3, SwitchIsStep
    <3>2. SRP!IInv
      BY DEF CInv
    <3>3. QED
      BY <3>1, <3>2, SRP!IInvStep
  <2>2. QED
    BY <1>3, <2>1 DEF Switch, CInv
<1>4. CASE AfterSwitch
  BY <1>4 DEF AfterSwitch, CInv, srVars, SRP!IInv, SRP!TypeOK,
             SRP!MountedFlagTracksMount, SRP!SuccessIsolates,
             SRP!OldRootReleased, SRP!PivotDirCleaned
<1>5. CASE Work
  BY <1>5 DEF Work, CInv, srVars, SRP!IInv, SRP!TypeOK,
             SRP!MountedFlagTracksMount, SRP!SuccessIsolates,
             SRP!OldRootReleased, SRP!PivotDirCleaned
<1>6. CASE Finished \/ UNCHANGED allVars
  BY <1>6 DEF Finished, allVars, callerVars, CInv, srVars, SRP!IInv,
             SRP!TypeOK, SRP!MountedFlagTracksMount, SRP!SuccessIsolates,
             SRP!OldRootReleased, SRP!PivotDirCleaned
<1>7. QED
  BY <1>1, <1>2, <1>3, <1>4, <1>5, <1>6 DEF UntarNext

\* The archive code of doUnpack / doPack runs only in a child whose
\* SwitchRoot returned nil, confined to the new root with the old root
\* detached, and SwitchRoot's guarantees hold in the child
\* (switchroot_linux.go:19-94 called from the chroot child).
THEOREM ChildConfined ==
  UntarSpec => [](ChildIsolated /\ WorkOnlyConfined)
<1>1. UntarInit => CInv
  BY CInvInit
<1>2. CInv => ChildIsolated /\ WorkOnlyConfined
  BY DEF CInv, SRP!IInv, ChildIsolated, WorkOnlyConfined,
         SR!SuccessIsolates, SRP!SuccessIsolates
<1>3. QED
  BY <1>1, <1>2, CInvStep, PTL DEF UntarSpec

\* SwitchRoot's guarantee that a nil return is confined holds in the child
\* (ChildIsolated).
COROLLARY ChildIsolatedThm == UntarSpec => []ChildIsolated
  BY ChildConfined, PTL

\* SwitchRoot's cleanup in the child releases the old root on every path
\* (ChildOldRootReleased).
COROLLARY ChildOldRootReleasedThm == UntarSpec => []ChildOldRootReleased
<1>1. CInv => ChildOldRootReleased
  BY DEF CInv, SRP!IInv, SRP!OldRootReleased, SRP!PivotDirCleaned, ChildOldRootReleased,
         SR!OldRootReleased
<1>2. QED
  BY <1>1, CInvInit, CInvStep, PTL DEF UntarSpec

\* The child's SwitchRoot leaves no pivot directory in the directory the
\* archive is extracted into unless a call of its deferred cleanup failed
\* (ChildPivotDirCleaned).
COROLLARY ChildPivotDirCleanedThm == UntarSpec => []ChildPivotDirCleaned
<1>1. CInv => ChildPivotDirCleaned
  BY DEF CInv, SRP!IInv, SRP!PivotDirCleaned, ChildPivotDirCleaned,
         SR!PivotDirCleaned
<1>2. QED
  BY <1>1, CInvInit, CInvStep, PTL DEF UntarSpec

=============================================================================
