--------------------------- MODULE SwitchRoot_proofs ---------------------------
(***************************************************************************)
(* Proofs about mounttree.SwitchRoot (module SwitchRoot) for every set     *)
(* Fallible of failing system calls: the type invariant, and that a nil   *)
(* return always leaves the process confined with the caller's old root   *)
(* detached, that the deferred cleanup releases the old root, and that it  *)
(* leaves the pivot directory behind only when one of its calls failed.    *)
(***************************************************************************)
EXTENDS SwitchRoot, TLAPS

\* The statements before the first `return`: nothing has been returned yet.
PreReturn == {"check", "bind", "mkdtemp", "pivot", "rmPivot", "chroot",
              "chdirChroot", "chdir", "private", "unmount"}

\* The statements reached while the caller's old root is still `/`: before
\* the pivot, after a failed pivot, and on the chroot fallback.
BeforePivot == {"check", "bind", "mkdtemp", "pivot", "rmPivot", "chroot",
                "chdirChroot"}

\* The statements after a successful pivot_root.
AfterPivot == {"chdir", "private", "unmount"}

\* A conjunct of IInv: the local flag `mounted`, which the deferred cleanup
\* trusts to decide whether to unmount pivotDir, is true exactly when the
\* old root is mounted there, until the cleanup itself acts on it.
MountedFlagTracksMount ==
  pc \notin {"deferRemove", "done"} => (mounted <=> oldRoot = "atPivot")

\* The inductive strengthening of SuccessIsolates, OldRootReleased and
\* PivotDirCleaned: what each statement may assume about the state.
IInv ==
  /\ TypeOK
  /\ pc \in PreReturn => ret = "none"
  /\ pc \notin PreReturn => ret # "none"
  /\ pc \in BeforePivot => oldRoot = "root"
  /\ pc = "chdirChroot" => procRoot = "path"
  /\ pc \in AfterPivot => procRoot = "path" /\ oldRoot = "atPivot"
  /\ pc \in {"private", "unmount"} => cwd = "newroot"
  /\ pc = "deferRemove" => oldRoot # "atPivot"
  /\ pc \in {"pivot", "rmPivot", "defer", "deferRemove"} \cup AfterPivot => deferred
  /\ oldRoot = "atPivot" => deferred
  /\ ~deferred => ~pivotExists
  /\ pc # "done" => cleanupErr = "none"
  /\ MountedFlagTracksMount
  /\ SuccessIsolates
  /\ OldRootReleased
  /\ PivotDirCleaned

-----------------------------------------------------------------------------

\* Every step of SwitchRoot keeps the variables well typed.
LEMMA TypeStep == TypeOK /\ [Next]_vars => TypeOK'
  <2> SUFFICES ASSUME TypeOK, [Next]_vars PROVE TypeOK'
    OBVIOUS
  <2> USE DEF TypeOK, PCs, Calls, Return
  <2>1. CASE CheckMounted
    BY <2>1 DEF CheckMounted
  <2>2. CASE BindMount
    BY <2>2, ZenonT(60) DEF BindMount
  <2>3. CASE MkdirTemp
    BY <2>3, ZenonT(60) DEF MkdirTemp
  <2>4. CASE PivotRoot
    BY <2>4, ZenonT(60) DEF PivotRoot
  <2>5. CASE RemovePivot
    BY <2>5, ZenonT(60) DEF RemovePivot
  <2>6. CASE Chroot
    BY <2>6 DEF Chroot
  <2>7. CASE ChdirChroot
    BY <2>7 DEF ChdirChroot
  <2>8. CASE Chdir
    BY <2>8 DEF Chdir
  <2>9. CASE MakePrivate
    BY <2>9, ZenonT(60) DEF MakePrivate
  <2>10. CASE UnmountOldRoot
    BY <2>10 DEF UnmountOldRoot
  <2>11. CASE DeferUnmount
    BY <2>11 DEF DeferUnmount
  <2>12. CASE DeferRemove
    BY <2>12, ZenonT(60) DEF DeferRemove
  <2>13. CASE Done \/ UNCHANGED vars
    BY <2>13 DEF Done, vars
  <2>14. QED
    BY <2>1, <2>2, <2>3, <2>4, <2>5, <2>6, <2>7, <2>8, <2>9, <2>10,
       <2>11, <2>12, <2>13 DEF Next

\* Every state SwitchRoot passes through has well-typed variables.
THEOREM TypeCorrect == Spec => []TypeOK
<1>1. Init => TypeOK
  BY DEF Init, TypeOK, PCs
<1>2. QED
  BY <1>1, TypeStep, PTL DEF Spec

\* SwitchRoot starts in a state of the strengthened invariant.
LEMMA IInvInit == Init => IInv
  BY DEF Init, IInv, TypeOK, PCs, PreReturn, BeforePivot, AfterPivot,
         MountedFlagTracksMount, SuccessIsolates, OldRootReleased,
         PivotDirCleaned

\* Each step preserves the strengthened invariant.
LEMMA IInvStep == IInv /\ [Next]_vars => IInv'
<1> SUFFICES ASSUME IInv, [Next]_vars PROVE IInv'
  OBVIOUS
<1>1. TypeOK'
  BY TypeStep DEF IInv
<1> USE <1>1 DEF IInv, TypeOK, PreReturn, BeforePivot, AfterPivot,
                MountedFlagTracksMount, SuccessIsolates, OldRootReleased,
                PivotDirCleaned, Return
<1>2. CASE CheckMounted
  BY <1>2 DEF CheckMounted
<1>3. CASE BindMount
  BY <1>3 DEF BindMount
<1>4. CASE MkdirTemp
  BY <1>4 DEF MkdirTemp
<1>5. CASE PivotRoot
  BY <1>5 DEF PivotRoot
<1>6. CASE RemovePivot
  BY <1>6 DEF RemovePivot
<1>7. CASE Chroot
  BY <1>7 DEF Chroot
<1>8. CASE ChdirChroot
  BY <1>8 DEF ChdirChroot
<1>9. CASE Chdir
  BY <1>9 DEF Chdir
<1>10. CASE MakePrivate
  BY <1>10 DEF MakePrivate
<1>11. CASE UnmountOldRoot
  BY <1>11 DEF UnmountOldRoot
<1>12. CASE DeferUnmount
  BY <1>12 DEF DeferUnmount
<1>13. CASE DeferRemove
  BY <1>13 DEF DeferRemove
<1>14. CASE Done \/ UNCHANGED vars
  BY <1>14 DEF Done, vars
<1>15. QED
  BY <1>2, <1>3, <1>4, <1>5, <1>6, <1>7, <1>8, <1>9, <1>10, <1>11,
     <1>12, <1>13, <1>14 DEF Next

\* A nil return from SwitchRoot leaves the process with `path` as its root
\* and working directory and the caller's old root no longer mounted under
\* the pivot directory (switchroot_linux.go:19-94), whichever system calls
\* fail; the cleanup's flag `mounted`, which IInv needs for it, is
\* accurate.
THEOREM Isolation == Spec => [](SuccessIsolates /\ MountedFlagTracksMount)
<1>1. IInv => SuccessIsolates /\ MountedFlagTracksMount
  BY DEF IInv
<1>2. QED
  BY <1>1, IInvInit, IInvStep, PTL DEF Spec

\* Once SwitchRoot has returned, the caller's old root is detached from
\* the new root unless the deferred unmount failed (OldRootReleased,
\* switchroot_linux.go:33-53 with 62 and 81), whichever calls fail.  It
\* needs from IInv that the flag `mounted` is accurate when the defer
\* starts and that the defer is registered whenever the old root is
\* under pivotDir.
THEOREM CleanupReleases == Spec => []OldRootReleased
<1>1. IInv => OldRootReleased
  BY DEF IInv
<1>2. QED
  BY <1>1, IInvInit, IInvStep, PTL DEF Spec

\* SwitchRoot leaves its temporary pivot directory in `path` only when a
\* call of its deferred cleanup failed (PivotDirCleaned,
\* switchroot_linux.go:27-60), whichever calls fail.  It needs from IInv
\* that no error is recorded before the cleanup has run, that nothing was
\* created when no defer was registered, and that the old root has left
\* pivotDir when os.Remove runs.
THEOREM PivotDirLeftOnlyOnCleanupError == Spec => []PivotDirCleaned
<1>1. IInv => PivotDirCleaned
  BY DEF IInv
<1>2. QED
  BY <1>1, IInvInit, IInvStep, PTL DEF Spec

=============================================================================
