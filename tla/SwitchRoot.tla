----------------------------- MODULE SwitchRoot -----------------------------
(***************************************************************************)
(* mounttree.SwitchRoot (internal/mounttree/switchroot_linux.go): make     *)
(* `path` the root of the calling process's mount tree before an           *)
(* extraction runs, so that nothing outside `path` is reachable.           *)
(*                                                                         *)
(* The function is straight-line code with a deferred cleanup.  Every      *)
(* system call it makes may fail; which ones may fail in a run is the      *)
(* constant Fallible.  The control state `pc` names the next statement;    *)
(* the file system is abstracted to what the function changes: whether     *)
(* `path` is a mount point, whether the temporary pivot directory exists,  *)
(* where the caller's old root file system is, what the process root and   *)
(* working directory are.                                                  *)
(***************************************************************************)
EXTENDS Naturals

\* The system calls of SwitchRoot and realChroot that can report an error.
Calls == {"mounted", "bind", "mkdtemp", "pivot", "rmPivot", "chroot",
          "chdirChroot", "chdir", "private", "unmount",
          "deferUnmount", "deferRemove"}

CONSTANT Fallible    \* the calls that may fail in the runs considered

VARIABLES
  pc,          \* the statement about to run
  isMount,     \* `path` is a mount point
  pivotExists, \* the directory made by os.MkdirTemp(path, ".pivot_root") exists
  oldRoot,     \* the caller's root fs: "root" (still /), "atPivot", "detached"
  procRoot,    \* the process root: "host" or `path`
  cwd,         \* working directory: "old" or "newroot" (/ of the new root)
  private,     \* the old-root mount under the pivot dir was made MS_PRIVATE
  mounted,     \* the local variable `mounted` of SwitchRoot
  deferred,    \* the deferred cleanup has been registered
  ret,         \* returned value: "none" (not returned yet), "nil", or the
               \* call whose failure is returned (each error is wrapped
               \* with its own message)
  cleanupErr   \* the cleanup call whose error the defer assigned to `err`

vars == <<pc, isMount, pivotExists, oldRoot, procRoot, cwd, private,
          mounted, deferred, ret, cleanupErr>>

PCs == {"check", "bind", "mkdtemp", "pivot", "rmPivot", "chroot",
        "chdirChroot", "chdir", "private", "unmount",
        "defer", "deferRemove", "done"}

TypeOK ==
  /\ pc \in PCs
  /\ isMount \in BOOLEAN
  /\ pivotExists \in BOOLEAN
  /\ oldRoot \in {"root", "atPivot", "detached"}
  /\ procRoot \in {"host", "path"}
  /\ cwd \in {"old", "newroot"}
  /\ private \in BOOLEAN
  /\ mounted \in BOOLEAN
  /\ deferred \in BOOLEAN
  /\ ret \in {"none", "nil"} \cup Calls
  /\ cleanupErr \in {"none", "deferUnmount", "deferRemove"}

\* `path` may or may not already be a mount point when SwitchRoot is called.
Init ==
  /\ pc = "check"
  /\ isMount \in BOOLEAN
  /\ pivotExists = FALSE
  /\ oldRoot = "root"
  /\ procRoot = "host"
  /\ cwd = "old"
  /\ private = FALSE
  /\ mounted = FALSE
  /\ deferred = FALSE
  /\ ret = "none"
  /\ cleanupErr = "none"

\* A `return r`: the deferred cleanup runs first if it was registered.
Return(r) ==
  /\ ret' = r
  /\ pc' = IF deferred THEN "defer" ELSE "done"

\* `if mounted, _ := mountinfo.Mounted(path); !mounted`: an error of
\* Mounted is ignored and reads as "not mounted".
CheckMounted ==
  /\ pc = "check"
  /\ \E m \in {isMount} \cup (IF "mounted" \in Fallible THEN {FALSE} ELSE {}) :
        pc' = IF m THEN "mkdtemp" ELSE "bind"
  /\ UNCHANGED <<isMount, pivotExists, oldRoot, procRoot, cwd, private,
                 mounted, deferred, ret, cleanupErr>>

\* Fault-injection variant of BindMount that retries a failed bind mount
\* from the mount check instead of falling back to realChroot.
BindMountRetry ==
  /\ pc = "bind"
  /\ \/ /\ isMount' = TRUE
        /\ pc' = "mkdtemp"
     \/ /\ "bind" \in Fallible
        /\ pc' = "check"
        /\ UNCHANGED isMount
  /\ UNCHANGED <<pivotExists, oldRoot, procRoot, cwd, private, mounted,
                 deferred, ret, cleanupErr>>

\* mount.Mount(path, path, "bind", "rbind,rw"); on failure, realChroot(path).
BindMount ==
  /\ pc = "bind"
  /\ \/ /\ isMount' = TRUE
        /\ pc' = "mkdtemp"
     \/ /\ "bind" \in Fallible
        /\ pc' = "chroot"
        /\ UNCHANGED isMount
  /\ UNCHANGED <<pivotExists, oldRoot, procRoot, cwd, private, mounted,
                 deferred, ret, cleanupErr>>

\* pivotDir, err := os.MkdirTemp(path, ".pivot_root"); the defer is
\* registered only once it succeeded.
MkdirTemp ==
  /\ pc = "mkdtemp"
  /\ \/ /\ pivotExists' = TRUE
        /\ deferred' = TRUE
        /\ pc' = "pivot"
        /\ UNCHANGED ret
     \/ /\ "mkdtemp" \in Fallible
        /\ Return("mkdtemp")
        /\ UNCHANGED <<pivotExists, deferred>>
  /\ UNCHANGED <<isMount, oldRoot, procRoot, cwd, private, mounted, cleanupErr>>

\* Fault-injection variant of PivotRoot that forgets `mounted = true`.
PivotRootNoFlag ==
  /\ pc = "pivot"
  /\ \/ /\ isMount
        /\ oldRoot' = "atPivot"
        /\ procRoot' = "path"
        /\ pc' = "chdir"
     \/ /\ "pivot" \in Fallible \/ ~isMount
        /\ pc' = "rmPivot"
        /\ UNCHANGED <<oldRoot, procRoot>>
  /\ UNCHANGED <<isMount, pivotExists, cwd, private, deferred, ret, cleanupErr,
                 mounted>>

\* unix.PivotRoot(path, pivotDir); `mounted = true` on success.  pivot_root
\* needs `path` to be a mount point.
PivotRoot ==
  /\ pc = "pivot"
  /\ \/ /\ isMount
        /\ oldRoot' = "atPivot"
        /\ procRoot' = "path"
        /\ mounted' = TRUE
        /\ pc' = "chdir"
     \/ /\ "pivot" \in Fallible \/ ~isMount
        /\ pc' = "rmPivot"
        /\ UNCHANGED <<oldRoot, procRoot, mounted>>
  /\ UNCHANGED <<isMount, pivotExists, cwd, private, deferred, ret, cleanupErr>>

\* After a failed pivot: os.Remove(pivotDir), then realChroot(path).
RemovePivot ==
  /\ pc = "rmPivot"
  /\ \/ /\ pivotExists' = FALSE
        /\ pc' = "chroot"
        /\ UNCHANGED ret
     \/ /\ "rmPivot" \in Fallible
        /\ Return("rmPivot")
        /\ UNCHANGED pivotExists
  /\ UNCHANGED <<isMount, oldRoot, procRoot, cwd, private, mounted,
                 deferred, cleanupErr>>

\* realChroot: unix.Chroot(path) ...
Chroot ==
  /\ pc = "chroot"
  /\ \/ /\ procRoot' = "path"
        /\ pc' = "chdirChroot"
        /\ UNCHANGED ret
     \/ /\ "chroot" \in Fallible
        /\ Return("chroot")
        /\ UNCHANGED procRoot
  /\ UNCHANGED <<isMount, pivotExists, oldRoot, cwd, private, mounted,
                 deferred, cleanupErr>>

\* Fault-injection variant of ChdirChroot: realChroot that forgets the
\* chdir("/") after chroot, leaving the working directory outside the
\* new root.
ChdirChrootSkipped ==
  /\ pc = "chdirChroot"
  /\ Return("nil")
  /\ UNCHANGED <<isMount, pivotExists, oldRoot, procRoot, cwd, private, mounted,
                 deferred, cleanupErr>>

\* ... then unix.Chdir("/"), and realChroot returns.
ChdirChroot ==
  /\ pc = "chdirChroot"
  /\ \/ /\ cwd' = "newroot"
        /\ Return("nil")
     \/ /\ "chdirChroot" \in Fallible
        /\ Return("chdirChroot")
        /\ UNCHANGED cwd
  /\ UNCHANGED <<isMount, pivotExists, oldRoot, procRoot, private, mounted,
                 deferred, cleanupErr>>

\* After the pivot: pivotDir = "/" + base(pivotDir); unix.Chdir("/").
Chdir ==
  /\ pc = "chdir"
  /\ \/ /\ cwd' = "newroot"
        /\ pc' = "private"
        /\ UNCHANGED ret
     \/ /\ "chdir" \in Fallible
        /\ Return("chdir")
        /\ UNCHANGED cwd
  /\ UNCHANGED <<isMount, pivotExists, oldRoot, procRoot, private, mounted,
                 deferred, cleanupErr>>

\* unix.Mount("", pivotDir, "", MS_PRIVATE|MS_REC, "").
MakePrivate ==
  /\ pc = "private"
  /\ \/ /\ private' = TRUE
        /\ pc' = "unmount"
        /\ UNCHANGED ret
     \/ /\ "private" \in Fallible
        /\ Return("private")
        /\ UNCHANGED private
  /\ UNCHANGED <<isMount, pivotExists, oldRoot, procRoot, cwd, mounted,
                 deferred, cleanupErr>>

\* Fault-injection variant of UnmountOldRoot that ignores the error of the
\* unmount and returns nil with the old root still mounted.
UnmountOldRootIgnoreError ==
  /\ pc = "unmount"
  /\ \/ /\ oldRoot' = "detached"
        /\ mounted' = FALSE
     \/ /\ "unmount" \in Fallible
        /\ UNCHANGED <<oldRoot, mounted>>
  /\ Return("nil")
  /\ UNCHANGED <<isMount, pivotExists, procRoot, cwd, private, deferred,
                 cleanupErr>>

\* unix.Unmount(pivotDir, MNT_DETACH); `mounted = false`; return nil.
UnmountOldRoot ==
  /\ pc = "unmount"
  /\ \/ /\ oldRoot' = "detached"
        /\ mounted' = FALSE
        /\ Return("nil")
     \/ /\ "unmount" \in Fallible
        /\ Return("unmount")
        /\ UNCHANGED <<oldRoot, mounted>>
  /\ UNCHANGED <<isMount, pivotExists, procRoot, cwd, private, deferred,
                 cleanupErr>>

\* Deferred cleanup, first half: if `mounted`, unix.Unmount(pivotDir,
\* MNT_DETACH); on failure the error goes to the local `err` and the
\* cleanup returns without removing pivotDir.  Unmounting fails when
\* nothing is mounted there.
DeferUnmount ==
  /\ pc = "defer"
  /\ mounted
  /\ \/ /\ oldRoot = "atPivot"
        /\ oldRoot' = "detached"
        /\ pc' = "deferRemove"
        /\ UNCHANGED cleanupErr
     \/ /\ "deferUnmount" \in Fallible \/ oldRoot # "atPivot"
        /\ cleanupErr' = "deferUnmount"
        /\ pc' = "done"
        /\ UNCHANGED oldRoot
  /\ UNCHANGED <<isMount, pivotExists, procRoot, cwd, private, mounted,
                 deferred, ret>>

\* Fault-injection variant of DeferRemove with os.Remove(pivotDir) moved
\* into the `if mounted` branch: a cleanup after a failed pivot removes
\* nothing.
DeferRemoveOnlyMounted ==
  \/ /\ pc = "defer"
     /\ ~mounted
     /\ pc' = "done"
     /\ UNCHANGED <<isMount, pivotExists, oldRoot, procRoot, cwd, private,
                    mounted, deferred, ret, cleanupErr>>
  \/ /\ pc = "deferRemove"
     /\ \/ /\ pivotExists
           /\ oldRoot # "atPivot"
           /\ pivotExists' = FALSE
           /\ UNCHANGED cleanupErr
        \/ /\ pivotExists
           /\ "deferRemove" \in Fallible \/ oldRoot = "atPivot"
           /\ cleanupErr' = "deferRemove"
           /\ UNCHANGED pivotExists
        \/ /\ ~pivotExists
           /\ UNCHANGED <<pivotExists, cleanupErr>>
     /\ pc' = "done"
     /\ UNCHANGED <<isMount, oldRoot, procRoot, cwd, private, mounted,
                    deferred, ret>>

\* Deferred cleanup, second half: os.Remove(pivotDir); a not-exist error is
\* ignored, any other goes to the local `err`.  After a failed pivot and
\* a chroot the name is stale and names nothing; the directory was removed
\* before the chroot in that case.
DeferRemove ==
  /\ \/ pc = "deferRemove"
     \/ pc = "defer" /\ ~mounted
  /\ \/ /\ pivotExists
        /\ oldRoot # "atPivot"
        /\ pivotExists' = FALSE
        /\ UNCHANGED cleanupErr
     \/ /\ pivotExists
        /\ "deferRemove" \in Fallible \/ oldRoot = "atPivot"
        /\ cleanupErr' = "deferRemove"
        /\ UNCHANGED pivotExists
     \/ /\ ~pivotExists
        /\ UNCHANGED <<pivotExists, cleanupErr>>
  /\ pc' = "done"
  /\ UNCHANGED <<isMount, oldRoot, procRoot, cwd, private, mounted,
                 deferred, ret>>

\* The function has returned to its caller.
Done ==
  /\ pc = "done"
  /\ UNCHANGED vars

Next ==
  \/ CheckMounted \/ BindMount \/ MkdirTemp \/ PivotRoot \/ RemovePivot
  \/ Chroot \/ ChdirChroot \/ Chdir \/ MakePrivate \/ UnmountOldRoot
  \/ DeferUnmount \/ DeferRemove \/ Done

Spec == Init /\ [][Next]_vars

-----------------------------------------------------------------------------
(***************************************************************************)
(* Properties.                                                             *)
(***************************************************************************)

\* When SwitchRoot returns nil the process is confined: its root is `path`
\* (by pivot_root or by the chroot fallback), its working directory is the
\* new /, and the caller's old root is no longer mounted under the pivot
\* directory where the extraction could reach it.
SuccessIsolates ==
  ret = "nil" =>
    /\ procRoot = "path"
    /\ cwd = "newroot"
    /\ oldRoot # "atPivot"

\* Whatever SwitchRoot returns, the caller's old root is not left mounted
\* under pivotDir in the new root once the function has returned: the
\* unmount at line 78 or the deferred one at line 35 has detached it,
\* unless that deferred unmount itself failed (switchroot_linux.go:33-53).
OldRootReleased ==
  pc = "done" => oldRoot # "atPivot" \/ cleanupErr = "deferUnmount"

\* The temporary directory os.MkdirTemp made inside `path`, the directory
\* the archive is then extracted into, does not outlive SwitchRoot unless
\* a call of the deferred cleanup failed: after a failed pivot_root whose
\* own os.Remove (line 57) failed too, the defer's os.Remove at line 44
\* removes it again, and after a pivot it is removed once the old root
\* is detached from it (switchroot_linux.go:27-60).
PivotDirCleaned ==
  pc = "done" /\ pivotExists => cleanupErr # "none"

\* The comment at switchroot_linux.go:72: the old root under pivotDir is
\* made MS_PRIVATE "so it can be unmounted without propagating to the
\* host".  So no step of SwitchRoot, its deferred cleanup included,
\* detaches the old root before it was made private.
UnmountOnlyPrivate ==
  [][oldRoot = "atPivot" /\ oldRoot' = "detached" => private]_vars

\* The deferred cleanup assigns its errors to `err` in the hope of
\* returning them (switchroot_linux.go:37-39, 49-51): a SwitchRoot that
\* returns nil has removed its pivot directory from the new root.
CleanupReportedOnSuccess ==
  (pc = "done" /\ ret = "nil") => ~pivotExists

=============================================================================
