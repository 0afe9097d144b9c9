# TLA+ models of go-archive's chroot extraction path

This directory holds TLA+ specifications of the parts of go-archive whose
source is in `src/`:

* `mounttree.SwitchRoot` (`src/internal/mounttree/switchroot_linux.go`), and
* the `chrootarchive` entry points (`src/chrootarchive/archive.go`).

It also holds their composition with the chroot child, which is described in
`spec.md` 4.E. Each specification has TLC configurations, and the main safety
properties of SwitchRoot and the child have TLAPS proofs.

## 1. The system and its parts

`spec.md` describes an archive engine with components A-H:

* A: path kernel
* B: metadata codec
* C: compression
* D: packer
* E: unpacker
* F: change detector
* G: layer exporter
* H: layer applier

This snapshot contains implementation code for only two pieces. The rest of
`src/` is tests (`src/archive_unix_test.go`, `src/unnamed/*`). The one
exception is the Windows `applyLayerHandler` at the top of
`src/unnamed/part_001`.

| Part | Source | Module(s) | Status |
|------|--------|-----------|--------|
| SwitchRoot / realChroot | `internal/mounttree/switchroot_linux.go` 19-94 | `SwitchRoot`, `SwitchRoot_proofs` | modelled |
| Untar, UntarWithRoot, UntarUncompressed, Tar, untarHandler, invokeUnpack, invokePack, resolvePathInChroot | `chrootarchive/archive.go` 1-158 | `ChrootArchive` | modelled |
| chroot child (doUnpack / doPack: SwitchRoot, then the archive code) | not in `src/`; spec 4.E | `ChrootUntar`, `ChrootUntar_proofs` | partly (spec-modelled) |
| applyLayerHandler (Windows) | `unnamed/part_001` 15-34 | - | not modelled (see 6) |
| A, B, C, D, E, F, G, H of the spec | no source in `src/` | - | not modelled (see 6) |

How the parts interact:

1. A caller calls one of the chrootarchive entry points.
2. The entry point prepares the destination when `dest == root`, decompresses
   the stream and computes the path inside the chroot with
   `resolvePathInChroot`.
3. It hands that path to `doUnpack` or `doPack`.
4. The child process calls `SwitchRoot(root)`, which makes `root` the root of
   its mount tree. It uses pivot_root when it can and falls back to chroot.
5. Only if SwitchRoot returned nil does the child run `archive.Unpack` or
   `TarWithOptions` on the resolved path.

## 2. Modules

### `SwitchRoot` (switchroot_linux.go)

SwitchRoot is straight-line code with early returns and one deferred
cleanup. `pc` names the next statement. Every system call that can fail is
one action with a success disjunct and, when the call is in the constant
`Fallible`, a failure disjunct. The actions are:

* `CheckMounted` (line 20): an error of `Mounted` reads as "not mounted".
* `BindMount` (21-23): on failure, go to realChroot.
* `MkdirTemp` (27-30): registers the defer.
* `PivotRoot` (55, 62): sets `mounted = true`.
* `RemovePivot` (57-60).
* `Chroot` and `ChdirChroot` (realChroot, 86-94).
* `Chdir` (68-70).
* `MakePrivate` (73-75).
* `UnmountOldRoot` (78-83).
* `DeferUnmount` and `DeferRemove`: the deferred func, 33-53.

`Return(r)` is `return r`. It records the result and runs the deferred
cleanup first if it was registered.

The state is what the function changes:

* whether `path` is a mount point;
* whether the pivot directory exists;
* where the caller's old root is (`root`, `atPivot`, `detached`);
* the process root and cwd;
* whether the old root was made private;
* the local `mounted`;
* whether the defer is registered;
* the result;
* the error the cleanup assigned to the local `err`.

### `ChrootArchive` (archive.go)

A path string is a record `[abs, elems, slash]`. The module models:

* `filepath.Clean`: a FoldLeft of `CleanStep` over the elements.
* `filepath.Rel`: on elements, following Go's algorithm. A base of `"."`
  is treated as empty, a target of `"."` stays `"."`, and a `..` at the
  first difference is an error.
* `resolvePathInChroot`: `"."` becomes `"/"`, and a `"/"` is prefixed.

`untarHandler` is one action, in the code's order:

1. A nil archive is an error.
2. When `dest == root` (the raw strings), `dest` is replaced by its cleaned
   form and, if missing, created with `MkdirAllAndChown`. That call may fail
   when `CanFail`, after it has created some of the missing parents.
3. Decompression fails on a corrupt stream.
4. `invokeUnpack` records the hand-off.

`Tar` calls `invokePack`, which puts back a trailing slash that
`resolvePathInChroot` trimmed. `Located(root, rel)` is the host directory
the kernel reaches when a process chrooted at `root` opens `rel`: `..`
stops at the new root.

### `ChrootUntar` (composition, spec-modelled)

This module EXTENDS `ChrootArchive` and instantiates `SwitchRoot` as `SR`
with the child's own variables. Its actions are:

* `Caller`: one entry point runs.
* `StartChild`: doUnpack or doPack starts the child.
* `Switch`: one SwitchRoot statement in the child.
* `AfterSwitch`: on nil, go to work; otherwise report the error.
* `Work`: the archive code touches `Located(root, rel)`.
* `Finished`.

`UntarFairSpec` adds `WF_allVars(UntarNext)`. The caller and the child are
each one sequential thread of control. Nothing in them waits on a lock, a
channel or another process that might never answer. So a statement that
can run is eventually run, and that is weak fairness. Strong fairness is
not needed, because no action is enabled only intermittently.

The marker `NoDir` for "no directory worked on yet" is a record of its own
shape, `[nodir |-> TRUE]`. No path can equal it, including a directory named
`none`.

### MC modules

* `MCSwitchRoot`: every call may fail.
* `MCChrootArchive`: paths of 0-2 elements over {a, b, ., ..}, absolute or
  not, with or without a trailing slash. The existing directories are `/`,
  `/a` and `.`.
* `MCChrootUntar`: paths of at most one element over {a, ..}, with every
  SwitchRoot call allowed to fail.

These bounds contain every boundary the code distinguishes:

* dest equal to root;
* root `"."`;
* the target `"."`;
* `..` that climbs out of root, and `..` clamped at `/`;
* the path `/` with its implicit trailing slash;
* relative against absolute paths;
* a missing dest that gets created.

## 3. Runs

| Run | Expect | What it shows |
|-----|--------|---------------|
| `chroot_paths` (`MCChrootArchive.cfg`) | pass | `ResolvedPathIsPath`: when the target lies within root, the hand-off reaches exactly `Clean(target)` in the chroot, over paths of up to two elements and at every boundary listed above. |
| `chroot_child` (`MCChrootUntar.cfg`) | pass | With every SwitchRoot call fallible: `ChildIsolated`, a nil return is confined, checked also after the deferred cleanup ran. `ChildOldRootReleased`: on every return path after a pivot the old root is detached, because the defer trusts `mounted`, unless the deferred unmount failed. `ChildPivotDirCleaned`: the `.pivot_root` directory stays inside the extraction target only when a call of the deferred cleanup failed; after a failed pivot_root whose own os.Remove failed, the defer removes it again. `WorkOnlyConfined`: the archive code runs only after a nil SwitchRoot, confined. |
| `chroot_child_live` (`MCChrootUntarLive.cfg`) | pass | Under `UntarFairSpec`, `ChildReturns`: every hand-off to doUnpack / doPack is eventually answered with nil or SwitchRoot's error. |
| `chroot_outside_root` (`MCChrootArchiveOutside.cfg`) | violation | `DestOutsideRootRejected`: UntarWithRoot with root `.` and dest `..` is handed to doUnpack as `/..`. The comment at archive.go:33 promises an error. |
| `switchroot_cleanup` (`MCSwitchRootCleanup.cfg`) | violation | `CleanupReportedOnSuccess`: pivot, chdir, private and unmount succeed, and the deferred os.Remove fails. SwitchRoot still returns nil, because the defer writes the error to a local that is no longer the result (switchroot_linux.go:49). |
| `switchroot_private` (`MCSwitchRootPrivate.cfg`) | violation | `UnmountOnlyPrivate`: pivot succeeds and Chdir fails. The defer then detaches the old root without the MS_PRIVATE remount that the comment at line 72 says is needed. The model knows only that it was not made private, not how the mount propagates. |

Each property of a passing run has a mutant: a plausible bug in the mapped
code, defined in the module as a fault-injection variant. TLC finds the
property violated under the run's own configuration. The mutants are:

* invokeUnpack handing doUnpack the host dest instead of the resolved
  path (`ResolvedPathIsPath`);
* realChroot without its chdir (`ChildIsolated`);
* a pivot_root that forgets `mounted = true` (`ChildOldRootReleased`);
* the deferred os.Remove moved under `if mounted` (`ChildPivotDirCleaned`);
* an unmount of the old root whose error is ignored (`WorkOnlyConfined`);
* a bind mount that is retried instead of falling back to realChroot
  (`ChildReturns`). The code has no such retry, and SwitchRoot has no loop
  at all; `ChildReturns` holds because every path of this straight-line
  code returns.

Only `chroot_child_live` assumes fairness (see `UntarFairSpec`). SwitchRoot
and the entry points are sequential code that always terminates, so their
terminal stutter (`Done`, `Finished`) is a real state. Deadlock is checked
everywhere.

Some facts were once checked here and are no longer, because each only
restated one guard or assignment of the code: that directories are made on
the host only under the `dest == root` guard (archive.go:68), that
invokePack puts back a trailing slash (128-130), that `mounted` tracks the
old root (62, 81; it survives as a conjunct of the proof's invariant), that
the spec-modelled child works on the hand-off's path, and two refinement
mappings whose content reduced to `ChildIsolated` and `WorkOnlyConfined`.

## 4. Proofs (TLAPS)

`SwitchRoot_proofs`:

* `TypeCorrect`: `Spec => []TypeOK`, for every set `Fallible` of failing
  calls. It rests on `TypeStep`, one case per action.
* `Isolation`: `Spec => [](SuccessIsolates /\ MountedFlagTracksMount)`.
  `SuccessIsolates` is not inductive alone: a step from an unreachable
  state with `ret = "nil"` at pc `pivot` would break it. The inductive
  invariant `IInv` adds what each statement may assume:
  * nothing has been returned before the first return;
  * the old root is `/` on every statement before the pivot and on the
    chroot fallback;
  * the process root is `path` from `chdirChroot` on and after the pivot;
  * the cwd is the new root at `private` and `unmount`;
  * the defer is registered from the pivot on and whenever the old root
    is under pivotDir;
  * at `deferRemove` the old root is no longer under pivotDir;
  * `MountedFlagTracksMount`: the flag `mounted` is true exactly when the
    old root is under pivotDir, until the cleanup acts on it;
  * no pivot directory exists unless the defer is registered, and no
    cleanup error is recorded before the function is done.

  `IInvInit`, `IInvStep` and `IInv => ...` give the theorem. TLC checked
  `IInv` beforehand, from every state that satisfies it (10088 states),
  with every call fallible.
* `CleanupReleases`: `Spec => []OldRootReleased`. A first version of `IInv`
  was not inductive: TLC, started from every state of `IInv`, found a
  pivot step from a state at `pivot` with no registered defer. Such a state
  is unreachable, so `IInv` says that the defer is registered from `pivot`
  on.
* `PivotDirLeftOnlyOnCleanupError`: `Spec => []PivotDirCleaned`. It needs
  the last two conjuncts of `IInv`: the fallback through a failed bind mount
  has no defer and has made no directory, and an error recorded by the
  defer is recorded only as it finishes.

`ChrootUntar_proofs`:

* `ChildConfined`: `UntarSpec => [](ChildIsolated /\ WorkOnlyConfined)`,
  for all `Paths`, `InitDirs`, `CanFail` and `ChildFallible`.
* The invariant `CInv` is `SRP!IInv`, SwitchRoot's invariant through an
  instance `SRP` of `SwitchRoot_proofs` with the child's variables, plus
  three facts:
  * the child works only after a nil return of a finished SwitchRoot;
  * a finished SwitchRoot no longer changes;
  * nothing is worked on before that.
* The `Switch` case cites the instantiated `SRP!IInvStep`, through the
  lemma `SwitchIsStep` (a Switch step is an `SRP!Next` step).
* `ChildIsolatedThm`, `ChildOldRootReleasedThm` and
  `ChildPivotDirCleanedThm` give the other invariants of `chroot_child`
  from `CInv`.

What stays with TLC:

* `ResolvedPathIsPath` is about `Clean` and `Rel`, which are folds over
  sequences. Proving them for every input needs induction over data, which
  the installed provers cannot do with the library's induction theorems
  (those of `FoldsTheorems` and `SequenceTheorems` take the folded operator
  as a parameter). `ChrootArchive` therefore has no proof module.
* `ChildReturns` is liveness under fairness. It involves `ENABLED`, which
  the installed provers cannot handle.
* The violations are counterexamples and need no proof.

## 5. Findings

1. **Cleanup errors are dropped** (code bug, switchroot_linux.go:38 and
   49). SwitchRoot's result is unnamed, so the defer's `err = errCleanup`
   cannot change what the caller receives.
2. **dest outside root is not rejected** (archive.go:147, against the
   comment at 33). The extraction lands in a different directory inside
   root. The chroot still confines it, so this is a wrong target, not an
   escape.
3. **The old root is detached without MS_PRIVATE on the error paths**
   (switchroot_linux.go:36, against the comment at 72).

## 6. Not modelled, and why

* Components A-H have no source in this snapshot, only tests. Later work
  would model E (hardlink rules H1-H4, implied directories, PAX global
  header), H (whiteouts and opaque directories), and D/G (the hardlink
  table, the walker pipe with early close, and hardlink-order determinism)
  from the spec. Those modules would be marked spec-modelled, and their
  inputs would come from the attack streams in the tests.
* The Windows `applyLayerHandler` (`unnamed/part_001` 15-34) has two early
  returns around one call of `archive.UnpackLayer`, whose code is not in
  this snapshot. It changes no state of its own. Modelling it means
  modelling UnpackLayer, which is component H.
* Compression codecs are out of scope per spec 1. A stream is abstracted to
  "decompresses" or "is rejected".
* The host file system as an adversary (another process swapping a path
  component between `os.Stat` and `MkdirAllAndChown` at archive.go:72-73)
  is not modelled. The model changes only what this call changes.
* Wording of errors, the ID-map root pair and file modes are left out. No
  property distinguishes them.
