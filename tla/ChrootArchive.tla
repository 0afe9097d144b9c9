---------------------------- MODULE ChrootArchive ----------------------------
(***************************************************************************)
(* The chrootarchive entry points (chrootarchive/archive.go, lines 1-98,   *)
(* and the Unix half of the same file, lines 99-158): Untar,               *)
(* UntarWithRoot, UntarUncompressed and Tar, the handler untarHandler,     *)
(* invokeUnpack / invokePack and resolvePathInChroot.                      *)
(*                                                                         *)
(* A call prepares the destination, decompresses the stream and hands the  *)
(* work to doUnpack / doPack, which run the archive code inside a chroot   *)
(* at `root` on the path resolvePathInChroot computed.  The hand-off is    *)
(* recorded in `handoff`; what happens inside the chroot is the business   *)
(* of the modules that compose this one.                                   *)
(*                                                                         *)
(* A path string is a record [abs, elems, slash]: a leading "/", its       *)
(* slash-separated elements (names, "." and ".."), and a trailing "/".     *)
(* The empty string is [abs |-> FALSE, elems |-> <<>>, slash |-> FALSE].   *)
(* filepath.Clean and filepath.Rel are modelled by what they do on the     *)
(* elements.                                                               *)
(***************************************************************************)
EXTENDS Naturals, Sequences, SequencesExt

CONSTANTS
  Paths,      \* the path strings callers may pass (dest, root, srcPath)
  InitDirs,   \* the directories that exist before the call (cleaned paths)
  CanFail     \* BOOLEAN: user.MkdirAllAndChown may fail

Elem == UNION {Range(p.elems) : p \in Paths}

ASSUME PathsAssumption ==
  \A p \in Paths :
    /\ p.abs \in BOOLEAN /\ p.slash \in BOOLEAN
    /\ p.elems \in Seq(STRING)
    /\ p.elems = <<>> => ~p.slash

ASSUME CanFailAssumption == CanFail \in BOOLEAN

\* The compressed and uncompressed streams a caller may pass; "nil" is a
\* nil io.Reader and "corrupt" a stream DecompressStream rejects.
Archives == {"nil", "tar", "gzip", "corrupt"}

NoHandoff == [op |-> "none"]

VARIABLES
  dirs,      \* the set of existing directories, as cleaned paths
  called,    \* a call has been made and has returned or handed off
  handoff,   \* what was passed to doUnpack / doPack, or NoHandoff
  ret        \* the error returned before any hand-off, or "none"

vars == <<dirs, called, handoff, ret>>

-----------------------------------------------------------------------------
(* Lexical path operations.                                                *)

\* One element of filepath.Clean: drop ".", let ".." cancel the previous
\* name, drop ".." at the root of an absolute path, keep it otherwise.
CleanStep(abs, acc, e) ==
  CASE e = "."                                      -> acc
    [] e = ".." /\ acc # <<>> /\ Last(acc) # ".."   -> Front(acc)
    [] e = ".." /\ abs                              -> acc
    [] OTHER                                        -> Append(acc, e)

\* filepath.Clean, as [abs, elems]; "." is the relative path with no
\* elements.
Clean(p) ==
  [abs   |-> p.abs,
   elems |-> FoldLeft(LAMBDA acc, e : CleanStep(p.abs, acc, e), <<>>, p.elems)]

\* Length of the common prefix of two element sequences.
CommonLen(a, b) ==
  CHOOSE k \in 0..Len(a) :
    /\ k <= Len(b)
    /\ \A i \in 1..k : a[i] = b[i]
    /\ k = Len(a) \/ k = Len(b) \/ a[k + 1] # b[k + 1]

\* filepath.Rel(basepath, targpath) on Unix: [ok, elems] where elems is a
\* relative path; a target of "." stays the element ".", so that
\* Rel("a", ".") is "../.".
Rel(basepath, targpath) ==
  LET b  == Clean(basepath)
      t  == Clean(targpath)
      be == b.elems
      te == IF ~t.abs /\ t.elems = <<>> THEN <<".">> ELSE t.elems
      k  == CommonLen(be, te)
  IN  IF b = t THEN [ok |-> TRUE, elems |-> <<>>]
      ELSE IF b.abs # t.abs THEN [ok |-> FALSE, elems |-> <<>>]
      ELSE IF k < Len(be) /\ be[k + 1] = ".." THEN [ok |-> FALSE, elems |-> <<>>]
      ELSE [ok    |-> TRUE,
            elems |-> [i \in 1..(Len(be) - k) |-> ".."] \o SubSeq(te, k + 1, Len(te))]

EmptyPath == [abs |-> FALSE, elems |-> <<>>, slash |-> FALSE]

\* The string filepath.Clean returns, as a path: "." when nothing is left
\* of a relative path.
CleanPath(p) ==
  LET c == Clean(p)
  IN  [abs   |-> c.abs,
       elems |-> IF ~c.abs /\ c.elems = <<>> THEN <<".">> ELSE c.elems,
       slash |-> FALSE]

\* strings.HasSuffix(p, "/"): "/" itself ends with a slash.
EndsWithSlash(p) == p.slash \/ (p.abs /\ p.elems = <<>>)

\* resolvePathInChroot(root, path): the equivalent of path inside a chroot
\* at root, always beginning with "/".
resolvePathInChroot(root, path) ==
  LET rel == Rel(root, path)
  IN  IF root = EmptyPath \/ ~rel.ok
        THEN [ok |-> FALSE]
        ELSE [ok |-> TRUE, path |-> [abs |-> TRUE, elems |-> rel.elems, slash |-> FALSE]]

\* The directory the kernel reaches by opening `rel` in a process chrooted
\* at `root`: ".." cannot climb above the new root.
Located(root, rel) ==
  Clean([abs |-> root.abs, elems |-> Clean(root).elems \o Clean(rel).elems])

\* The cleaned path d lies at or below the cleaned path r.
Within(r, d) ==
  /\ r.abs = d.abs
  /\ IsPrefix(r.elems, d.elems)
  /\ \A i \in (Len(r.elems) + 1)..Len(d.elems) : d.elems[i] # ".."

\* user.MkdirAllAndChown(dest, 0o755, uid, gid, WithOnlyNew): dest and its
\* missing parents.
MkdirAll(d) == {[abs |-> d.abs, elems |-> q] : q \in Prefixes(d.elems)}

-----------------------------------------------------------------------------
(* The calls.                                                              *)

PathRecs == [abs : BOOLEAN, elems : Seq(Elem \cup {".", ".."}), slash : BOOLEAN]

TypeOK ==
  /\ dirs \subseteq [abs : BOOLEAN, elems : Seq(Elem \cup {".."})]
  /\ called \in BOOLEAN
  /\ handoff \in {NoHandoff}
                 \cup [op : {"unpack"}, root : Paths, dest : PathRecs,
                       rel : PathRecs, stream : Archives]
                 \cup [op : {"pack"}, root : Paths, src : Paths, rel : PathRecs]
  /\ ret \in {"none", "emptyArchive", "mkdir", "decompress", "resolve"}

Init ==
  /\ dirs = InitDirs
  /\ called = FALSE
  /\ handoff = NoHandoff
  /\ ret = "none"

\* Fault-injection variant of invokeUnpack that hands doUnpack the host
\* path dest instead of its equivalent inside the chroot.
invokeUnpackRaw(stream, dest, root) ==
  LET relDest == resolvePathInChroot(root, dest)
  IN  IF relDest.ok
        THEN /\ handoff' = [op |-> "unpack", root |-> root, dest |-> dest,
                            rel |-> dest, stream |-> stream]
             /\ ret' = "none"
        ELSE /\ ret' = "resolve"
             /\ UNCHANGED handoff

\* invokeUnpack(r, dest, options, root): resolve dest inside the chroot and
\* hand the stream to doUnpack.
invokeUnpack(stream, dest, root) ==
  LET relDest == resolvePathInChroot(root, dest)
  IN  IF relDest.ok
        THEN /\ handoff' = [op |-> "unpack", root |-> root, dest |-> dest,
                            rel |-> relDest.path, stream |-> stream]
             /\ ret' = "none"
        ELSE /\ ret' = "resolve"
             /\ UNCHANGED handoff

\* untarHandler(tarArchive, dest, options, decompress, root).  A nil
\* options is replaced by an empty one (no effect on what is modelled).
\* When dest == root (the strings), dest is replaced by its cleaned form
\* and, if missing, created owned by the ID map's root pair (a failing
\* MkdirAllAndChown may have created some of the parents); then the
\* stream is decompressed, then unpacked.
untarHandler(archive, dest, decompress, root) ==
  /\ ~called
  /\ called' = TRUE
  /\ IF archive = "nil"
       THEN /\ ret' = "emptyArchive"
            /\ UNCHANGED <<dirs, handoff>>
       ELSE LET dst    == IF dest = root THEN CleanPath(dest) ELSE dest
                mk     == dest = root /\ Clean(dest) \notin dirs
                stream == IF decompress THEN "tar" ELSE archive
                Rest   == IF decompress /\ archive = "corrupt"
                            THEN /\ ret' = "decompress"
                                 /\ UNCHANGED handoff
                            ELSE invokeUnpack(stream, dst, root)
            IN  \/ /\ mk
                   /\ dirs' = dirs \cup MkdirAll(Clean(dest))
                   /\ Rest
                \/ /\ mk /\ CanFail
                   /\ \E q \in Prefixes(Clean(dest).elems) \ {Clean(dest).elems} :
                        dirs' = dirs \cup MkdirAll([abs |-> dest.abs, elems |-> q])
                   /\ ret' = "mkdir"
                   /\ UNCHANGED handoff
                \/ /\ ~mk
                   /\ UNCHANGED dirs
                   /\ Rest

Untar(archive, dest)              == untarHandler(archive, dest, TRUE, dest)
UntarWithRoot(archive, dest, root) == untarHandler(archive, dest, TRUE, root)
UntarUncompressed(archive, dest)  == untarHandler(archive, dest, FALSE, dest)

\* invokePack(srcPath, options, root): resolve srcPath inside the chroot,
\* put back a trailing slash resolvePathInChroot trimmed, and hand it to
\* doPack.
invokePack(src, root) ==
  LET relSrc == resolvePathInChroot(root, src)
      keep   == EndsWithSlash(src) /\ ~EndsWithSlash(relSrc.path)
  IN  IF relSrc.ok
        THEN /\ handoff' = [op |-> "pack", root |-> root, src |-> src,
                            rel |-> [relSrc.path EXCEPT !.slash = keep \/ @]]
             /\ ret' = "none"
        ELSE /\ ret' = "resolve"
             /\ UNCHANGED handoff

\* Tar(srcPath, options, root); a nil options is replaced by an empty one.
Tar(src, root) ==
  /\ ~called
  /\ called' = TRUE
  /\ invokePack(src, root)
  /\ UNCHANGED dirs

Next ==
  \/ \E a \in Archives, d \in Paths : Untar(a, d)
  \/ \E a \in Archives, d, r \in Paths : UntarWithRoot(a, d, r)
  \/ \E a \in Archives, d \in Paths : UntarUncompressed(a, d)
  \/ \E s, r \in Paths : Tar(s, r)
  \/ called /\ UNCHANGED vars

Spec == Init /\ [][Next]_vars

-----------------------------------------------------------------------------
(* Properties.                                                             *)

\* The directory the hand-off names inside the chroot is the path the
\* caller asked for: doUnpack / doPack in the chroot at `root` reach
\* exactly Clean(dest) (resp. Clean(srcPath)) whenever that path lies
\* within root (archive.go:112-158).
ResolvedPathIsPath ==
  handoff # NoHandoff =>
    LET target == IF handoff.op = "unpack" THEN handoff.dest ELSE handoff.src
    IN  Within(Clean(handoff.root), Clean(target)) =>
          Located(handoff.root, handoff.rel) = Clean(target)

\* The comment on UntarWithRoot (archive.go:33): "`dest` must be a path
\* within `root`, if it is not an error will be returned".  So nothing is
\* handed to doUnpack for a dest outside root.
DestOutsideRootRejected ==
  handoff.op = "unpack" => Within(Clean(handoff.root), Clean(handoff.dest))

=============================================================================
