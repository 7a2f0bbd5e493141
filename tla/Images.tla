------------------------------- MODULE Images -------------------------------
(* The image store and the image builder (src/images): a build downloads the   *)
(* Alpine root file system, its checksum and signature, the package indexes    *)
(* and the packages into a cache shared by all builds, checks them, assembles  *)
(* two file systems and writes kernel, disks and manifest into the image's     *)
(* directory.  Downloads may bring something else than what was published, any *)
(* step may fail, and the process may die at any point.                        *)
EXTENDS Naturals, FiniteSets

CONSTANTS
    ImageNames,   \* names of images other than "base"
    MaxBuilds,    \* bound on the builds that are started
    Overlap       \* whether an image may be removed while it is built

VARIABLES
    images,   \* name -> the content of its directory: build numbers, 0 for no file
    cache,    \* downloaded file -> "none", "torn", "good" or "other"
    sidecar,  \* path of a local checksum -> the <<file, content>> it was made of
    build     \* the running build, or the one that ran last

imageVars == <<images, cache, sidecar, build>>

Files == {"tar", "tar.sha256", "tar.asc", "index", "apk"}

(* with_extension replaces the last suffix, so the checksum and the signature  *)
(* of the root file system share one local checksum                            *)
SidecarOf(f) == CASE f = "tar" -> "rootfs.local"
                  [] f \in {"tar.sha256", "tar.asc"} -> "tar.gz.local"
                  [] f = "index" -> "index.local"
                  [] f = "apk" -> "apk.local"

NoSidecar == <<"none", "none">>

(* An image's directory; the manifest of a removed or unbuilt image is 0 *)
Empty(exists) ==
    [dir |-> exists, kernel |-> 0, rootfs |-> 0, cachedisk |-> 0, manifest |-> 0,
     torn |-> FALSE, from |-> "none"]

ImagesInit ==
    /\ images = [n \in ImageNames |-> Empty(FALSE)]
    /\ cache = [f \in Files |-> "none"]
    /\ sidecar = [s \in {SidecarOf(f) : f \in Files} |-> NoSidecar]
    /\ build = [pc |-> "idle", id |-> 0, name |-> CHOOSE n \in ImageNames : TRUE,
                force |-> FALSE, pip |-> FALSE, npm |-> FALSE]

Building == build.pc # "idle"

(* Moves the build on *)
Goto(pc) == build' = [build EXCEPT !.pc = pc]

----------------------------------------------------------------------------
(* A build *)

(* Mutant: a forced build does not clear the directory first. *)
BeginKeepsFiles(n, force, pip, npm) ==
    /\ ~Building /\ build.id < MaxBuilds
    /\ ~images[n].dir \/ force
    /\ images' = [images EXCEPT ![n].dir = TRUE]
    /\ build' = [pc |-> "cert", id |-> build.id + 1, name |-> n, force |-> force,
                 pip |-> pip, npm |-> npm]
    /\ UNCHANGED <<cache, sidecar>>

(* build_image_inner up to the downloads.  An image that exists is refused, or *)
(* removed by force_refresh; the new directory is there from now on.           *)
Begin(n, force, pip, npm) ==
    /\ ~Building /\ build.id < MaxBuilds
    /\ ~images[n].dir \/ force
    /\ images' = [images EXCEPT ![n] = Empty(TRUE)]
    /\ build' = [pc |-> "cert", id |-> build.id + 1, name |-> n, force |-> force,
                 pip |-> pip, npm |-> npm]
    /\ UNCHANGED <<cache, sidecar>>

(* alpine_signing_cert *)
FetchCert ==
    /\ build.pc = "cert"
    /\ Goto("tar")
    /\ UNCHANGED <<images, cache, sidecar>>

(* A file without a local checksum counts when it is not empty *)
verify_cached_download(f) ==
    IF sidecar[SidecarOf(f)] = NoSidecar THEN cache[f] # "none"
    ELSE sidecar[SidecarOf(f)] = <<f, cache[f]>>

Cached(f) == cache[f] # "none" /\ ~build.force /\ verify_cached_download(f)

After(f) == CASE f = "tar" -> "tar.sha256"
              [] f = "tar.sha256" -> "tar.asc"
              [] f = "tar.asc" -> "check"
              [] f = "index" -> "apk"
              [] f = "apk" -> "assemble"

(* fetch_to_file: the file, then its local checksum *)
Fetch(f) ==
    /\ build.pc = f
    /\ \/ Cached(f) /\ UNCHANGED <<cache, sidecar>>
       \/ /\ ~Cached(f)
          /\ \E content \in {"good", "other"} :
                /\ cache' = [cache EXCEPT ![f] = content]
                /\ sidecar' = [sidecar EXCEPT ![SidecarOf(f)] = <<f, content>>]
    /\ Goto(After(f))
    /\ UNCHANGED images

(* The process dies while it writes the file, or before the local checksum *)
DiesFetching(f) ==
    /\ build.pc = f /\ ~Cached(f)
    /\ \E content \in {"torn", "good", "other"} : cache' = [cache EXCEPT ![f] = content]
    /\ Goto("idle")
    /\ UNCHANGED <<images, sidecar>>

verify_sha256 == cache["tar"] = cache["tar.sha256"] /\ cache["tar"] # "torn"

verify_detached_signature == cache["tar"] = "good" /\ cache["tar.asc"] = "good"

(* fetch_rootfs: the checks are made on every build, cached or not *)
Check ==
    /\ build.pc = "check"
    /\ verify_sha256 /\ verify_detached_signature
    /\ Goto("index")
    /\ UNCHANGED <<images, cache, sidecar>>

(* What the file systems are made of: each of these may fail.  The archives    *)
(* come first, then what the guest needs besides them.                         *)
rootfs_additions ==
    {"mountpoints", "agent", "init", "bash"}
    \cup (IF build.pip THEN {"pip.conf"} ELSE {}) \cup (IF build.npm THEN {"npmrc"} ELSE {})

rebuild_rootfs == {"tar", "apk"} \cup rootfs_additions

prepare_cache_dir == {"apk", "apk_manifest"}

prepare_pip_cache == IF build.pip THEN {"pip_download"} ELSE {}

prepare_npm_cache == IF build.npm THEN {"npm_cache_add"} ELSE {}

Parts == rebuild_rootfs \cup prepare_cache_dir \cup prepare_pip_cache \cup prepare_npm_cache

(* The archives that are unpacked have to be whole *)
Assemble ==
    /\ build.pc = "assemble"
    /\ \A part \in Parts \cap Files : cache[part] # "torn"
    /\ Goto("kernel")
    /\ UNCHANGED <<images, cache, sidecar>>

(* The writes into the image's directory; each creates the directory it needs  *)
(* except the first and the last                                               *)
WriteKernel ==
    /\ build.pc = "kernel" /\ images[build.name].dir
    /\ images' = [images EXCEPT ![build.name].kernel = build.id]
    /\ Goto("rootfs")
    /\ UNCHANGED <<cache, sidecar>>

(* build_ext4_image *)
WriteRootfs ==
    /\ build.pc = "rootfs"
    /\ images' = [images EXCEPT ![build.name].dir = TRUE, ![build.name].rootfs = build.id,
                                ![build.name].from = cache["tar"]]
    /\ Goto("cachedisk")
    /\ UNCHANGED <<cache, sidecar>>

WriteCacheDisk ==
    /\ build.pc = "cachedisk"
    /\ images' = [images EXCEPT ![build.name].dir = TRUE, ![build.name].cachedisk = build.id]
    /\ Goto("manifest")
    /\ UNCHANGED <<cache, sidecar>>

(* The manifest comes last; then the build directory is removed *)
WriteManifest ==
    /\ build.pc = "manifest" /\ images[build.name].dir
    /\ images' = [images EXCEPT ![build.name].manifest = build.id]
    /\ Goto("idle")
    /\ UNCHANGED <<cache, sidecar>>

(* The process dies while it writes the manifest *)
DiesListing ==
    /\ build.pc = "manifest" /\ images[build.name].dir
    /\ images' = [images EXCEPT ![build.name].torn = TRUE]
    /\ Goto("idle")
    /\ UNCHANGED <<cache, sidecar>>

(* Any step returns an error, or the process dies between two: what is in the  *)
(* directory stays *)
Fails ==
    /\ Building
    /\ Goto("idle")
    /\ UNCHANGED <<images, cache, sidecar>>

----------------------------------------------------------------------------
(* The other operations of the store *)

(* ImageStore::remove *)
RemoveImage(n) ==
    /\ images[n].dir
    /\ Overlap \/ ~(Building /\ build.name = n)
    /\ images' = [images EXCEPT ![n] = Empty(FALSE)]
    /\ UNCHANGED <<cache, sidecar, build>>

(* ImageStore::list: the directories that hold a manifest; one that cannot be  *)
(* decoded fails the whole listing                                             *)
list ==
    IF \E n \in ImageNames : images[n].torn THEN {}
    ELSE {n \in ImageNames : images[n].manifest # 0}

(* ImageStore::resolve_guest: the disks a BOX of the image boots from *)
resolve_guest(n) ==
    IF /\ images[n].manifest # 0 /\ ~images[n].torn
       /\ images[n].kernel # 0 /\ images[n].rootfs # 0 /\ images[n].cachedisk # 0
    THEN {images[n].kernel, images[n].rootfs, images[n].cachedisk}
    ELSE {}

ImagesNext ==
    \/ \E n \in ImageNames, force, pip, npm \in BOOLEAN : Begin(n, force, pip, npm)
    \/ FetchCert \/ Check \/ Assemble \/ Fails
    \/ \E f \in Files : Fetch(f) \/ DiesFetching(f)
    \/ WriteKernel \/ WriteRootfs \/ WriteCacheDisk \/ WriteManifest \/ DiesListing
    \/ \E n \in ImageNames : RemoveImage(n)

----------------------------------------------------------------------------
(* Properties *)

(* An image that is listed can be booted, from disks of one build: builds that *)
(* failed or died on the way, forced rebuilds and removals in between leave    *)
(* either nothing to list or everything (build_image_inner writes the manifest *)
(* last, remove takes the whole directory).                                    *)
ImageIsWhole == \A n \in list : resolve_guest(n) = {images[n].manifest}

(* Whatever the cache was left with by earlier builds and whatever the mirror  *)
(* sent, no root disk is made of anything but the published, signed archive    *)
(* (fetch_rootfs checks cached files as well).                                 *)
RootfsIsVerified == \A n \in ImageNames : images[n].rootfs # 0 => images[n].from = "good"

(* Whatever builds, failures, kills, forced rebuilds and removals came before, *)
(* a listed image is whole and made of what was published.                     *)
ImagesAreSound == ImageIsWhole /\ RootfsIsVerified

=============================================================================
