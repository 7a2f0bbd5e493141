------------------------------- MODULE MCHost -------------------------------
(***************************************************************************)
(* The instances of the modules whose state is files of the host and the   *)
(* programs that read and write them.  They share no state, so one run     *)
(* checks them side by side: part says which of them a behaviour is of,    *)
(* and the others keep still.  Admins, Lineage and Update have variables   *)
(* of their own; the other modules take turns with s1, s2, ...             *)
(***************************************************************************)
EXTENDS Admins, Lineage, Update, TLC

CONSTANTS NoPath, Unknown, Missing, NoArg

VARIABLES part, s1, s2, s3, s4, s5, s6, s7, s8

own == <<vars, lineageVars, updateVars>>
shared == <<s1, s2, s3, s4, s5, s6, s7, s8>>
-----------------------------------------------------------------------------
D == INSTANCE Daemon WITH
    Commands <- {"c1"}, Quitters <- {"c1"}, Pids <- {"d1", "d2", "d3", "d4"},
    Ports <- {"p1", "p2", "p3"}, Default <- "p1", Occupied <- {"p1"}, Creds <- {"k1", "k2"},
    SlowBoot <- FALSE, MayFail <- TRUE,
    config <- s1, pidFile <- s2, registry <- s3, daemon <- s4, cmd <- s5, used <- s6

I == INSTANCE Images WITH
    ImageNames <- {"chromium"}, MaxBuilds <- 3, Overlap <- FALSE,
    images <- s1, cache <- s2, sidecar <- s3, build <- s4

(* Packages: three blocks, with cycles, conflicts, a virtual package, a      *)
(* library somebody may or may not provide, a package in both indexes        *)
Word(name, class, conflict) == [name |-> name, class |-> class, conflict |-> conflict]
Block(name, depends, provides) == [name |-> name, depends |-> depends, provides |-> provides]
Blocks(name) ==
    {Block(name, d, p) :
        d \in {<<>>, <<Word("a", "plain", FALSE)>>, <<Word("v", "plain", FALSE)>>,
               <<Word("c", "plain", TRUE)>>, <<Word("so:b", "so", FALSE), Word("b", "plain", FALSE)>>},
        p \in {{}, {"so:b"}, {"v"}}}

P == INSTANCE Packages WITH
    Indexes <- {<<x, y, z>> : x \in Blocks("a"), y \in Blocks("b"),
                    z \in {Block(Missing, <<>>, {}),
                           Block("c", <<Word("a", "plain", FALSE)>>, {"v"}),
                           Block("b", <<Word("v", "plain", FALSE)>>, {"so:b"})}},
    Wanted <- {"a", "b"}, Rank <- [a |-> 1, b |-> 2, c |-> 3],
    index <- s1, at <- s2, packages <- s3, providers <- s4, stack <- s5, seen <- s6,
    resolved <- s7, state <- s8

(* Files: a file, a directory with a file, a link to a file, one to nothing *)
Directory == [kind |-> "Directory", data |-> <<>>]
Regular(data) == [kind |-> "File", data |-> data]
Flat == (<<>> :> Directory) @@ (<<"a">> :> Regular(<<"x">>))
Deep == (<<>> :> Directory) @@ (<<"a">> :> Directory) @@ (<<"a", "b">> :> Regular(<<"x", "y">>))
Linked == (<<>> :> Directory) @@ (<<"a">> :> Regular(<<"y">>))
          @@ (<<"b">> :> [kind |-> "Symlink", data |-> <<"a">>])
Dangling == (<<>> :> Directory) @@ (<<"b">> :> [kind |-> "Symlink", data |-> <<"a">>])

F == INSTANCE Files WITH
    Names <- {"a", "b"}, Contents <- {<<"y">>, <<"y", "x">>}, Limit <- 1,
    LocalTrees <- {Flat, Deep, Linked, Dangling},
    WorkspaceTrees <- {<<>> :> Directory, Deep @@ (<<"b">> :> Regular(<<"y">>)), Linked},
    MaxOthers <- 1, MaxJobs <- 2,
    tree <- s1, local <- s2, job <- s3, others <- s4

Machine(c, m, p, d) ==
    [cpu_cores |-> c, memory_mb |-> m, max_processes |-> p, fs_size_mib |-> d]

S == INSTANCE Settings WITH
    Hosts <- {Machine(4, 512, 300, 200), Machine(1, 256, 256, 0),
              Machine(Unknown, Unknown, Unknown, Unknown)},
    Default <- [cpu_cores |-> 1, memory_mb |-> 128, max_processes |-> 256],
    DiskDefault <- 128, Secure <- FALSE, MaxSets <- 3,
    Values <- [cpu_cores |-> {0, 3, 4, 5}, memory_mb |-> {127, 512},
               fs_size_mib |-> {63, 64, 200, 328}, network_enabled |-> BOOLEAN],
    host <- s1, record <- s2, disk <- s3, request <- s4, accepted <- s5

R == INSTANCE Routes WITH
    Uuids <- {"b1", "b2"}, MAX_READ_FILE_BYTES <- 16,
    Numeral <- ("2GiB" :> [digits |-> 2, unit |-> "gib"]) @@ ("5" :> [digits |-> 5, unit |-> "none"]),
    TailEq <- "--tail=5" :> "5",
    KeyValue <- ("k=x" :> <<"k", "x">>) @@ ("k=y" :> <<"k", "y">>),
    MaxU32 <- 65535, MaxU64 <- 1048575, MaxUsize <- 1048575,
    words <- s1, tty <- s2, boxes <- s3, principal <- s4, shells <- s5, stage <- s6, value <- s7

C == INSTANCE Credentials WITH
    Boxes <- {"b1", "b2"}, Conns <- {"c1", "c2"}, AdminConns <- {"c1"}, MaxIssues <- 2,
    file <- s1, torn <- s2, up <- s3, lock <- s4, conn <- s5, known <- s6, issued <- s7, given <- s8

B == INSTANCE Records WITH
    Boxes <- {"b1", "b2"}, Handlers <- {"h1", "h2"}, MaxWrites <- 2, Shared <- {"b2"},
    file <- s1, temp <- s2, writes <- s3, done <- s4, removed <- s5, handler <- s6

W == INSTANCE Runs WITH
    Starts <- {"h1", "h2", "h3"}, Ids <- {"i1", "i2", "i3", "i4"}, NoRun <- "none", PoolSize <- 1,
    dirs <- s1, pool <- s2, used <- s3, sandbox <- s4, vms <- s5

E == INSTANCE Embedded WITH
    Starts <- {"a1", "a2", "a3"}, NoStart <- "none",
    thread <- s1, caller <- s2, ready <- s3, stop <- s4, server <- s5, config <- s6, before <- s7
-----------------------------------------------------------------------------
(* A variable no module of the chosen part uses *)
Rest(n) ==
    /\ IF n < 1 THEN s1 = None ELSE TRUE
    /\ IF n < 2 THEN s2 = None ELSE TRUE
    /\ IF n < 3 THEN s3 = None ELSE TRUE
    /\ IF n < 4 THEN s4 = None ELSE TRUE
    /\ IF n < 5 THEN s5 = None ELSE TRUE
    /\ IF n < 6 THEN s6 = None ELSE TRUE
    /\ IF n < 7 THEN s7 = None ELSE TRUE
    /\ IF n < 8 THEN s8 = None ELSE TRUE

HostInit ==
    /\ Init /\ LineageInit /\ UpdateInit
    /\ \/ part \in {"admins", "lineage", "update"} /\ Rest(0)
       \/ part = "daemon" /\ D!Init /\ Rest(6)
       \/ part = "images" /\ I!ImagesInit /\ Rest(4)
       \/ part = "packages" /\ P!PackagesInit /\ Rest(8)
       \/ part = "files" /\ F!FilesInit /\ Rest(4)
       \/ part = "settings" /\ S!SettingsInit /\ Rest(5)
       \/ part = "routes" /\ R!RoutesInit /\ Rest(7)
       \/ part = "credentials" /\ C!CredentialsInit /\ Rest(8)
       \/ part = "records" /\ B!RecordsInit /\ Rest(6)
       \/ part = "runs" /\ W!RunsInit /\ Rest(5)
       \/ part = "embedded" /\ E!EmbeddedInit /\ Rest(7)

HostNext ==
    \/ part = "admins" /\ Next /\ UNCHANGED <<part, lineageVars, updateVars, shared>>
    \/ part = "lineage" /\ LineageNext /\ UNCHANGED <<part, vars, updateVars, shared>>
    \/ part = "update" /\ UpdateNext /\ UNCHANGED <<part, vars, lineageVars, shared>>
    \/ part = "daemon" /\ D!Next /\ UNCHANGED <<part, own, s7, s8>>
    \/ part = "images" /\ I!ImagesNext /\ UNCHANGED <<part, own, s5, s6, s7, s8>>
    \/ part = "packages" /\ P!PackagesNext /\ UNCHANGED <<part, own>>
    \/ part = "files" /\ F!FilesNext /\ UNCHANGED <<part, own, s5, s6, s7, s8>>
    \/ part = "settings" /\ S!SettingsNext /\ UNCHANGED <<part, own, s6, s7, s8>>
    \/ part = "routes" /\ R!RoutesNext /\ UNCHANGED <<part, own, s8>>
    \/ part = "credentials" /\ C!CredentialsNext /\ UNCHANGED <<part, own>>
    \/ part = "records" /\ B!RecordsNext /\ UNCHANGED <<part, own, s7, s8>>
    \/ part = "runs" /\ W!RunsNext /\ UNCHANGED <<part, own, s6, s7, s8>>
    \/ part = "embedded" /\ E!EmbeddedNext /\ UNCHANGED <<part, own, s8>>

HostSpec == HostInit /\ [][HostNext]_<<part, own, shared>>

MCSymmetry == Permutations(Checkpoints)
-----------------------------------------------------------------------------
(* The properties of the modules, for the part they are about; those of        *)
(* Admins, Lineage and Update hold of their own variables.                     *)

(* One daemon serves, the user config opens it, and the next start finds it *)
StartsAgree == part = "daemon" => D!StartsAgree
(* A listed image is whole and made of what was published *)
ImagesAreSound == part = "images" => I!ImagesAreSound
(* The packages of an image are the least closed set of the wanted ones *)
ResolvedIsLeastClosure == part = "packages" => P!ResolvedIsLeastClosure
(* Uploads, downloads and snapshots show the workspace as it is *)
FilesAreFaithful == part = "files" => F!FilesAreFaithful
(* What was set stays set, within bounds, and the disk agrees with it *)
SettingsHold == part = "settings" => S!SettingsHold
(* A command does what it says, for who may ask for it *)
RoutesAreRight == part = "routes" => R!RoutesAreRight
(* A login for a BOX is decided by the credential issued last *)
NewestCredentialOnly ==
    [][part = "credentials" => \A c \in {"c1", "c2"} : C!DecidedByNewest(c)]_<<part, shared>>
(* A record that is read is one that was written, and no older than it may be *)
RecordsReadBack == part = "records" => B!RecordsReadBack
(* Every virtual machine has a run directory of its own *)
RunsAreApart == part = "runs" => W!RunsAreApart
(* Starts and closes of embedded daemons leave nothing behind *)
StartsAreClean == part = "embedded" => E!StartsAreClean
=============================================================================
