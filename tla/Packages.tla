------------------------------ MODULE Packages ------------------------------
(***************************************************************************)
(* Which Alpine packages go into an image (src/images/packages.rs): the    *)
(* two package indexes are read block by block into a table of packages    *)
(* and a table of providers, and the wanted packages are resolved with a   *)
(* stack of dependency tokens.  A token is [name, class, conflict]: class  *)
(* "so", "cmd" or "plain"; version constraints are dropped by the code.    *)
(***************************************************************************)
EXTENDS Naturals, Sequences, SequencesExt, FiniteSets

CONSTANTS
    Indexes,     \* the indexes to resolve against: sequences of blocks, main then community
    Wanted,      \* BASE_APK_PACKAGES and what --apk adds
    Rank,        \* the place of each package name in alphabetical order
    Missing

VARIABLES
    index,     \* the index resolved against
    at,        \* blocks read
    packages,  \* name |-> package
    providers, \* token name |-> name of a package
    stack, seen, resolved,
    state      \* "loading", "resolving", "done" or "failed"

packageVars == <<index, at, packages, providers, stack, seen, resolved, state>>

Token(name, class) == [name |-> name, class |-> class, conflict |-> FALSE]
Set(f, k, v) == [x \in DOMAIN f \cup {k} |-> IF x = k THEN v ELSE f[x]]

PackagesInit ==
    /\ index \in Indexes
    /\ at = 0 /\ packages = <<>> /\ providers = <<>>
    /\ stack = <<>> /\ seen = {} /\ resolved = <<>> /\ state = "loading"

(* The first package to provide a name keeps it; the last to have it is it. *)
(* A block without a name or a version (block.name = Missing) is skipped.   *)
load_package_block ==
    /\ state = "loading" /\ at < Len(index)
    /\ LET block == index[at + 1]
           provided == {block.name} \cup block.provides
       IN  IF block.name = Missing THEN UNCHANGED <<packages, providers>>
           ELSE /\ packages' = Set(packages, block.name, block)
                /\ providers' = [n \in DOMAIN providers \cup provided |->
                                    IF n \in DOMAIN providers THEN providers[n] ELSE block.name]
    /\ at' = at + 1
    /\ UNCHANGED <<index, stack, seen, resolved, state>>

wanted_apk_packages == {Token(n, "plain") : n \in Wanted}

StartResolving ==
    /\ state = "loading" /\ at = Len(index)
    /\ state' = "resolving"
    /\ stack' = SetToSeq(wanted_apk_packages)
    /\ UNCHANGED <<index, at, packages, providers, seen, resolved>>

(* strip_constraint leaves nothing of a conflict ("!name") *)
normalize_dep(token) ==
    IF token.conflict THEN Missing
    ELSE IF token.name \in DOMAIN providers THEN providers[token.name]
    ELSE IF token.class \in {"so", "cmd"} THEN Missing
    ELSE token.name

(* Mutant: tokens are remembered, not what they resolve to. *)
PopSeenTokens ==
    /\ state = "resolving" /\ stack # <<>>
    /\ LET name == normalize_dep(Last(stack)) IN
       IF name = Missing \/ Last(stack) \in seen
       THEN stack' = Front(stack) /\ UNCHANGED <<seen, resolved, state>>
       ELSE IF name \notin DOMAIN packages
       THEN state' = "failed" /\ UNCHANGED <<stack, seen, resolved>>
       ELSE /\ seen' = seen \cup {Last(stack)}
            /\ resolved' = Append(resolved, packages[name])
            /\ stack' = Front(stack) \o packages[name].depends
            /\ UNCHANGED state
    /\ UNCHANGED <<index, at, packages, providers>>

Pop ==
    /\ state = "resolving" /\ stack # <<>>
    /\ LET name == normalize_dep(Last(stack)) IN
       IF name = Missing \/ name \in seen
       THEN stack' = Front(stack) /\ UNCHANGED <<seen, resolved, state>>
       ELSE IF name \notin DOMAIN packages
       THEN state' = "failed" /\ UNCHANGED <<stack, seen, resolved>>
       ELSE /\ seen' = seen \cup {name}
            /\ resolved' = Append(resolved, packages[name])
            /\ stack' = Front(stack) \o packages[name].depends
            /\ UNCHANGED state
    /\ UNCHANGED <<index, at, packages, providers>>

(* The result is sorted by name *)
Finish ==
    /\ state = "resolving" /\ stack = <<>>
    /\ state' = "done"
    /\ resolved' = SortSeq(resolved, LAMBDA x, y : Rank[x.name] < Rank[y.name])
    /\ UNCHANGED <<index, at, packages, providers, stack, seen>>

PackagesNext == load_package_block \/ StartResolving \/ Pop \/ Finish
-----------------------------------------------------------------------------
(* Properties *)

Names == DOMAIN packages
Needs(n) == {normalize_dep(packages[n].depends[i]) : i \in DOMAIN packages[n].depends} \ {Missing}
Roots == {normalize_dep(t) : t \in wanted_apk_packages} \ {Missing}
Closed(S) == Roots \subseteq S /\ \A n \in S : n \in Names => Needs(n) \subseteq S

(* What is resolved is the least set of packages that holds the wanted ones *)
(* and the dependencies of its members, each package once, whatever cycles  *)
(* and shared dependencies there are; and the resolution fails exactly when *)
(* that set needs a package the indexes do not have.                        *)
ResolvedIsLeastClosure ==
    LET closures == {S \in SUBSET (Names \cup Roots \cup UNION {Needs(n) : n \in Names}) : Closed(S)}
        least == CHOOSE S \in closures : \A T \in closures : S \subseteq T
        chosen == {resolved[i].name : i \in DOMAIN resolved}
    IN  /\ state = "done" => chosen = least /\ Len(resolved) = Cardinality(chosen)
        /\ state = "failed" => ~(least \subseteq Names)
=============================================================================
