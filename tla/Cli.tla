-------------------------------- MODULE Cli --------------------------------
(***************************************************************************)
(* The command line of sagens: the words typed after the program name are  *)
(* parsed into a command (src/sagens/args).  A command is a tuple whose    *)
(* first element is the variant of the Rust enum and whose others are its  *)
(* fields.  What a word looks like inside (is it a UUID, a number with a   *)
(* unit, KEY=VALUE) is given by the constants.                             *)
(***************************************************************************)
EXTENDS Naturals, Sequences, SequencesExt

CONSTANTS
    Uuids,      \* the words that parse as a UUID
    Numeral,    \* word |-> [digits, unit], for the words that are numbers
    TailEq,     \* word |-> what follows "--tail=" in it
    KeyValue,   \* word |-> <<key, value>>, for the words with a "="
    MaxU32, MaxU64, MaxUsize,
    NoArg       \* Option::None

Error == <<"Error">>
Help(topic) == <<"Help", topic>>

is_help_flag(word) == word \in {"-h", "--help"}
help_only(args) == Len(args) = 1 /\ is_help_flag(args[1])

(* The loops over flags: a valued flag takes the next word, a switch none; *)
(* whatever else comes is marked "bad", and so is a missing value.         *)
Flags(args, valued, switches) ==
    LET from[i \in 1..Len(args) + 2] ==
            IF i > Len(args) THEN <<>>
            ELSE IF args[i] \in switches THEN <<<<args[i], NoArg>>>> \o from[i + 1]
            ELSE IF args[i] \in valued /\ i < Len(args)
                 THEN <<<<args[i], args[i + 1]>>>> \o from[i + 2]
            ELSE <<<<"bad", NoArg>>>>
    IN from[1]

Given(flags, flag) == \E i \in DOMAIN flags : flags[i][1] = flag
Values(flags, flag) ==
    LET chosen == SelectSeq(flags, LAMBDA f : f[1] = flag)
    IN [i \in DOMAIN chosen |-> chosen[i][2]]
LastOr(values, default) == IF values = <<>> THEN default ELSE Last(values)
-----------------------------------------------------------------------------
(* Values *)

Units == [gib |-> 1024, gb |-> 1024, g |-> 1024, mib |-> 1, mb |-> 1, m |-> 1, none |-> 1]

IsMib(word) ==
    /\ word \in DOMAIN Numeral
    /\ Numeral[word].digits <= MaxU64
    /\ Numeral[word].digits * Units[Numeral[word].unit] <= MaxU64
parse_mib_value(word) == Numeral[word].digits * Units[Numeral[word].unit]

IsU32(word) ==
    /\ word \in DOMAIN Numeral
    /\ Numeral[word].unit = "none" /\ Numeral[word].digits <= MaxU32

parse_bool_value ==
    [w \in {"1", "true", "yes", "on", "enabled", "0", "false", "no", "off", "disabled"} |->
        w \in {"1", "true", "yes", "on", "enabled"}]

parse_box_setting(setting, value) ==
    LET number == Numeral[value].digits IN
    CASE setting \in {"cpu", "cpu_cores"} /\ IsU32(value) -> <<"CpuCores", number>>
      [] setting \in {"memory", "ram", "memory_mb", "ram_mb"} /\ IsMib(value)
         /\ parse_mib_value(value) <= MaxU32 -> <<"MemoryMb", parse_mib_value(value)>>
      [] setting \in {"fs", "disk", "fs_size", "fs_size_mib", "workspace_mib", "disk_mib"}
         /\ IsMib(value) -> <<"FsSizeMib", parse_mib_value(value)>>
      [] setting \in {"proc", "process_count", "max_processes"} /\ IsU32(value) ->
         <<"MaxProcesses", number>>
      [] setting \in {"network", "net", "network_enabled"} /\ value \in DOMAIN parse_bool_value ->
         <<"NetworkEnabled", parse_bool_value[value]>>
      [] OTHER -> Error

IsTailLines(word) ==
    /\ word \in DOMAIN Numeral /\ Numeral[word].unit = "none"
    /\ Numeral[word].digits \in 1..MaxUsize
-----------------------------------------------------------------------------
(* box ... *)

(* box start, stop and rm *)
parse_box_id(variant, name, args) ==
    IF help_only(args) THEN Help(<<"box", name>>)
    ELSE IF Len(args) = 1 /\ args[1] \in Uuids THEN <<variant, args[1]>>
    ELSE Error

parse_box_set(args) ==
    IF args = <<>> \/ help_only(args) THEN Help(<<"box", "set">>)
    ELSE LET value == parse_box_setting(args[Len(args) - 1], args[Len(args)]) IN
         IF Len(args) \notin {2, 3} THEN Error
         ELSE IF Len(args) = 3 /\ args[1] \notin Uuids THEN Error
         ELSE IF value = Error THEN Error
         ELSE <<"Set", IF Len(args) = 3 THEN args[1] ELSE NoArg, value>>

Interactive == {"-i", "--interactive"}
is_trailing_interactive_flag(args) == Len(args) = 1 /\ args[1] \in Interactive
should_open_interactive(args, leading) ==
    leading \/ args = <<>> \/ is_trailing_interactive_flag(args)

parse_box_exec(args) ==
    IF args = <<>> \/ help_only(args) THEN Help(<<"box", "exec">>)
    ELSE LET leading == args[1] \in Interactive
             rest == IF leading THEN Tail(args) ELSE args
             command == SubSeq(rest, 3, Len(rest))
         IN  IF Len(rest) < 2 \/ rest[1] \notin Uuids THEN Error
             ELSE IF rest[2] \notin {"bash", "python"} THEN Error
             ELSE IF should_open_interactive(command, leading)
                  THEN <<"Exec", rest[1], "Interactive", rest[2]>>
             ELSE <<"Exec", rest[1], rest[2], command>>

parse_box_new(args) ==
    LET flags == Flags(args, {"--image"}, {}) IN
    IF help_only(args) THEN Help(<<"box", "new">>)
    ELSE IF Given(flags, "bad") THEN Error
    ELSE <<"New", LastOr(Values(flags, "--image"), NoArg)>>

parse_box_fs(args) ==
    IF args = <<>> \/ help_only(args) THEN Help(<<"box", "fs">>)
    ELSE IF Len(args) < 2 \/ args[1] \notin Uuids THEN Error
    ELSE LET rest == SubSeq(args, 3, Len(args))
             helps == help_only(rest)
         IN CASE args[2] = "ls" /\ helps -> Help(<<"box", "fs", "ls">>)
              [] args[2] = "ls" /\ ~helps ->
                 <<"FsList", args[1], IF rest = <<>> THEN "/workspace" ELSE rest[1]>>
              [] args[2] = "upload" /\ helps -> Help(<<"box", "fs", "upload">>)
              [] args[2] = "upload" /\ ~helps /\ Len(rest) >= 2 ->
                 <<"FsUpload", args[1], rest[1], rest[2]>>
              [] args[2] = "download" /\ helps -> Help(<<"box", "fs", "download">>)
              [] args[2] = "download" /\ ~helps /\ Len(rest) >= 2 ->
                 <<"FsDownload", args[1], rest[1], rest[2]>>
              [] OTHER -> Error

CheckpointCommands == {"create", "list", "restore", "fork", "delete"}

parse_checkpoint_create(box, rest) ==
    LET flags == Flags(rest, {"--name", "--meta"}, {})
        pairs == Values(flags, "--meta")
    IN  IF Given(flags, "bad") \/ ~(ToSet(pairs) \subseteq DOMAIN KeyValue) THEN Error
        ELSE <<"CheckpointCreate", box, LastOr(Values(flags, "--name"), NoArg),
               [k \in {KeyValue[pairs[i]][1] : i \in DOMAIN pairs} |->
                    LastOr(SelectSeq([i \in DOMAIN pairs |-> KeyValue[pairs[i]]],
                                     LAMBDA p : p[1] = k), <<k, NoArg>>)[2]]>>

parse_checkpoint_restore(box, rest) ==
    LET flags == Flags(Tail(rest), {"--mode"}, {})
        modes == Values(flags, "--mode")
    IN  IF Given(flags, "bad") \/ ~(ToSet(modes) \subseteq {"rollback", "replace"}) THEN Error
        ELSE <<"CheckpointRestore", box, rest[1], LastOr(modes, "rollback")>>

parse_checkpoint_fork(box, rest) ==
    LET flags == Flags(Tail(rest), {"--name"}, {}) IN
    IF Given(flags, "bad") THEN Error
    ELSE <<"CheckpointFork", box, rest[1], LastOr(Values(flags, "--name"), NoArg)>>

parse_box_checkpoint(args) ==
    IF args = <<>> \/ help_only(args) THEN Help(<<"box", "checkpoint">>)
    ELSE IF help_only(Tail(args))
         THEN Help(<<"box", "checkpoint">>
                   \o IF args[1] \in CheckpointCommands THEN <<args[1]>> ELSE <<>>)
    ELSE IF Len(args) < 2 \/ args[2] \notin Uuids THEN Error
    ELSE LET rest == SubSeq(args, 3, Len(args))
             box == args[2]
         IN CASE args[1] = "create" -> parse_checkpoint_create(box, rest)
              [] args[1] = "list" /\ rest = <<>> -> <<"CheckpointList", box>>
              [] args[1] = "restore" /\ rest # <<>> -> parse_checkpoint_restore(box, rest)
              [] args[1] = "fork" /\ rest # <<>> -> parse_checkpoint_fork(box, rest)
              [] args[1] = "delete" /\ rest # <<>> -> <<"CheckpointDelete", box, rest[1]>>
              [] OTHER -> Error
-----------------------------------------------------------------------------
(* The other commands *)

parse_leaf(args, topic, command) ==
    IF args = <<>> THEN command ELSE IF help_only(args) THEN Help(topic) ELSE Error

ensure_no_extra_args(args) == args = <<>> \/ help_only(args)

parse_daemon_log(args) ==
    LET one(word) == IF word \in DOMAIN TailEq THEN TailEq[word] ELSE word
        flags == Flags(args, {"--tail"}, {"--follow", "-f", "-h", "--help"} \cup DOMAIN TailEq)
        lines == [i \in DOMAIN flags |->
                     IF flags[i][1] = "--tail" THEN flags[i][2] ELSE one(flags[i][1])]
        tails == {i \in DOMAIN flags : flags[i][1] \in {"--tail"} \cup DOMAIN TailEq}
        stops == {i \in DOMAIN flags : flags[i][1] = "bad" \/ is_help_flag(flags[i][1])
                                       \/ (i \in tails /\ ~IsTailLines(lines[i]))}
        first == CHOOSE i \in stops : \A j \in stops : i <= j
        last == CHOOSE i \in tails : \A j \in tails : j <= i
    IN  IF stops # {} THEN IF is_help_flag(flags[first][1]) THEN Help(<<"daemon", "log">>) ELSE Error
        ELSE <<"DaemonLog", IF tails = {} THEN NoArg ELSE Numeral[lines[last]].digits,
               Given(flags, "--follow") \/ Given(flags, "-f")>>

parse_daemon(args) ==
    CASE args = <<>> -> <<"DaemonRun">>
      [] help_only(args) -> Help(<<"daemon">>)
      [] args # <<>> /\ args[1] = "log" -> parse_daemon_log(Tail(args))
      [] OTHER -> Error

parse_admin(args) ==
    IF args = <<>> \/ help_only(args) THEN Help(<<"admin">>)
    ELSE CASE args[1] = "add" /\ ensure_no_extra_args(Tail(args)) -> <<"AdminAdd">>
           [] args = <<"remove", "me">> -> <<"AdminRemoveMe">>
           [] args[1] = "remove" /\ help_only(Tail(args)) -> Help(<<"admin", "remove", "me">>)
           [] OTHER -> Error

parse_image_build(args) ==
    IF args = <<>> \/ help_only(args) THEN Help(<<"image", "build">>)
    ELSE LET flags == Flags(Tail(args), {"--apk", "--pip", "--npm", "--min-image-mib"},
                            {"--force-refresh"})
             sizes == Values(flags, "--min-image-mib")
         IN  IF Given(flags, "bad") \/ \E i \in DOMAIN sizes : ~IsMib(sizes[i]) THEN Error
             ELSE <<"ImageBuild", args[1], Values(flags, "--apk"), Values(flags, "--pip"),
                    Values(flags, "--npm"),
                    IF sizes = <<>> THEN 512 ELSE parse_mib_value(Last(sizes)),
                    Given(flags, "--force-refresh")>>

parse_image(args) ==
    IF args = <<>> \/ help_only(args) THEN Help(<<"image">>)
    ELSE LET rest == Tail(args) IN
         CASE args[1] = "build" -> parse_image_build(rest)
           [] args[1] = "list" /\ ensure_no_extra_args(rest) -> <<"ImageList">>
           [] args[1] = "inspect" /\ help_only(rest) -> Help(<<"image", "inspect">>)
           [] args[1] = "inspect" /\ ~help_only(rest) /\ Len(rest) = 1 ->
              <<"ImageInspect", rest[1]>>
           [] args[1] = "rm" /\ help_only(rest) -> Help(<<"image", "rm">>)
           [] args[1] = "rm" /\ ~help_only(rest) /\ Len(rest) = 1 -> <<"ImageRemove", rest[1]>>
           [] OTHER -> Error

parse_box(args) ==
    IF args = <<>> \/ help_only(args) THEN Help(<<"box">>)
    ELSE LET rest == Tail(args) IN
         CASE args[1] \in {"list", "ps"} /\ ensure_no_extra_args(rest) -> <<"List">>
           [] args[1] = "new" -> parse_box_new(rest)
           [] args[1] = "start" -> parse_box_id("Start", args[1], rest)
           [] args[1] = "stop" -> parse_box_id("Stop", args[1], rest)
           [] args[1] = "rm" -> parse_box_id("Remove", args[1], rest)
           [] args[1] = "set" -> parse_box_set(rest)
           [] args[1] = "exec" -> parse_box_exec(rest)
           [] args[1] = "fs" -> parse_box_fs(rest)
           [] args[1] = "checkpoint" -> parse_box_checkpoint(rest)
           [] OTHER -> Error

Topics ==
    {<<>>, <<"start">>, <<"quit">>, <<"update">>, <<"daemon">>, <<"daemon", "log">>,
     <<"admin">>, <<"admin", "add">>, <<"admin", "remove", "me">>,
     <<"image">>, <<"box">>, <<"box", "fs">>, <<"box", "checkpoint">>}
    \cup {<<"image", s>> : s \in {"build", "list", "inspect", "rm"}}
    \cup {<<"box", s>> : s \in {"list", "ps", "new", "start", "stop", "rm", "set", "exec"}}
    \cup {<<"box", "fs", s>> : s \in {"ls", "upload", "download"}}
    \cup {<<"box", "checkpoint", s>> : s \in CheckpointCommands}

parse_help_topic(args) ==
    IF args = <<"box", "ps">> THEN Help(<<"box", "list">>)
    ELSE IF args \in Topics THEN Help(args) ELSE Error

parse(args) ==
    IF args = <<>> THEN Help(<<>>)
    ELSE LET rest == Tail(args) IN
         CASE args[1] \in {"help", "-h", "--help"} -> parse_help_topic(rest)
           [] args[1] \in {"start", "quit", "update"} ->
              parse_leaf(rest, <<args[1]>>, <<args[1]>>)
           [] args[1] = "daemon" -> parse_daemon(rest)
           [] args[1] = "admin" -> parse_admin(rest)
           [] args[1] = "image" -> parse_image(rest)
           [] args[1] = "box" -> parse_box(rest)
           [] OTHER -> Error
=============================================================================
