------------------------------- MODULE Routes -------------------------------
(***************************************************************************)
(* The way of a command: the words of the command line become a command    *)
(* (Cli), the command a call of the client library (src/sagens/app.rs),    *)
(* the call a request on the websocket (src/box_api/client/ops), and the   *)
(* request, if the principal of the connection is allowed to make it, an   *)
(* operation of the BOX manager, the admin store, the credential store or  *)
(* the image store (src/box_api/server/dispatch.rs).  Calls, requests and  *)
(* operations are tuples: a name followed by its arguments.                *)
(***************************************************************************)
EXTENDS Cli

CONSTANTS MAX_READ_FILE_BYTES

VARIABLES
    words,      \* the command line
    tty,        \* whether it runs in a terminal
    boxes,      \* the BOXes of the daemon
    principal,  \* who the connection is authenticated as
    shells,     \* the shells of the connection: shell |-> the BOX it runs in
    stage,      \* "typed", "call", "request" or "done"
    value       \* the call, the request, the operation

routeVars == <<words, tty, boxes, principal, shells, stage, value>>

Refused == <<"refused">>
-----------------------------------------------------------------------------
(* app.rs: which call of the client, or which local action, a command makes *)

resolve_single_box_id == IF Len(boxes) = 1 THEN boxes[1] ELSE NoArg

run_box_set_command(command) ==
    LET box == IF command[2] = NoArg THEN resolve_single_box_id ELSE command[2]
    IN  IF box = NoArg THEN Refused ELSE <<"set_box_setting", box, command[3]>>

run_box_exec(command) ==
    CASE command[3] = "bash" -> <<"exec_bash", command[2], command[4]>>
      [] command[3] = "python" -> <<"exec_python", command[2], command[4]>>
      [] command[3] = "Interactive" -> <<"interactive_shell", command[2], command[4]>>

run_fs_command(command) ==
    CASE command[1] = "FsList" -> <<"list_files", command[2], command[3]>>
      [] command[1] = "FsUpload" -> <<"upload_path", command[2], command[3], command[4]>>
      [] command[1] = "FsDownload" -> <<"download_path", command[2], command[3], command[4]>>

run_checkpoint_command(command) ==
    CASE command[1] = "CheckpointCreate" ->
         <<"checkpoint_create", command[2], command[3], command[4]>>
      [] command[1] = "CheckpointList" -> <<"checkpoint_list", command[2]>>
      [] command[1] = "CheckpointRestore" ->
         <<"checkpoint_restore", command[2], command[3], command[4]>>
      [] command[1] = "CheckpointFork" ->
         <<"checkpoint_fork", command[2], command[3], command[4]>>
      [] command[1] = "CheckpointDelete" -> <<"checkpoint_delete", command[2], command[3]>>

run_box_command(command) ==
    CASE command[1] = "List" -> <<"list_boxes">>
      [] command[1] = "New" -> <<"create_box_from_image", command[2]>>
      [] command[1] = "Start" -> <<"start_box", command[2]>>
      [] command[1] = "Stop" -> <<"stop_box", command[2]>>
      [] command[1] = "Remove" -> <<"remove_box", command[2]>>
      [] command[1] = "Set" -> run_box_set_command(command)
      [] command[1] = "Exec" -> run_box_exec(command)
      [] command[1] \in {"FsList", "FsUpload", "FsDownload"} -> run_fs_command(command)
      [] command[1] \in {"CheckpointCreate", "CheckpointList", "CheckpointRestore",
                         "CheckpointFork", "CheckpointDelete"} -> run_checkpoint_command(command)

run_admin_command(command) ==
    IF command[1] = "AdminAdd" THEN <<"admin_add">> ELSE <<"admin_remove_me">>

(* Images are built and listed by the command itself, in the state directory *)
run_image_command(command) ==
    CASE command[1] = "ImageBuild" -> <<"image store", "build">> \o Tail(command)
      [] command[1] = "ImageList" -> <<"image store", "list">>
      [] command[1] = "ImageInspect" -> <<"image store", "inspect", command[2]>>
      [] command[1] = "ImageRemove" -> <<"image store", "remove", command[2]>>

ImageVariants == {"ImageBuild", "ImageList", "ImageInspect", "ImageRemove"}

run(args) ==
    LET command == parse(args) IN
    CASE command[1] = "Error" -> Refused
      [] command[1] = "Help" -> <<"print help">>
      [] command[1] \in {"start", "quit", "update", "DaemonRun", "DaemonLog"} ->
         <<"daemon">> \o command
      [] command[1] \in {"AdminAdd", "AdminRemoveMe"} -> run_admin_command(command)
      [] command[1] \in ImageVariants -> run_image_command(command)
      [] OTHER -> run_box_command(command)
-----------------------------------------------------------------------------
(* box_api/client: the request a call sends *)

(* timeout_ms and kill_grace_ms of an exec are None unless the caller gives them *)
ops_boxes(call) ==
    CASE call[1] = "list_boxes" -> <<"ListBoxes">>
      [] call[1] = "get_box" -> <<"GetBox", call[2]>>
      [] call[1] = "create_box_from_image" -> <<"NewBox", call[2]>>
      [] call[1] = "start_box" -> <<"StartBox", call[2]>>
      [] call[1] = "stop_box" -> <<"StopBox", call[2]>>
      [] call[1] = "remove_box" -> <<"RemoveBox", call[2]>>
      [] call[1] = "set_box_setting" -> <<"SetBoxSetting", call[2], call[3]>>

(* Without a terminal the standard input is the script of an interpreter *)
run_piped_interactive_exec(call) ==
    LET interpreter == IF call[3] = "bash" THEN "bash" ELSE "python3"
    IN  <<"ExecBash", call[2], <<interpreter, "<<", "stdin">>, NoArg, NoArg>>

ops_exec(call) ==
    CASE call[1] = "exec_bash" -> <<"ExecBash", call[2], call[3], NoArg, NoArg>>
      [] call[1] = "exec_python" -> <<"ExecPython", call[2], call[3], NoArg, NoArg>>
      [] call[1] = "exec_bash_with_timeout" ->
         <<"ExecBash", call[2], call[3], call[4], call[5]>>
      [] call[1] = "open_shell" \/ (call[1] = "interactive_shell" /\ tty) ->
         <<"OpenShell", call[2], call[3]>>
      [] OTHER -> run_piped_interactive_exec(call)

ops_files(call) ==
    CASE call[1] = "list_files" -> <<"FsList", call[2], call[3]>>
      [] call[1] = "read_file" -> <<"FsRead", call[2], call[3], call[4]>>
      [] call[1] = "write_file" -> <<"FsWrite", call[2], call[3], call[4], call[5]>>
      [] call[1] = "make_dir" -> <<"FsMkdir", call[2], call[3], call[4]>>
      [] call[1] = "remove_path" -> <<"FsRemove", call[2], call[3], call[4]>>

ops_checkpoints(call) ==
    CASE call[1] = "checkpoint_create" -> <<"CheckpointCreate", call[2], call[3], call[4]>>
      [] call[1] = "checkpoint_list" -> <<"CheckpointList", call[2]>>
      [] call[1] = "checkpoint_restore" -> <<"CheckpointRestore", call[2], call[3], call[4]>>
      [] call[1] = "checkpoint_fork" -> <<"CheckpointFork", call[2], call[3], call[4]>>
      [] call[1] = "checkpoint_delete" -> <<"CheckpointDelete", call[2], call[3]>>

ops_admin(call) ==
    CASE call[1] = "shutdown_daemon" -> <<"ShutdownDaemon">>
      [] call[1] = "admin_add" -> <<"AdminAdd">>
      [] call[1] = "issue_box_credentials" -> <<"BoxIssueCredentials", call[2]>>
      [] call[1] = "admin_remove_me" -> <<"AdminRemoveMe">>

ops_images(call) ==
    CASE call[1] = "build_image" -> <<"ImageBuild">> \o Tail(call)
      [] call[1] = "list_images" -> <<"ImageList">>
      [] call[1] = "inspect_image" -> <<"ImageInspect", call[2]>>
      [] call[1] = "remove_image" -> <<"ImageRemove", call[2]>>

BoxCalls == {"list_boxes", "get_box", "create_box_from_image", "start_box", "stop_box",
             "remove_box", "set_box_setting"}
ExecCalls == {"exec_bash", "exec_python", "exec_bash_with_timeout", "open_shell",
              "interactive_shell"}
FileCalls == {"list_files", "read_file", "write_file", "make_dir", "remove_path"}
CheckpointCalls == {"checkpoint_create", "checkpoint_list", "checkpoint_restore",
                    "checkpoint_fork", "checkpoint_delete"}
AdminCalls == {"shutdown_daemon", "admin_add", "issue_box_credentials", "admin_remove_me"}
ImageCalls == {"build_image", "list_images", "inspect_image", "remove_image"}

BoxRequest(call) ==
    CASE call[1] \in BoxCalls -> ops_boxes(call)
      [] call[1] \in ExecCalls -> ops_exec(call)
      [] call[1] \in FileCalls -> ops_files(call)
      [] call[1] \in CheckpointCalls -> ops_checkpoints(call)
      [] call[1] \in AdminCalls -> ops_admin(call)
      [] call[1] \in ImageCalls -> ops_images(call)
-----------------------------------------------------------------------------
(* box_api/server: what a request does for a principal, which is <<"Admin">> *)
(* or <<"Box", box>>.  The guards stand in the order of the code.            *)

require_admin == principal[1] = "Admin"
authorize_box(box) == principal[1] = "Admin" \/ principal = <<"Box", box>>

DispatchBoxes(request) ==
    CASE request[1] = "Ping" -> <<"pong">>
      [] request[1] = "GetBox" /\ authorize_box(request[2]) ->
         <<"get_box", request[2]>>
      [] request[1] = "ListBoxes" /\ require_admin -> <<"list_boxes">>
      [] request[1] = "NewBox" /\ require_admin ->
         <<"create_box_from_image", request[2]>>
      [] request[1] = "StartBox" /\ require_admin -> <<"start_box", request[2]>>
      [] request[1] = "StopBox" /\ require_admin -> <<"stop_box", request[2]>>
      [] request[1] = "RemoveBox" /\ require_admin -> <<"remove_box", request[2]>>
      [] request[1] = "SetBoxSetting" /\ require_admin ->
         <<"set_box_setting", request[2], request[3]>>
      [] OTHER -> Refused

dispatch_image_request(request) ==
    IF ~require_admin THEN Refused
    ELSE CASE request[1] = "ImageBuild" -> <<"image store", "build">> \o Tail(request)
           [] request[1] = "ImageList" -> <<"image store", "list">>
           [] request[1] = "ImageInspect" -> <<"image store", "inspect", request[2]>>
           [] request[1] = "ImageRemove" -> <<"image store", "remove", request[2]>>

(* ExecRequest::shell and python_exec: the program the guest starts *)
ExecShell(command) == <<"bash -lc", command>>
python_exec(args) == <<"python3", args>>

DispatchExec(request) ==
    LET grace == IF request[5] = NoArg THEN 250 ELSE request[5]
        program == IF request[1] = "ExecBash" THEN ExecShell(request[3])
                   ELSE python_exec(request[3])
    IN  IF authorize_box(request[2])
        THEN <<"exec", request[2], program, request[4], grace>> ELSE Refused

(* The shells a connection has open: shell |-> the BOX it runs in *)
shell_handle(shell) ==
    shell \in DOMAIN shells /\ authorize_box(shells[shell])

DispatchShells(request) ==
    CASE request[1] = "OpenShell" /\ authorize_box(request[2]) ->
         <<"open_shell", request[2], request[3]>>
      [] request[1] = "ShellInput" /\ shell_handle(request[2]) ->
         <<"send_input", shells[request[2]], request[2], request[3]>>
      [] request[1] = "ResizeShell" /\ shell_handle(request[2]) ->
         <<"resize", shells[request[2]], request[2], request[3], request[4]>>
      [] request[1] = "CloseShell" /\ shell_handle(request[2]) ->
         <<"close", shells[request[2]], request[2]>>
      [] request[1] = "CloseShell" /\ request[2] \notin DOMAIN shells -> <<"pong">>
      [] OTHER -> Refused

DispatchFs(request) ==
    IF ~authorize_box(request[2]) THEN Refused
    ELSE CASE request[1] = "FsList" -> <<"list_files", request[2], request[3]>>
           [] request[1] = "FsRead" ->
              IF request[4] > MAX_READ_FILE_BYTES THEN Refused
              ELSE <<"read_file", request[2], request[3], request[4]>>
           [] request[1] = "FsWrite" ->
              <<"write_file", request[2], request[3], request[4], request[5]>>
           [] request[1] = "FsMkdir" -> <<"make_dir", request[2], request[3], request[4]>>
           [] request[1] = "FsRemove" -> <<"remove_path", request[2], request[3], request[4]>>

(* Mutant: checkpoint requests are not checked against the principal. *)
DispatchCheckpointsUnscoped(request) ==
    CASE request[1] = "CheckpointDelete" -> <<"checkpoint_delete", request[2], request[3]>>
      [] OTHER -> Refused

DispatchCheckpoints(request) ==
    CASE request[1] = "CheckpointFork" /\ require_admin ->
         <<"checkpoint_fork", request[2], request[3], request[4]>>
      [] request[1] = "CheckpointCreate" /\ authorize_box(request[2]) ->
         <<"checkpoint_create", request[2], request[3], request[4]>>
      [] request[1] = "CheckpointList" /\ authorize_box(request[2]) ->
         <<"checkpoint_list", request[2]>>
      [] request[1] = "CheckpointRestore" /\ authorize_box(request[2]) ->
         <<"checkpoint_restore", request[2], request[3], request[4]>>
      [] request[1] = "CheckpointDelete" /\ authorize_box(request[2]) ->
         <<"checkpoint_delete", request[2], request[3]>>
      [] OTHER -> Refused

DispatchAdmin(request) ==
    IF ~require_admin THEN Refused
    ELSE CASE request[1] = "ShutdownDaemon" -> <<"shutdown_daemon">>
           [] request[1] = "AdminAdd" -> <<"add_admin">>
           [] request[1] = "BoxIssueCredentials" ->
              IF Contains(boxes, request[2]) THEN <<"issue", request[2]>> ELSE Refused
           [] request[1] = "AdminRemoveMe" -> <<"remove_admin", "self">>

dispatch_request(request) ==
    CASE request[1] \in {"Ping", "ListBoxes", "GetBox", "NewBox", "StartBox", "StopBox",
                         "RemoveBox", "SetBoxSetting"} -> DispatchBoxes(request)
      [] request[1] \in ImageVariants -> dispatch_image_request(request)
      [] request[1] \in {"ExecBash", "ExecPython"} -> DispatchExec(request)
      [] request[1] \in {"OpenShell", "ShellInput", "ResizeShell", "CloseShell"} ->
         DispatchShells(request)
      [] request[1] \in {"FsList", "FsRead", "FsWrite", "FsMkdir", "FsRemove"} ->
         DispatchFs(request)
      [] request[1] \in {"CheckpointCreate", "CheckpointList", "CheckpointRestore",
                         "CheckpointFork", "CheckpointDelete"} ->
         DispatchCheckpoints(request)
      [] OTHER -> DispatchAdmin(request)
-----------------------------------------------------------------------------
ClientCalls == BoxCalls \cup ExecCalls \cup FileCalls \cup CheckpointCalls \cup AdminCalls
               \cup ImageCalls

SetOnlyBox == <<"box", "set", "cpu_cores", "5">>

Interacts(b, target) ==
    IF tty THEN <<"open_shell", b, target>>
    ELSE <<"exec", b, <<"bash -lc", <<IF target = "bash" THEN "bash" ELSE "python3",
                                      "<<", "stdin">>>>, NoArg, 250>>

(* The usage lines and examples of the help pages, with what they announce *)
Documented(b) ==
  { <<<<"start">>, <<"daemon", "start">>>>,
     <<<<"quit">>, <<"daemon", "quit">>>>,
     <<<<"daemon", "log", "--tail", "5", "--follow">>, <<"daemon", "DaemonLog", 5, TRUE>>>>,
     <<<<"daemon", "log", "--tail=5">>, <<"daemon", "DaemonLog", 5, FALSE>>>>,
     <<<<"admin", "add">>, <<"add_admin">>>>,
     <<<<"admin", "remove", "me">>, <<"remove_admin", "self">>>>,
     <<<<"image", "build", "im", "--apk", "x", "--npm", "z", "--apk", "y", "--min-image-mib",
         "2GiB", "--pip", "x">>,
       <<"image store", "build", "im", <<"x", "y">>, <<"x">>, <<"z">>, 2048, FALSE>>>>,
     <<<<"image", "inspect", "im">>, <<"image store", "inspect", "im">>>>,
     <<<<"image", "rm", "im">>, <<"image store", "remove", "im">>>>,
     <<<<"box", "ps">>, <<"list_boxes">>>>,
     <<<<"box", "new">>, <<"create_box_from_image", NoArg>>>>,
     <<<<"box", "new", "--image", "im">>, <<"create_box_from_image", "im">>>>,
     <<<<"box", "start", b>>, <<"start_box", b>>>>,
     <<<<"box", "stop", b>>, <<"stop_box", b>>>>,
     <<<<"box", "rm", b>>, <<"remove_box", b>>>>,
     <<<<"box", "set", b, "memory_mb", "2GiB">>, <<"set_box_setting", b, <<"MemoryMb", 2048>>>>>>,
     <<SetOnlyBox, <<"set_box_setting", b, <<"CpuCores", 5>>>>>>,
     <<<<"box", "set", b, "network", "on">>,
       <<"set_box_setting", b, <<"NetworkEnabled", TRUE>>>>>>,
     <<<<"box", "exec", b, "bash", "x", "y">>,
       <<"exec", b, <<"bash -lc", <<"x", "y">>>>, NoArg, 250>>>>,
     <<<<"box", "exec", b, "python", "x">>, <<"exec", b, <<"python3", <<"x">>>>, NoArg, 250>>>>,
     <<<<"box", "exec", "-i", b, "python">>, Interacts(b, "python")>>,
     <<<<"box", "exec", b, "bash">>, Interacts(b, "bash")>>,
     <<<<"box", "fs", b, "ls">>, <<"list_files", b, "/workspace">>>>,
     <<<<"box", "fs", b, "upload", "x", "y">>, <<"upload_path", b, "x", "y">>>>,
     <<<<"box", "fs", b, "download", "x", "y">>, <<"download_path", b, "x", "y">>>>,
     <<<<"box", "checkpoint", "create", b, "--meta", "k=x", "--name", "n", "--meta", "k=y">>,
       <<"checkpoint_create", b, "n", [k |-> "y"]>>>>,
     <<<<"box", "checkpoint", "list", b>>, <<"checkpoint_list", b>>>>,
     <<<<"box", "checkpoint", "restore", b, "c">>, <<"checkpoint_restore", b, "c", "rollback">>>>,
     <<<<"box", "checkpoint", "restore", b, "c", "--mode", "replace">>,
       <<"checkpoint_restore", b, "c", "replace">>>>,
     <<<<"box", "checkpoint", "fork", b, "c", "--name", "n">>, <<"checkpoint_fork", b, "c", "n">>>>,
     <<<<"box", "checkpoint", "delete", b, "c">>, <<"checkpoint_delete", b, "c">>>> }

Requests ==
    {<<t>> : t \in {"Ping", "ListBoxes", "ShutdownDaemon", "AdminAdd", "AdminRemoveMe",
                    "ImageList"}}
    \cup ({"NewBox", "ImageInspect", "ImageRemove"} \X {"im"})
    \cup ({"GetBox", "StartBox", "StopBox", "RemoveBox", "CheckpointList",
           "BoxIssueCredentials"} \X Uuids)
    \cup ({"CheckpointDelete", "FsList", "OpenShell"} \X Uuids \X {"x"})
    \cup ({"FsMkdir", "FsRemove"} \X Uuids \X {"x"} \X {TRUE})
    \cup ({"CheckpointCreate", "CheckpointRestore", "CheckpointFork"} \X Uuids \X {"x"} \X {"y"})
    \cup ({"ExecBash", "ExecPython"} \X Uuids \X {<<"x">>} \X {NoArg} \X {NoArg})
    \cup ({"FsWrite"} \X Uuids \X {"x"} \X {"y"} \X {TRUE})
    \cup ({"FsRead"} \X Uuids \X {"x"} \X {MAX_READ_FILE_BYTES, MAX_READ_FILE_BYTES + 1})
    \cup {<<"CloseShell", "s">>, <<"ShellInput", "s", "x">>, <<"ResizeShell", "s", 1, 1>>}

(* A line of the help pages typed at a daemon with no BOX, one or two; or a  *)
(* request of a connection that is authenticated for one BOX                 *)
RoutesInit ==
    \/ /\ tty \in BOOLEAN
       /\ boxes \in {<<>>} \cup {<<b>> : b \in Uuids} \cup (Uuids \X Uuids)
       /\ words \in UNION {{d[1] : d \in Documented(b)} : b \in Uuids}
       /\ principal = <<"Admin">> /\ shells = <<>> /\ stage = "typed" /\ value = <<>>
    \/ /\ value \in Requests /\ stage = "request"
       /\ principal \in {<<"Box", b>> : b \in Uuids}
       /\ shells \in {<<>>, [s |-> principal[2]]}
       /\ boxes = <<principal[2]>> /\ words = <<>> /\ tty = FALSE

RunCommand ==
    /\ stage = "typed"
    /\ value' = run(words)
    /\ stage' = IF value'[1] \in ClientCalls THEN "call" ELSE "done"
    /\ UNCHANGED <<words, tty, boxes, principal, shells>>

SendRequest ==
    /\ stage = "call"
    /\ value' = BoxRequest(value) /\ stage' = "request"
    /\ UNCHANGED <<words, tty, boxes, principal, shells>>

Serve ==
    /\ stage = "request"
    /\ value' = dispatch_request(value) /\ stage' = "done"
    /\ UNCHANGED <<words, tty, boxes, principal, shells>>

RoutesNext == RunCommand \/ SendRequest \/ Serve
-----------------------------------------------------------------------------
(* Properties *)

(* A command line of the help pages does, behind four translations, the      *)
(* operation it announces, with its arguments in their places; `box set`     *)
(* without a BOX does it for the only BOX there is, and nothing when there   *)
(* are several or none.                                                      *)
CommandsDoWhatTheySay ==
    stage = "done" /\ words # <<>> =>
        \E b \in Uuids : \E d \in Documented(b) :
            /\ words = d[1]
            /\ \/ value = d[2] /\ (words = SetOnlyBox => boxes = <<b>>)
               \/ value = Refused /\ words = SetOnlyBox /\ Len(boxes) # 1

(* What docs/recipes/box-scoped-access.md lets a BOX credential do *)
BoxScoped ==
    {"get_box", "exec", "open_shell", "send_input", "resize", "close", "list_files", "read_file",
     "write_file", "make_dir", "remove_path", "checkpoint_create", "checkpoint_list",
     "checkpoint_restore", "checkpoint_delete"}

(* A connection authenticated for one BOX reaches that BOX only, and only    *)
(* the operations meant for it, whatever it requests and whichever shells    *)
(* the connection has open.                                                  *)
ScopedToOwnBox ==
    stage = "done" /\ principal[1] = "Box" =>
        \/ value \in {Refused, <<"pong">>}
        \/ value[1] \in BoxScoped /\ value[2] = principal[2]

(* A command does what it says, for who may ask for it.                      *)
RoutesAreRight == CommandsDoWhatTheySay /\ ScopedToOwnBox
=============================================================================
