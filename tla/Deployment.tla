----------------------------- MODULE Deployment -----------------------------
(***************************************************************************)
(* scety on its machine: the commands an operator types (src/src/main.rs,  *)
(* src/src/cli/commands/), the files they leave, the service manager they  *)
(* call, and the start of the service itself, run() up to the point where  *)
(* its listeners take over (module Listeners).                             *)
(*                                                                         *)
(* A command is a sequence of steps, and may be interrupted between any    *)
(* two of them; the machine may be rebooted.  The service may fail at any  *)
(* time, and is started again by systemd, since its unit says so.          *)
(*                                                                         *)
(* External: systemctl, systemd.  What is modelled of them is what the     *)
(* commands rely on; a systemctl that is called does what it is asked.     *)
(***************************************************************************)
EXTENDS Settings, Services

CONSTANTS
    Disks,         \* <<scety.toml, {} if there is none, the service files>>
    DefaultMain    \* default_scety_config.toml, as it is written

\* An optional value has at most one element; a directory is a sequence.
ASSUME DisksAssumption ==
    \A disk \in Disks : /\ \A a, b \in disk[1] : a = b
                        /\ disk[2] \in Seq(Range(disk[2]))

VARIABLES
    main,       \* scety.toml: {} or {what it holds}
    directory,  \* the service files
    user,       \* the user scety exists
    unit,       \* the unit file
    known,      \* systemd has it in memory
    enabled,    \* the link that has it started at boot
    systemd,    \* the state of the unit; waiting: to start it again
    process,    \* where run() is
    config,     \* what run() has read
    command,    \* the step the operator's command is at
    told        \* the last success a command has reported

files   == <<main, directory, user>>
running == <<systemd, process, config>>
vars    == <<files, unit, known, enabled, running, command, told>>

UnitFiles      == {"none", "cut", "written"}
SystemdStates  == {"inactive", "active", "waiting"}
ProcessStates  == {"none", "started", "fallback", "serving"}
InstallSteps   == {"install:user", "install:config", "install:fill",
                   "install:permissions", "install:unit", "install:fill_unit",
                   "install:enable", "install:start"}
UninstallSteps == {"uninstall:asks", "uninstall:stop", "uninstall:disable",
                   "uninstall:remove", "uninstall:reload"}
Steps   == InstallSteps \cup UninstallSteps
               \cup {"stop:asks", "stop:stop", "reload:asks", "reload:restart"}
Reports == {"none", "installed", "uninstalled", "stopped", "reloaded"}

NoConfig == [main |-> {}, directory |-> <<>>]

\* An empty file: every key is optional.
EmptyMain ==
    [readers |-> DefaultMain.readers, toml |-> TRUE, bundle |-> {},
     timers |-> [t \in TimerKeys |-> "absent"]]

Init ==
    /\ \E disk \in Disks : main = disk[1] /\ directory = disk[2]
    /\ user = FALSE /\ enabled = FALSE
    /\ unit = "none" /\ known = FALSE
    /\ systemd = "inactive" /\ process = "none" /\ config = NoConfig
    /\ command = "none" /\ told = "none"

-----------------------------------------------------------------------------
\* systemctl.  Each call is atomic.
Halted == systemd' = "inactive" /\ process' = "none" /\ config' = NoConfig

Launched ==
    /\ systemd' = "active" /\ process' = "started" /\ config' = NoConfig
    /\ known' = TRUE

\* A unit file without content cannot be started.
SystemctlStart ==
    IF unit = "written" /\ systemd # "active"
    THEN Launched ELSE UNCHANGED <<running, known>>

SystemctlRestart ==
    IF unit = "written" THEN Launched ELSE UNCHANGED <<running, known>>

-----------------------------------------------------------------------------
\* The commands.
Begin(first) ==
    /\ command = "none" /\ command' = first /\ told' = "none"
    /\ UNCHANGED <<files, unit, known, enabled, running>>

Goes(from, to)    == command = from /\ command' = to /\ UNCHANGED told
Succeeds(from, as) == command = from /\ command' = "none" /\ told' = as

\* `install`, and `run` when it is not systemd that runs it.
InstallUser ==
    /\ Goes("install:user", "install:config") /\ user' = TRUE
    /\ UNCHANGED <<main, directory, unit, known, enabled, running>>

\* fs::write creates the file before it fills it.
InstallConfig ==
    /\ IF main = {}
       THEN main' = {EmptyMain} /\ Goes("install:config", "install:fill")
       ELSE UNCHANGED main /\ Goes("install:config", "install:permissions")
    /\ UNCHANGED <<directory, user, unit, known, enabled, running>>

\* Fault: the default is added to what is there.
InstallAppends ==
    /\ Goes("install:fill", "install:permissions") /\ main' = main \cup {DefaultMain}
    /\ UNCHANGED <<directory, user, unit, known, enabled, running>>

InstallFill ==
    /\ Goes("install:fill", "install:permissions") /\ main' = {DefaultMain}
    /\ UNCHANGED <<directory, user, unit, known, enabled, running>>

\* configure_permissions: the group of scety, and nobody else but the owner and
\* root, may read a file.
Permitted(file, kept) ==
    [file EXCEPT !.readers = {"scety"} \cup (file.readers \cap kept)]

InstallPermissions ==
    /\ Goes("install:permissions", "install:unit")
    /\ \E kept \in SUBSET {"caller"} :
          /\ main' = {Permitted(settings, kept) : settings \in main}
          /\ directory' = [i \in DOMAIN directory |-> Permitted(directory[i], kept)]
    /\ UNCHANGED <<user, unit, known, enabled, running>>

\* A unit file that is there, and be it cut, is taken for an installation.
InstallUnit ==
    /\ \/ /\ unit # "none" /\ systemd = "active"
          /\ Succeeds("install:unit", "installed") /\ UNCHANGED unit
       \/ /\ unit # "none" /\ systemd # "active"
          /\ Goes("install:unit", "install:start") /\ UNCHANGED unit
       \/ /\ unit = "none"
          /\ Goes("install:unit", "install:fill_unit") /\ unit' = "cut"
    /\ UNCHANGED <<files, known, enabled, running>>

InstallFillUnit ==
    /\ Goes("install:fill_unit", "install:enable") /\ unit' = "written"
    /\ UNCHANGED <<files, known, enabled, running>>

\* daemon-reload, and the first half of enable --now.
InstallEnable ==
    /\ Goes("install:enable", "install:start") /\ enabled' = TRUE
    /\ UNCHANGED <<files, unit, known, running>>

InstallStart ==
    /\ Succeeds("install:start", "installed") /\ SystemctlStart
    /\ UNCHANGED <<files, unit, enabled>>

\* is-active: a unit that waits to be started again is not active.
UninstallAsks ==
    /\ unit # "none"
    /\ Goes("uninstall:asks", IF systemd = "active" THEN "uninstall:stop"
                              ELSE "uninstall:disable")
    /\ UNCHANGED <<files, unit, known, enabled, running>>

UninstallStop ==
    /\ Goes("uninstall:stop", "uninstall:disable") /\ Halted
    /\ UNCHANGED <<files, unit, known, enabled>>

\* Fault: the unit file goes first.
UninstallDisableLast ==
    /\ Goes("uninstall:disable", "uninstall:remove") /\ unit' = "none"
    /\ UNCHANGED <<files, known, enabled, running>>

UninstallDisable ==
    /\ Goes("uninstall:disable", "uninstall:remove") /\ enabled' = FALSE
    /\ UNCHANGED <<files, unit, known, running>>

UninstallRemove ==
    /\ Goes("uninstall:remove", "uninstall:reload") /\ unit' = "none"
    /\ UNCHANGED <<files, known, enabled, running>>

\* daemon-reload forgets a unit whose file is gone.
UninstallReload ==
    /\ Succeeds("uninstall:reload", "uninstalled") /\ known' = FALSE
    /\ UNCHANGED <<files, unit, enabled, running>>

\* Fault: a service that is not active any more is not stopped.
StopAsksAgain ==
    /\ \/ /\ systemd = "active" /\ Goes("stop:asks", "stop:stop")
          /\ UNCHANGED running
       \/ /\ Succeeds("stop:stop", "stopped")
          /\ IF systemd = "active" THEN Halted ELSE UNCHANGED running
    /\ UNCHANGED <<files, unit, known, enabled>>

Stop ==
    /\ \/ /\ systemd = "active" /\ Goes("stop:asks", "stop:stop")
          /\ UNCHANGED running
       \/ Succeeds("stop:stop", "stopped") /\ Halted
    /\ UNCHANGED <<files, unit, known, enabled>>

Reload ==
    /\ \/ /\ systemd = "active" /\ Goes("reload:asks", "reload:restart")
          /\ UNCHANGED <<running, known>>
       \/ Succeeds("reload:restart", "reloaded") /\ SystemctlRestart
    /\ UNCHANGED <<files, unit, enabled>>

\* A step fails, the command finds nothing to do, or it is interrupted.
GivesUp ==
    /\ command # "none" /\ command' = "none" /\ UNCHANGED told
    /\ UNCHANGED <<files, unit, known, enabled, running>>

Command ==
    \/ \E first \in {"install:user", "uninstall:asks", "stop:asks", "reload:asks"} :
          Begin(first)
    \/ InstallUser \/ InstallConfig \/ InstallFill \/ InstallPermissions
    \/ InstallUnit \/ InstallFillUnit \/ InstallEnable \/ InstallStart
    \/ UninstallAsks \/ UninstallStop \/ UninstallDisable \/ UninstallRemove
    \/ UninstallReload
    \/ Stop \/ Reload \/ GivesUp

-----------------------------------------------------------------------------
\* The service.
Idle == UNCHANGED <<files, unit, known, enabled, command, told>>

\* exit(1), an error of run(), or a crash: Restart=on-failure.
Failed ==
    /\ process # "none"
    /\ systemd' = "waiting" /\ process' = "none" /\ config' = NoConfig
    /\ Idle

Loads == \E settings \in main : MayRead("scety", settings) /\ settings.toml

\* No service file is valid: the page of the fallback server.
RunFallback ==
    /\ process = "started" /\ Loads
    /\ GetAllConfigs(directory, "scety", TRUE) = <<>>
    /\ process' = "fallback"
    /\ config' = [main |-> main, directory |-> directory]
    /\ UNCHANGED systemd /\ Idle

\* Without a port to listen on, or with a certificate that does not load, the
\* service fails.
RunListeners ==
    /\ process = "started" /\ Loads
    /\ LET listeners == StartListen(GetAllConfigs(directory, "scety", TRUE)) IN
       /\ DOMAIN listeners # {}
       /\ \A port \in DOMAIN listeners : \A ssl \in listeners[port] : LoadsTls(ssl)
    /\ process' = "serving"
    /\ config' = [main |-> main, directory |-> directory]
    /\ UNCHANGED systemd /\ Idle

\* RestartSec has passed.
Restarts ==
    /\ systemd = "waiting"
    /\ IF known THEN Launched ELSE Halted /\ UNCHANGED known
    /\ UNCHANGED <<files, unit, enabled, command, told>>

Reboot ==
    /\ IF enabled /\ unit = "written" THEN Launched ELSE Halted /\ known' = FALSE
    /\ command' = "none" /\ told' = "none"
    /\ UNCHANGED <<files, unit, enabled>>

\* The operator replaces a file by one that the service may not read.
Withheld(file) == [file EXCEPT !.readers = file.readers \ {"scety"}]

Replaces ==
    /\ \/ /\ main' = {Withheld(settings) : settings \in main}
          /\ UNCHANGED directory
       \/ \E replaced \in DOMAIN directory :
             /\ directory' = [i \in DOMAIN directory |->
                                 IF i = replaced THEN Withheld(directory[i])
                                                 ELSE directory[i]]
             /\ UNCHANGED main
    /\ UNCHANGED <<user, unit, known, enabled, running, command, told>>

Next ==
    \/ Command
    \/ Failed \/ RunFallback \/ RunListeners
    \/ Restarts \/ Reboot \/ Replaces

Spec == Init /\ [][Next]_vars

-----------------------------------------------------------------------------
\* A file, whoever may read it.
Unread(file) == [file EXCEPT !.readers = {}]

\* The files hold what they held, or what install has written.
MainOK ==
    /\ \A a, b \in main : a = b
    /\ \E m \in {disk[1] : disk \in Disks} \cup {{EmptyMain}, {DefaultMain}} :
          {Unread(settings) : settings \in main} = {Unread(settings) : settings \in m}

DirectoryOK ==
    /\ directory \in Seq(Range(directory))
    /\ \E disk \in Disks :
          /\ DOMAIN directory = DOMAIN disk[2]
          /\ \A i \in DOMAIN directory : Unread(directory[i]) = Unread(disk[2][i])

TypeOK ==
    /\ MainOK /\ DirectoryOK
    /\ {user, known, enabled} \subseteq BOOLEAN
    /\ unit \in UnitFiles /\ command \in Steps \cup {"none"} /\ told \in Reports
    /\ systemd \in SystemdStates /\ process \in ProcessStates
    /\ process # "none" <=> systemd = "active"
    /\ process \in {"none", "started"} => config = NoConfig

\* The services that the process has loaded, and its listeners.
Served    == GetAllConfigs(config.directory, "scety", TRUE)
Listeners == StartListen(Served)

\* Wherever commands were interrupted, the machine rebooted or the service
\* failed: what is started at boot has a unit file, and the service is only
\* ever started as a user that exists and with a scety.toml (install.rs:56-106,
\* uninstall.rs:22-28).
WhatStartsIsComplete ==
    /\ enabled => unit # "none"
    /\ process = "started" => user /\ main # {}

\* A timer that is written as a duration is in force as written, unless it is
\* the full one and another is written; and a client is without a timer only
\* if the operator wrote -1 for that timer, or for the full one in place of
\* both.  A typing mistake never takes a timer away (get_scety_config.rs:79-103,
\* 139-151).
WrittenTimersHold ==
    process \in {"fallback", "serving"} =>
        \A settings \in config.main, t \in {"headers", "body"} :
            LET raw == settings.timers
                used == Timeouts(raw)
                alone == raw.headers = "absent" /\ raw.body = "absent"
            IN  /\ raw[t] \in Durations => used[t] = raw[t]
                /\ alone /\ raw.full \in Durations => used[t] = raw.full
                /\ used[t] = "off" => \/ raw[t] = "-1"
                                      \/ alone /\ raw.full = "-1"

\* A service that declares TLS is served with TLS, in whatever order the files
\* of its port are found and whatever the others declare (global_router.rs:
\* 49-72).
DeclaredTlsIsServed ==
    process = "serving" =>
        \A served \in Range(Served) :
            served.ssl # {} =>
                \A port \in served.listen_port : Listeners[port] # {}

\* What `check-certs` accepts raises no complaint when the service starts with
\* the same files, as far as their readers go: it looks at every service that
\* its caller may read, valid or not (check_certs.rs:12-20, run.rs:36-48).  A
\* service is left out whose certificates, or the additional authorities, only
\* the caller may read: the command runs as the user who types it, the service
\* as scety (install.rs:136-156).
CheckCertsCoversTheStart ==
    /\ CheckCerts(main, directory)
    /\ \A file \in Range(directory) :
          MayRead("scety", file) => MayRead("caller", file)
    => \A settings \in main :
          \A served \in Range(GetAllConfigs(directory, "scety", TRUE)) :
             LET pem == settings.bundle
                            \cup UNION {ssl.cert : ssl \in SslSections(served)}
             IN  \/ CheckService(served, settings.bundle, "scety")
                 \/ \E file \in pem : ~MayRead("scety", file)

\* When `stop` has reported success the service is down and stays down, though
\* it may have failed, and waited to be started again, since the command asked
\* whether it is active (stop.rs:4-20, README.md:65).
StoppedStaysStopped ==
    told = "stopped" => process = "none" /\ systemd = "inactive"

\* README.md:70: `uninstall` stops, disables and removes the service.
UninstallStopsIt ==
    told = "uninstalled" => process = "none"
=============================================================================
