--------------------------- MODULE DeploymentProofs ---------------------------
(***************************************************************************)
(* Proofs about the installation, wherever commands are interrupted, the   *)
(* service fails or the machine is rebooted, and about the timers, for     *)
(* every text an operator may write.                                       *)
(***************************************************************************)
EXTENDS Deployment, Induction

\* What a unit, once it is there, in systemd's memory or about to be written,
\* relies on.
Prepared == user /\ main # {}

\* The inductive invariant.
StepsInv ==
    /\ enabled => unit # "none"
    /\ command \in {"install:fill_unit", "install:enable"} => unit # "none"
    /\ command = "uninstall:remove" => ~enabled
    /\ command \in InstallSteps \ {"install:user"} => user
    /\ command \in InstallSteps \ {"install:user", "install:config", "install:fill"}
           => Prepared
    /\ unit # "none" \/ known \/ process = "started" => Prepared

\* install and uninstall may stop anywhere and be run again: what starts is
\* complete (install.rs:56-106, uninstall.rs:22-28).
THEOREM StepsInvariant == Spec => []StepsInv
  <1>1. Init => StepsInv
    BY DEF Init, StepsInv, InstallSteps
  <1>2. StepsInv /\ [Next]_vars => StepsInv'
    <2> SUFFICES ASSUME StepsInv, [Next]_vars PROVE StepsInv'
      OBVIOUS
    <2> USE DEF StepsInv, Prepared, InstallSteps, files, running, Goes, Succeeds
    <2>1. ASSUME NEW first \in {"install:user", "uninstall:asks", "stop:asks",
                                "reload:asks"}, Begin(first)
          PROVE  StepsInv'
      BY <2>1 DEF Begin
    <2>2. CASE InstallUser \/ InstallConfig \/ InstallFill \/ InstallPermissions
      BY <2>2 DEF InstallUser, InstallConfig, InstallFill, InstallPermissions
    <2>3. CASE InstallUnit \/ InstallFillUnit \/ InstallEnable
      BY <2>3 DEF InstallUnit, InstallFillUnit, InstallEnable
    <2>4. CASE InstallStart \/ Stop \/ Reload
      BY <2>4 DEF InstallStart, Stop, Reload, SystemctlStart, SystemctlRestart,
                  Launched, Halted
    <2>5. CASE UninstallAsks \/ UninstallStop \/ UninstallDisable
               \/ UninstallRemove \/ UninstallReload
      BY <2>5 DEF UninstallAsks, UninstallStop, UninstallDisable, UninstallRemove,
                  UninstallReload, Halted
    <2>6. CASE GivesUp
      BY <2>6 DEF GivesUp
    <2>7. CASE Failed \/ RunFallback \/ RunListeners
      <3>1. Idle /\ process' # "started"
        BY <2>7 DEF Failed, RunFallback, RunListeners
      <3>2. QED  BY <3>1 DEF Idle
    <2>8. CASE Restarts
      BY <2>8 DEF Restarts, Launched, Halted
    <2>9. CASE Reboot
      BY <2>9 DEF Reboot, Launched, Halted
    <2>10. CASE Replaces
      BY <2>10 DEF Replaces
    <2>11. CASE UNCHANGED vars
      BY <2>11 DEF vars
    <2>12. QED
      BY <2>1, <2>2, <2>3, <2>4, <2>5, <2>6, <2>7, <2>8, <2>9, <2>10, <2>11
      DEF Next, Command
  <1>3. QED  BY <1>1, <1>2, PTL DEF Spec

\* What is started at boot has a unit file, and the service is only ever
\* started as a user that exists and with a scety.toml.
THEOREM WhatStartsIsCompleteHolds == Spec => []WhatStartsIsComplete
  <1>1. StepsInv => WhatStartsIsComplete
    BY DEF StepsInv, WhatStartsIsComplete, Prepared
  <1>2. QED  BY StepsInvariant, <1>1, PTL

\* A report is only there while no command runs.
StopInv ==
    /\ command # "none" => told = "none"
    /\ StoppedStaysStopped

\* After `stop` neither the service nor systemd starts it again: systemctl stop
\* also ends the wait of a unit that failed after `stop` asked for its state
\* (stop.rs:4-20).
THEOREM StoppedStaysStoppedHolds == Spec => []StoppedStaysStopped
  <1>1. Init => StopInv
    BY DEF Init, StopInv, StoppedStaysStopped
  <1>2. StopInv /\ [Next]_vars => StopInv'
    <2> SUFFICES ASSUME StopInv, [Next]_vars PROVE StopInv'
      OBVIOUS
    <2> USE DEF StopInv, StoppedStaysStopped, files, running, Goes, Succeeds
    <2>1. ASSUME NEW first \in {"install:user", "uninstall:asks", "stop:asks",
                                "reload:asks"}, Begin(first)
          PROVE  StopInv'
      BY <2>1 DEF Begin
    <2>2. CASE InstallUser \/ InstallConfig \/ InstallFill \/ InstallPermissions
      BY <2>2 DEF InstallUser, InstallConfig, InstallFill, InstallPermissions
    <2>3. CASE InstallUnit \/ InstallFillUnit \/ InstallEnable \/ InstallStart
      BY <2>3 DEF InstallUnit, InstallFillUnit, InstallEnable, InstallStart
    <2>4. CASE Stop \/ Reload \/ GivesUp
      BY <2>4 DEF Stop, Reload, GivesUp, Halted
    <2>5. CASE UninstallAsks \/ UninstallStop \/ UninstallDisable
               \/ UninstallRemove \/ UninstallReload
      BY <2>5 DEF UninstallAsks, UninstallStop, UninstallDisable, UninstallRemove,
                  UninstallReload, Halted
    <2>6. CASE Failed \/ RunFallback \/ RunListeners
      <3>1. Idle /\ process # "none"
        BY <2>6 DEF Failed, RunFallback, RunListeners
      <3>2. QED  BY <3>1 DEF Idle
    <2>7. CASE Restarts
      BY <2>7 DEF Restarts
    <2>8. CASE Reboot \/ Replaces
      BY <2>8 DEF Reboot, Replaces
    <2>9. CASE UNCHANGED vars
      BY <2>9 DEF vars
    <2>10. QED
      BY <2>1, <2>2, <2>3, <2>4, <2>5, <2>6, <2>7, <2>8, <2>9 DEF Next, Command
  <1>3. StopInv => StoppedStaysStopped
    BY DEF StopInv
  <1>4. QED  BY <1>1, <1>2, <1>3, PTL DEF Spec

-----------------------------------------------------------------------------
\* A timer in force is the one that is written, and a client is without one
\* only where "-1" is written (get_scety_config.rs:79-103, 139-151).
LEMMA WrittenIsUsed ==
    ASSUME NEW raw, NEW t \in {"headers", "body"}
    PROVE  LET used == Timeouts(raw)
               alone == raw.headers = "absent" /\ raw.body = "absent"
           IN  /\ raw[t] \in Durations => used[t] = raw[t]
               /\ alone /\ raw.full \in Durations => used[t] = raw.full
               /\ used[t] = "off" => \/ raw[t] = "-1"
                                     \/ alone /\ raw.full = "-1"
  <1> DEFINE timer == [k \in TimerKeys |-> ParseOptionalTimeout(raw[k])]
  <1>1. \A k \in TimerKeys :
            /\ raw[k] \in Durations => timer[k] = raw[k]
            /\ raw[k] = "absent" <=> timer[k] = "absent"
            /\ timer[k] = "off" <=> raw[k] = "-1"
    BY DurationsAssumption DEF ParseOptionalTimeout, DefaultTimeout
  <1>2. \A k \in TimerKeys :
            /\ timer[k] # "absent" => OrDefault(timer[k]) = timer[k]
            /\ OrDefault(timer[k]) = "off" <=> timer[k] = "off"
    BY DurationsAssumption DEF OrDefault, DefaultTimeout
  <1>3. Timeouts(raw) =
            IF timer.headers = "absent" /\ timer.body = "absent"
                   /\ timer.full # "absent"
            THEN [headers |-> timer.full, body |-> timer.full, use_full |-> TRUE]
            ELSE [headers |-> OrDefault(timer.headers),
                  body |-> OrDefault(timer.body), use_full |-> FALSE]
    BY DEF Timeouts
  <1>4. QED
    BY <1>1, <1>2, <1>3, DurationsAssumption DEF TimerKeys

\* A typing mistake never takes a timer away, and no written duration is lost
\* but the full one next to another.
THEOREM WrittenTimersHoldAlways == Spec => []WrittenTimersHold
  <1>1. WrittenTimersHold
    BY WrittenIsUsed DEF WrittenTimersHold
  <1>2. QED  BY <1>1, PTL

-----------------------------------------------------------------------------
\* What each command, and the service, may leave behind.

\* Who may read a file is none of what it holds.
LEMMA UnreadIs ==
    ASSUME NEW file
    PROVE  /\ \A kept : Unread(Permitted(file, kept)) = Unread(file)
           /\ Unread(Withheld(file)) = Unread(file)
  BY DEF Unread, Permitted, Withheld

\* Other readers leave what scety.toml holds.
LEMMA SameMain ==
    ASSUME MainOK,
           \/ main = {} /\ main' = {}
           \/ \E a, b : main = {a} /\ main' = {b} /\ Unread(b) = Unread(a)
    PROVE  MainOK'
  <1>1. CASE main = {} /\ main' = {}
    BY <1>1 DEF MainOK
  <1>2. CASE \E a, b : main = {a} /\ main' = {b} /\ Unread(b) = Unread(a)
    <2>1. {Unread(settings) : settings \in main'}
              = {Unread(settings) : settings \in main}
      BY <1>2
    <2>2. QED  BY <1>2, <2>1 DEF MainOK
  <1>3. QED  BY <1>1, <1>2

\* Other readers leave what the service files hold.
LEMMA SameDirectory ==
    ASSUME DirectoryOK, NEW d, directory' = d, DOMAIN d = DOMAIN directory,
           d = [i \in DOMAIN d |-> d[i]],
           \A i \in DOMAIN directory : Unread(d[i]) = Unread(directory[i])
    PROVE  DirectoryOK'
  <1>1. d \in Seq(Range(d))
    <2>1. Len(directory) \in Nat /\ DOMAIN d = 1..Len(directory)
      BY LenProperties DEF DirectoryOK
    <2>2. \A i \in 1..Len(directory) : d[i] \in Range(d)
      BY <2>1 DEF Range
    <2>3. QED  BY <2>1, <2>2
  <1>2. QED  BY <1>1 DEF DirectoryOK

\* What each command, and the service, may leave behind.
THEOREM TypeCorrect == Spec => []TypeOK
  <1>1. Init => TypeOK
    <2> SUFFICES ASSUME Init PROVE TypeOK
      OBVIOUS
    <2>1. PICK disk \in Disks : main = disk[1] /\ directory = disk[2]
      BY DEF Init
    <2>2. MainOK /\ DirectoryOK
      BY <2>1, DisksAssumption DEF MainOK, DirectoryOK
    <2>3. QED
      BY <2>2 DEF Init, TypeOK, UnitFiles, Reports, SystemdStates, ProcessStates
  <1>2. TypeOK /\ [Next]_vars => TypeOK'
    <2> SUFFICES ASSUME TypeOK, [Next]_vars PROVE TypeOK'
      OBVIOUS
    <2> USE DEF TypeOK, UnitFiles, SystemdStates, ProcessStates, Reports, Steps,
                InstallSteps, UninstallSteps, files, running, Goes, Succeeds
    <2>0. /\ UNCHANGED main => MainOK'
          /\ UNCHANGED directory => DirectoryOK'
      BY DEF MainOK, DirectoryOK
    <2>1. ASSUME NEW first \in {"install:user", "uninstall:asks", "stop:asks",
                                "reload:asks"}, Begin(first)
          PROVE  TypeOK'
      BY <2>0, <2>1 DEF Begin
    <2>2. CASE InstallUser
      BY <2>0, <2>2 DEF InstallUser
    <2>3. CASE InstallConfig \/ InstallFill
      <3>1. MainOK'
        <4>1. ASSUME main' = {EmptyMain} \/ main' = {DefaultMain} PROVE MainOK'
          BY <4>1 DEF MainOK
        <4>2. QED  BY <2>0, <2>3, <4>1 DEF InstallConfig, InstallFill
      <3>2. QED  BY <2>0, <2>3, <3>1 DEF InstallConfig, InstallFill
    <2>4. CASE InstallPermissions
      <3>1. PICK kept \in SUBSET {"caller"} :
               /\ main' = {Permitted(settings, kept) : settings \in main}
               /\ directory' =
                     [i \in DOMAIN directory |-> Permitted(directory[i], kept)]
        BY <2>4 DEF InstallPermissions
      <3>2. MainOK'
        <4>1. main = {} \/ \E a : main = {a}
          BY DEF MainOK
        <4>2. QED  BY <3>1, <4>1, UnreadIs, SameMain
      <3>3. DirectoryOK'
        <4>1. \A i \in DOMAIN directory :
                 Unread(Permitted(directory[i], kept)) = Unread(directory[i])
          BY UnreadIs
        <4>2. QED  BY <3>1, <4>1, SameDirectory
      <3>4. QED  BY <2>4, <3>2, <3>3 DEF InstallPermissions
    <2>5. CASE InstallUnit \/ InstallFillUnit \/ InstallEnable
      BY <2>0, <2>5 DEF InstallUnit, InstallFillUnit, InstallEnable
    <2>6. CASE InstallStart \/ Stop \/ Reload
      BY <2>0, <2>6 DEF InstallStart, Stop, Reload, SystemctlStart,
                        SystemctlRestart, Launched, Halted
    <2>7. CASE UninstallAsks \/ UninstallStop \/ UninstallDisable
               \/ UninstallRemove \/ UninstallReload
      BY <2>0, <2>7 DEF UninstallAsks, UninstallStop, UninstallDisable,
                        UninstallRemove, UninstallReload, Halted
    <2>8. CASE GivesUp
      BY <2>0, <2>8 DEF GivesUp
    <2>9. CASE Failed \/ RunFallback \/ RunListeners
      <3>1. /\ Idle
            /\ \/ process # "none" /\ systemd' = "waiting" /\ process' = "none"
                  /\ config' = NoConfig
               \/ process = "started" /\ process' \in {"fallback", "serving"}
                  /\ UNCHANGED systemd
        BY <2>9 DEF Failed, RunFallback, RunListeners
      <3>2. QED  BY <2>0, <3>1 DEF Idle
    <2>10. CASE Restarts \/ Reboot
      BY <2>0, <2>10 DEF Restarts, Reboot, Launched, Halted
    <2>11. CASE Replaces
      <3>1. MainOK'
        <4>1. main = {} \/ \E a : main = {a}
          BY DEF MainOK
        <4>2. CASE main' = {Withheld(settings) : settings \in main}
          BY <4>1, <4>2, UnreadIs, SameMain
        <4>3. QED  BY <2>0, <2>11, <4>2 DEF Replaces
      <3>2. DirectoryOK'
        <4>1. ASSUME NEW replaced, NEW d,
                     d = [i \in DOMAIN directory |->
                             IF i = replaced THEN Withheld(directory[i])
                                             ELSE directory[i]],
                     directory' = d
              PROVE  DirectoryOK'
          <5>1. \A i \in DOMAIN directory : Unread(d[i]) = Unread(directory[i])
            BY <4>1, UnreadIs
          <5>2. DOMAIN d = DOMAIN directory /\ d = [i \in DOMAIN d |-> d[i]]
            BY <4>1
          <5>3. QED  BY <4>1, <5>1, <5>2, SameDirectory
        <4>2. QED  BY <2>0, <2>11, <4>1 DEF Replaces
      <3>3. QED  BY <2>11, <3>1, <3>2 DEF Replaces
    <2>12. CASE UNCHANGED vars
      BY <2>0, <2>12 DEF vars
    <2>13. QED
      BY <2>1, <2>2, <2>3, <2>4, <2>5, <2>6, <2>7, <2>8, <2>9, <2>10, <2>11, <2>12
      DEF Next, Command
  <1>3. QED  BY <1>1, <1>2, PTL DEF Spec

-----------------------------------------------------------------------------
\* What run() has read is a sequence of files.
ReadInv == config.directory \in Seq(Range(config.directory))

LEMMA ReadInvariant == Spec => []ReadInv
  <1>1. Init => ReadInv
    BY EmptySeq DEF Init, ReadInv, NoConfig
  <1>2. TypeOK /\ ReadInv /\ [Next]_vars => ReadInv'
    <2> SUFFICES ASSUME TypeOK, ReadInv, [Next]_vars PROVE ReadInv'
      OBVIOUS
    <2>1. \/ UNCHANGED config
          \/ config' = NoConfig
          \/ config' = [main |-> main, directory |-> directory]
      <3> USE DEF files, running, Halted, Launched
      <3>1. CASE \E first \in {"install:user", "uninstall:asks", "stop:asks",
                               "reload:asks"} : Begin(first)
        BY <3>1 DEF Begin
      <3>2. CASE InstallUser \/ InstallConfig \/ InstallFill \/ InstallPermissions
                 \/ InstallUnit \/ InstallFillUnit \/ InstallEnable \/ InstallStart
        BY <3>2 DEF InstallUser, InstallConfig, InstallFill, InstallPermissions,
                    InstallUnit, InstallFillUnit, InstallEnable, InstallStart,
                    SystemctlStart
      <3>3. CASE UninstallAsks \/ UninstallStop \/ UninstallDisable
                 \/ UninstallRemove \/ UninstallReload \/ Stop \/ Reload \/ GivesUp
        BY <3>3 DEF UninstallAsks, UninstallStop, UninstallDisable,
                    UninstallRemove, UninstallReload, Stop, Reload, GivesUp,
                    SystemctlRestart
      <3>4. CASE Failed \/ RunFallback \/ RunListeners
        BY <3>4 DEF Failed, RunFallback, RunListeners
      <3>5. CASE Restarts \/ Reboot \/ Replaces
        BY <3>5 DEF Restarts, Reboot, Replaces
      <3>6. CASE UNCHANGED vars
        BY <3>6 DEF vars
      <3>7. QED
        BY <3>1, <3>2, <3>3, <3>4, <3>5, <3>6 DEF Next, Command
    <2>2. CASE UNCHANGED config
      BY <2>2 DEF ReadInv
    <2>3. CASE config' = NoConfig
      BY <2>3, EmptySeq DEF ReadInv, NoConfig
    <2>4. CASE config' = [main |-> main, directory |-> directory]
      BY <2>4 DEF ReadInv, TypeOK, DirectoryOK
    <2>5. QED  BY <2>1, <2>2, <2>3, <2>4
  <1>3. QED  BY <1>1, <1>2, TypeCorrect, PTL DEF Spec

\* What a directory loads.
LEMMA GetAllConfigsLoads ==
    ASSUME NEW d, d \in Seq(Range(d)), NEW reader, NEW validate \in BOOLEAN
    PROVE  /\ GetAllConfigs(d, reader, validate) \in Seq(Range(d))
           /\ Range(GetAllConfigs(d, reader, validate)) =
                  {file \in Range(d) :
                      /\ MayRead(reader, file) /\ file.toml
                      /\ validate => ValidateConfig(file)}
  <1> DEFINE X == Range(d)
             loads == {file \in X : /\ MayRead(reader, file) /\ file.toml
                                    /\ validate => ValidateConfig(file)}
  <1>1. d \in Seq(X)
    OBVIOUS
  <1>2. GetAllConfigs(d, reader, validate) = Keep(d, loads)
    BY DEF GetAllConfigs
  <1> HIDE DEF loads
  <1>3. Keep(d, loads) \in Seq(X)
    BY <1>1, KeepIsSeq
  <1>4. ToSet(Keep(d, loads)) = ToSet(d) \cap loads
    BY <1>1, KeepElements
  <1>5. \A s : ToSet(s) = Range(s)
    BY DEF ToSet, Range
  <1>6. Range(Keep(d, loads)) = X \cap loads
    BY <1>4, <1>5
  <1>7. QED
    BY <1>2, <1>3, <1>6 DEF loads

\* The first service of a port that declares TLS decides, and there is one if
\* any of them does (global_router.rs:49-72).
LEMMA ResolveSslModeDeclares ==
    ASSUME NEW X, NEW configs \in Seq(X), NEW port,
           NEW c \in Range(configs), SslOf(c, port) # {}
    PROVE  ResolveSslMode(configs, port) # {}
  <1> DEFINE I == {i \in 1..Len(configs) : SslOf(configs[i], port) # {}}
             first == Min(I)
  <1>1. Len(configs) \in Nat /\ DOMAIN configs = 1..Len(configs)
    BY LenProperties
  <1>2. PICK i \in 1..Len(configs) : c = configs[i]
    BY <1>1 DEF Range
  <1>3. i \in I /\ I \in SUBSET Nat
    BY <1>1, <1>2
  <1>4. first \in I
    BY <1>3, MinIsLeast
  <1>5. first # 0 /\ SslOf(configs[first], port) # {}
    <2>1. \A j \in I : j # 0 /\ SslOf(configs[j], port) # {}
      BY <1>1
    <2> HIDE DEF I, first
    <2>2. QED  BY <1>4, <2>1
  <1>6. ResolveSslMode(configs, port) =
            LET declares == IF I # {} THEN first ELSE 0
            IN  IF declares = 0 THEN {} ELSE SslOf(configs[declares], port)
    BY DEF ResolveSslMode, SelectInSeq
  <1> HIDE DEF I, first
  <1>7. QED
    BY <1>3, <1>5, <1>6

\* A service that declares TLS is served with TLS, in whatever order the
\* files of its port are found and whatever the others declare.
THEOREM DeclaredTlsIsServedHolds == Spec => []DeclaredTlsIsServed
  <1>1. ReadInv => DeclaredTlsIsServed
    <2> SUFFICES ASSUME ReadInv, NEW served \in Range(Served),
                        served.ssl # {}, NEW port \in served.listen_port
                 PROVE  Listeners[port] # {}
      BY DEF DeclaredTlsIsServed
    <2> DEFINE X == Range(config.directory)
               onport == OnPort(Served, port)
               S == {c \in Range(Served) : port \in c.listen_port}
    <2>1. Served \in Seq(X)
      BY GetAllConfigsLoads DEF Served, ReadInv
    <2>2. onport = Keep(Served, S)
      BY DEF OnPort
    <2>3. onport \in Seq(X) /\ ToSet(onport) = ToSet(Served) \cap S
      BY <2>1, <2>2, KeepIsSeq, KeepElements
    <2>4. \A s : ToSet(s) = Range(s)
      BY DEF ToSet, Range
    <2>5. served \in Range(onport)
      BY <2>3, <2>4
    <2>6. SslOf(served, port) # {}
      BY DEF SslOf
    <2> HIDE DEF onport
    <2>7. ResolveSslMode(onport, port) # {}
      BY <2>3, <2>5, <2>6, ResolveSslModeDeclares
    <2>8. port \in UniquePorts(Served)
      BY DEF UniquePorts
    <2>9. Listeners[port] = ResolveSslMode(onport, port)
      BY <2>8 DEF Listeners, StartListen, onport
    <2>10. QED  BY <2>7, <2>9
  <1>2. QED  BY <1>1, ReadInvariant, PTL

\* Validation only ever takes services away from what `check-certs` looks at,
\* the authorities it trusts are those of the one scety.toml there is, and what
\* a certificate says does not depend on who reads it (check_certs.rs:12-20,
\* run.rs:36-48).
THEOREM CheckCertsCoversTheStartHolds == Spec => []CheckCertsCoversTheStart
  <1>1. TypeOK => CheckCertsCoversTheStart
    <2> SUFFICES ASSUME TypeOK, CheckCerts(main, directory),
                        \A file \in Range(directory) :
                           MayRead("scety", file) => MayRead("caller", file),
                        NEW settings \in main,
                        NEW served \in
                               Range(GetAllConfigs(directory, "scety", TRUE)),
                        \A file \in settings.bundle
                              \cup UNION {ssl.cert : ssl \in SslSections(served)} :
                           MayRead("scety", file)
                 PROVE  CheckService(served, settings.bundle, "scety")
      BY DEF CheckCertsCoversTheStart
    <2>1. \A a, b \in main : a = b
      BY DEF TypeOK, MainOK
    <2>2. CheckAllConfiguredCerts(GetAllConfigs(directory, "caller", FALSE),
                                  settings.bundle, "caller")
      BY <2>1 DEF CheckCerts
    <2>3. served \in Range(GetAllConfigs(directory, "caller", FALSE))
      <3>1. directory \in Seq(Range(directory))
        BY DEF TypeOK, DirectoryOK
      <3>2. Range(GetAllConfigs(directory, "scety", TRUE)) =
                {file \in Range(directory) :
                    /\ MayRead("scety", file) /\ file.toml
                    /\ TRUE => ValidateConfig(file)}
        BY <3>1, GetAllConfigsLoads
      <3>3. Range(GetAllConfigs(directory, "caller", FALSE)) =
                {file \in Range(directory) :
                    /\ MayRead("caller", file) /\ file.toml
                    /\ FALSE => ValidateConfig(file)}
        BY <3>1, GetAllConfigsLoads
      <3>4. QED  BY <3>2, <3>3
    <2>4. CheckService(served, settings.bundle, "caller")
      BY <2>2, <2>3 DEF CheckAllConfiguredCerts
    <2>5. ASSUME NEW ssl \in SslSections(served), NEW cert \in ssl.cert,
                 CheckCertificate(cert, ExpectedHosts(served), settings.bundle,
                                  "caller")
          PROVE  CheckCertificate(cert, ExpectedHosts(served), settings.bundle,
                                  "scety")
      BY <2>5 DEF CheckCertificate, CheckTrustChain, Reads
    <2>6. QED
      BY <2>4, <2>5 DEF CheckService
  <1>2. QED  BY <1>1, TypeCorrect, PTL
=============================================================================
