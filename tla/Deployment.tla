----------------------------- MODULE Deployment -----------------------------
(***************************************************************************)
(* Registration, the credentials file, the systemd service and the script  *)
(* that installs them (cmd/agent/main.go, install-agent.sh).               *)
(*                                                                         *)
(* Files are inodes that names refer to: a rename moves a name, and a      *)
(* process goes on writing to the inode it opened.  Processes are killed,  *)
(* and the machine restarts, between any two steps; what was written to    *)
(* the page cache is taken to survive (the code does not call fsync).      *)
(***************************************************************************)
EXTENDS Integers

CONSTANTS
  Registrar,    \* processes that may run 'ipmonitor-agent register'
  Initial,      \* what the credentials file may hold at first
  PollAnswers,  \* poll_interval as the Control Plane answers it
  MaxIssued,    \* bound: identities issued
  MaxCrashes,   \* bound: deaths of the agent and restarts of the machine
  MaxInstalls   \* bound: runs of the script

(* What a file holds: whole credentials or a part of some, which do not    *)
(* load.                                                                   *)
Content == [whole : BOOLEAN, id : Nat, poll : Int]
Partial == [whole |-> FALSE, id |-> 0, poll |-> 0]

ASSUME DeploymentAssumption ==
  /\ Initial # {} /\ Initial \subseteq Content
  /\ PollAnswers \subseteq Int
  /\ MaxIssued \in Nat /\ MaxCrashes \in Nat /\ MaxInstalls \in Nat

VARIABLES
  file,      \* what each inode holds
  credsAt,   \* the inode of credentials.json, 0 if there is none
  tmpAt,     \* the inode of credentials.json.tmp, 0 if there is none
  reg,       \* what each registrar is doing
  announced, \* the credentials of the last "Agent registered successfully"
  issued,    \* external: the identities issued by the Control Plane
  unit,      \* external: the state of the service in systemd
  wanted,    \* the service was started, and not stopped since
  loaded,    \* the credentials of the running agent
  synced,    \* it has logged "sync OK"
  journal,   \* some agent has
  env,       \* whether the environment file configures SMTP
  script,    \* where install-agent.sh is
  crashes, installs

fileVars    == <<file, credsAt, tmpAt>>
serviceVars == <<unit, wanted, loaded, synced, journal, crashes>>
scriptVars  == <<env, script, installs>>
regVars     == <<reg, issued, announced>>
vars        == <<fileVars, regVars, serviceVars, scriptVars>>

-----------------------------------------------------------------------------
(* Inode 1 was there before; inode n + 1 is created, if any is, to save    *)
(* the identity n.                                                         *)
Inode == 1 .. MaxIssued + 1

(* cmdRegister and saveCredentials. *)
Resting == {"idle", "saved", "failed"}

(* Mutant: the answer's interval is saved as it is. *)
PollIntervalAsAnswered(p) == p

PollInterval(p) == IF p <= 0 THEN 30 ELSE p

(* The request: refused, answered, or granted with the answer lost. *)
Ask(r) ==
  /\ reg[r].at \in Resting
  /\ issued < MaxIssued
  /\ UNCHANGED announced
  /\ \/ \E p \in PollAnswers :
          /\ issued' = issued + 1
          /\ reg' = [reg EXCEPT ![r] =
               [at |-> "answered", fd |-> 0,
                creds |-> [whole |-> TRUE, id |-> issued + 1, poll |-> PollInterval(p)]]]
     \/ /\ issued' \in {issued, issued + 1}
        /\ reg' = [reg EXCEPT ![r].at = "failed"]

(* Mutant: the credentials are written in place. *)
ScratchInPlace == credsAt

Scratch == tmpAt

(* os.WriteFile: opened and truncated, then written from its beginning. *)
OpenTmp(r) ==
  LET i == IF Scratch = 0 THEN reg[r].creds.id + 1 ELSE Scratch
  IN  /\ reg[r].at = "answered"
      /\ file' = [file EXCEPT ![i] = Partial]
      /\ tmpAt' = i
      /\ reg' = [reg EXCEPT ![r].at = "open", ![r].fd = i]
      /\ UNCHANGED <<credsAt, issued, announced, serviceVars, scriptVars>>

(* Over what another process has written, the bytes may mix. *)
WriteTmp(r) ==
  /\ reg[r].at = "open"
  /\ \E c \in {reg[r].creds} \cup (IF file[reg[r].fd] = Partial THEN {} ELSE {Partial}) :
       file' = [file EXCEPT ![reg[r].fd] = c]
  /\ reg' = [reg EXCEPT ![r].at = "written"]
  /\ UNCHANGED <<credsAt, tmpAt, issued, announced, serviceVars, scriptVars>>

Rename(r) ==
  /\ reg[r].at = "written"
  /\ \/ /\ tmpAt # 0
        /\ credsAt' = tmpAt /\ tmpAt' = 0
        /\ reg' = [reg EXCEPT ![r].at = "renamed"]
     \/ /\ tmpAt = 0
        /\ reg' = [reg EXCEPT ![r].at = "failed"]
        /\ UNCHANGED <<credsAt, tmpAt>>
  /\ UNCHANGED <<file, issued, announced, serviceVars, scriptVars>>

(* "Agent registered successfully". *)
Announce(r) ==
  /\ reg[r].at = "renamed"
  /\ reg' = [reg EXCEPT ![r].at = "saved"]
  /\ announced' = reg[r].creds
  /\ UNCHANGED <<fileVars, issued, serviceVars, scriptVars>>

(* Mutant: the error of saveCredentials is dropped. *)
FailsUnnoticed(r) ==
  /\ reg[r].at \in {"answered", "open", "written"}
  /\ reg' = [reg EXCEPT ![r].at = "renamed"]
  /\ UNCHANGED <<fileVars, issued, announced, serviceVars, scriptVars>>

(* An error of MkdirAll, WriteFile or Rename, or the process is killed,    *)
(* the latter also when it has renamed the file and not yet said so.       *)
Fails(r) ==
  /\ reg[r].at \in {"answered", "open", "written", "renamed"}
  /\ reg' = [reg EXCEPT ![r].at = "failed"]
  /\ UNCHANGED <<fileVars, issued, announced, serviceVars, scriptVars>>

(* 'register' run by hand. *)
RegisterByHand(r) ==
  /\ Ask(r)
  /\ script.by # r
  /\ UNCHANGED <<fileVars, serviceVars, scriptVars>>

-----------------------------------------------------------------------------
(* The service: Restart=on-failure, so that a process that exits with 1 or *)
(* by a panic is started again 10 s later, and one that exits with 0 not.  *)
NoProcess == loaded' = Partial /\ synced' = FALSE

(* Mutant: cmdRun returns when the credentials do not load. *)
AfterFailedLoadClean == "stopped"

AfterFailedLoad == "waiting"

(* loadCredentials in cmdRun, log.Fatalf if there are none. *)
Load ==
  /\ unit = "loading"
  /\ IF credsAt # 0 /\ file[credsAt].whole
     THEN unit' = "running" /\ loaded' = file[credsAt]
     ELSE unit' = AfterFailedLoad /\ UNCHANGED loaded
  /\ UNCHANGED <<fileVars, regVars, wanted, synced, journal, crashes, scriptVars>>

(* time.NewTicker panics if the interval is not positive. *)
TickerPanics ==
  /\ unit = "running" /\ loaded.poll <= 0
  /\ unit' = "waiting" /\ NoProcess
  /\ UNCHANGED <<fileVars, regVars, wanted, journal, crashes, scriptVars>>

SyncOk ==
  /\ unit = "running"
  /\ synced' = TRUE /\ journal' = TRUE
  /\ UNCHANGED <<fileVars, regVars, unit, wanted, loaded, crashes, scriptVars>>

Dies ==
  /\ unit = "running"
  /\ crashes < MaxCrashes /\ crashes' = crashes + 1
  /\ unit' = "waiting" /\ NoProcess
  /\ UNCHANGED <<fileVars, regVars, wanted, journal, scriptVars>>

RestartTimer ==
  /\ unit = "waiting"
  /\ unit' = "loading"
  /\ UNCHANGED <<fileVars, regVars, wanted, loaded, synced, journal, crashes, scriptVars>>

(* systemctl start, which does nothing to a service that runs, and stop.   *)
Start == /\ unit # "missing"
         /\ unit' = IF unit \in {"stopped", "waiting"} THEN "loading" ELSE unit
         /\ wanted' = TRUE
         /\ UNCHANGED <<loaded, synced, journal, crashes>>

Stop == /\ unit # "missing"
        /\ unit' = "stopped" /\ wanted' = FALSE /\ NoProcess
        /\ UNCHANGED <<journal, crashes>>

StartByHand == Start /\ UNCHANGED <<fileVars, regVars, scriptVars>>

StopByHand == Stop /\ UNCHANGED <<fileVars, regVars, scriptVars>>

(* cmdServiceUninstall. *)
Uninstall ==
  /\ unit # "missing"
  /\ unit' = "missing" /\ wanted' = FALSE /\ NoProcess
  /\ UNCHANGED <<fileVars, regVars, journal, crashes, scriptVars>>

(* The machine restarts; the service is enabled. *)
Reboot ==
  /\ crashes < MaxCrashes /\ crashes' = crashes + 1
  /\ unit' = IF unit = "missing" THEN unit ELSE "loading"
  /\ wanted' = (unit # "missing")
  /\ NoProcess
  /\ reg' = [r \in Registrar |-> IF reg[r].at \in Resting THEN reg[r]
                                 ELSE [reg[r] EXCEPT !.at = "failed"]]
  /\ script' = IF script.at \in {"none", "done", "died"} THEN script
               ELSE [script EXCEPT !.at = "died"]
  /\ UNCHANGED <<fileVars, issued, announced, journal, env, installs>>

-----------------------------------------------------------------------------
(* install-agent.sh. *)
Script == [at : {"none", "begun", "download", "env", "register", "registering",
                 "service", "start", "verify", "done", "died"},
           smtp : BOOLEAN, register : BOOLEAN, by : {"nobody"} \cup Registrar, said : BOOLEAN]

At(here, next) == script.at = here /\ script' = [script EXCEPT !.at = next]

(* A command of the script fails, or it is interrupted. *)
ScriptDies ==
  /\ script.at \notin {"none", "registering", "done", "died"}
  /\ script' = [script EXCEPT !.at = "died"]
  /\ UNCHANGED <<fileVars, regVars, serviceVars, env, installs>>

(* The questions: whether SMTP is configured and, if credentials exist,    *)
(* whether to register again.                                              *)
Begin ==
  /\ script.at \in {"none", "done", "died"}
  /\ installs < MaxInstalls /\ installs' = installs + 1
  /\ \E smtp \in BOOLEAN, register \in BOOLEAN :
       /\ credsAt = 0 => register
       /\ script' = [at |-> "begun", smtp |-> smtp, register |-> register,
                     by |-> "nobody", said |-> FALSE]
  /\ UNCHANGED <<fileVars, regVars, serviceVars, env>>

(* is-active does not see a service that waits to be restarted. *)
StopExisting ==
  /\ At("begun", "download")
  /\ IF unit \in {"loading", "running"} THEN Stop ELSE UNCHANGED serviceVars
  /\ UNCHANGED <<fileVars, regVars, env, installs>>

Download ==
  /\ At("download", "env")
  /\ UNCHANGED <<fileVars, regVars, serviceVars, env, installs>>

WriteEnv ==
  /\ At("env", IF script.register THEN "register" ELSE "service")
  /\ env' = script.smtp
  /\ UNCHANGED <<fileVars, regVars, serviceVars, installs>>

RunRegister(r) ==
  /\ script.at = "register"
  /\ Ask(r)
  /\ script' = [script EXCEPT !.at = "registering", !.by = r]
  /\ UNCHANGED <<fileVars, serviceVars, env, installs>>

RegisterEnds ==
  /\ script.at = "registering" /\ reg[script.by].at \in {"saved", "failed"}
  /\ script' = [script EXCEPT !.by = "nobody",
                  !.at = IF reg[script.by].at = "saved" THEN "service" ELSE "died"]
  /\ UNCHANGED <<fileVars, regVars, serviceVars, env, installs>>

(* cmdServiceInstall: the unit is written, loaded and enabled. *)
ServiceInstall ==
  /\ At("service", "start")
  /\ unit' = IF unit = "missing" THEN "stopped" ELSE unit
  /\ UNCHANGED <<fileVars, regVars, wanted, loaded, synced, journal, crashes, env, installs>>

ServiceStart ==
  /\ At("start", "verify")
  /\ Start
  /\ UNCHANGED <<fileVars, regVars, env, installs>>

(* "sync OK" is looked for in the last lines of the journal. *)
Verify ==
  /\ script.at = "verify"
  /\ \E said \in BOOLEAN :
       /\ said => journal
       /\ script' = [script EXCEPT !.at = "done", !.said = said]
  /\ UNCHANGED <<fileVars, regVars, serviceVars, env, installs>>

-----------------------------------------------------------------------------
Init == /\ \E c \in Initial : file = [i \in Inode |-> IF i = 1 THEN c ELSE Partial]
        /\ credsAt \in {0, 1}
        /\ tmpAt = 0
        /\ reg = [r \in Registrar |-> [at |-> "idle", fd |-> 0, creds |-> Partial]]
        /\ issued = 0 /\ announced = Partial
        /\ unit \in {"missing", "stopped"}
        /\ wanted = FALSE
        /\ loaded = Partial
        /\ synced = FALSE /\ journal = FALSE
        /\ env \in BOOLEAN
        /\ script = [at |-> "none", smtp |-> FALSE, register |-> FALSE,
                     by |-> "nobody", said |-> FALSE]
        /\ crashes = 0 /\ installs = 0

RegisterStep(r) == OpenTmp(r) \/ WriteTmp(r) \/ Rename(r) \/ Announce(r) \/ Fails(r)

ScriptStep == \/ StopExisting \/ Download \/ ScriptDies \/ WriteEnv
              \/ \E r \in Registrar : RunRegister(r)
              \/ RegisterEnds \/ ServiceInstall \/ ServiceStart \/ Verify

Next == \/ \E r \in Registrar : RegisterByHand(r) \/ RegisterStep(r)
        \/ Load \/ TickerPanics \/ SyncOk \/ Dies \/ RestartTimer
        \/ StartByHand \/ StopByHand \/ Uninstall \/ Reboot
        \/ Begin \/ ScriptStep

Spec == Init /\ [][Next]_vars

(* systemd restarts what failed, and a process that was started gets to    *)
(* its first lines.  Nobody needs to register, install or start anything.  *)
Fairness == WF_vars(Load) /\ WF_vars(TickerPanics) /\ WF_vars(RestartTimer)

FairSpec == Spec /\ Fairness

-----------------------------------------------------------------------------
(* Properties *)

(* Every variable has its type, and the two names are of two files. *)
TypeOK ==
  /\ file \in [Inode -> Content]
  /\ credsAt \in {0} \cup Inode /\ tmpAt \in {0} \cup Inode
  /\ tmpAt # 0 => tmpAt # credsAt
  /\ reg \in [Registrar -> [at : Resting \cup {"answered", "open", "written", "renamed"},
                            fd : {0} \cup Inode, creds : Content]]
  /\ issued \in 0 .. MaxIssued /\ crashes \in 0 .. MaxCrashes /\ installs \in 0 .. MaxInstalls
  /\ unit \in {"missing", "stopped", "loading", "running", "waiting"}
  /\ loaded \in Content /\ announced \in Content
  /\ wanted \in BOOLEAN /\ synced \in BOOLEAN /\ journal \in BOOLEAN /\ env \in BOOLEAN
  /\ script \in Script

(* saveCredentials is atomic: whenever the credentials file is not the one *)
(* that was there before, it is whole, whatever register was killed and    *)
(* wherever ("atomically via temp file + rename", main.go:95).             *)
CredentialsWhole == credsAt \notin {0, 1} => file[credsAt].whole

(* What was announced is kept: the identity of the last "Agent registered  *)
(* successfully" is the one on disk, or else that of a later register      *)
(* which was killed when it had renamed its file and not yet said so; and  *)
(* this is whole.  No attempt that ends before its rename, by an error or  *)
(* by a kill, takes away what the agent runs with.                         *)
AnnouncedIsOnDisk ==
  announced # Partial =>
    /\ credsAt # 0 /\ file[credsAt].whole
    /\ file[credsAt] = announced \/ file[credsAt].id > announced.id

(* A service that was started before the agent was registered, or that     *)
(* fails later, comes up by itself: once it is to run and a register (or   *)
(* somebody who knows the format) has left its credentials, it runs.       *)
Registered == credsAt # 0 /\ (credsAt = 1 => file[1].whole /\ file[1].poll > 0)

ComesUp == <>[](wanted /\ Registered) => <>[](unit = "running")

(* Only credentials that were there before, never any that register saved, *)
(* can make time.NewTicker panic.                                          *)
SavedNeverPanics == unit = "running" /\ loaded.poll <= 0 => loaded \in Initial

(* Where the guard of a step under fairness holds, it can be taken. *)
GuardsSuffice == /\ (unit = "loading" => ENABLED <<Load>>_vars)
                 /\ (unit = "waiting" => ENABLED <<RestartTimer>>_vars)
                 /\ (unit = "running" /\ loaded.poll <= 0 => ENABLED <<TickerPanics>>_vars)

(* What install-agent.sh:190 offers: "re-registrar con nuevo token,        *)
(* mantiene config SMTP".                                                  *)
ReinstallKeepsSmtp == [][credsAt # 0 /\ env => env']_vars

(* What install-agent.sh:332 and 366 conclude from the journal: the agent  *)
(* that runs has synchronised and monitors.                                *)
VerifiedAgentHasSynced == [][script'.said /\ ~script.said => synced]_vars

(* The agent that runs when the script has registered it and ended is the  *)
(* one whose credentials the script had saved (install-agent.sh:287-300).  *)
InstalledIdentityRuns ==
  [][At("start", "verify") /\ script.register /\ unit' = "running" => loaded' = file[credsAt]]_vars
=============================================================================
