-------------------------- MODULE DeploymentProofs --------------------------
(***************************************************************************)
(* Proofs about Deployment for any number of identities, installations and *)
(* crashes.  The types hold for any number of registers at once; that the  *)
(* credentials file is whole and holds what was announced is proved, and   *)
(* true, only if registers exclude each other.                             *)
(***************************************************************************)
EXTENDS Deployment, TLAPS

(* The conjuncts of TypeOK that registers are about, and the others. *)
FilesTyped ==
  /\ file \in [Inode -> Content]
  /\ credsAt \in {0} \cup Inode /\ tmpAt \in {0} \cup Inode
  /\ tmpAt # 0 => tmpAt # credsAt
  /\ reg \in [Registrar -> [at : Resting \cup {"answered", "open", "written", "renamed"},
                            fd : {0} \cup Inode, creds : Content]]
  /\ issued \in 0 .. MaxIssued
  /\ announced \in Content

ServiceTyped ==
  /\ crashes \in 0 .. MaxCrashes /\ installs \in 0 .. MaxInstalls
  /\ unit \in {"missing", "stopped", "loading", "running", "waiting"}
  /\ loaded \in Content
  /\ wanted \in BOOLEAN /\ synced \in BOOLEAN /\ journal \in BOOLEAN /\ env \in BOOLEAN
  /\ script \in Script

(* The inode that an answered register will create is not in use: it has   *)
(* the number of an identity that was issued to this register alone.       *)
Numbered ==
  /\ credsAt <= issued + 1 /\ tmpAt <= issued + 1
  /\ \A r \in Registrar :
       reg[r].at = "answered" =>
         /\ reg[r].creds.id \in 1 .. issued
         /\ reg[r].creds.id + 1 \notin {credsAt, tmpAt}
         /\ \A s \in Registrar \ {r} :
              reg[s].at = "answered" => reg[s].creds.id # reg[r].creds.id

IInv == FilesTyped /\ ServiceTyped /\ Numbered

(* What a register that has the temporary file to itself knows of it. *)
Saving ==
  /\ tmpAt # 1
  /\ \A r \in Registrar :
       /\ reg[r].at \in {"answered", "open", "written"} => reg[r].creds.whole
       /\ reg[r].at \in {"open", "written"} => tmpAt # 0 /\ reg[r].fd = tmpAt
       /\ reg[r].at = "open" => file[tmpAt] = Partial
       /\ reg[r].at = "written" => file[tmpAt] = reg[r].creds
       /\ reg[r].at = "renamed" =>
            credsAt \notin {0, 1} /\ file[credsAt] = reg[r].creds /\ reg[r].creds.whole
       /\ reg[r].at \in {"answered", "open", "written", "renamed"} =>
            reg[r].creds.id > announced.id /\ reg[r].creds.id <= issued
  /\ announced.id <= issued

Exclusive == \A r, s \in Registrar : r = s

WInv == Saving /\ CredentialsWhole /\ AnnouncedIsOnDisk

-----------------------------------------------------------------------------
(* The steps that belong to no register: files and identities stay, and a  *)
(* register that is under way goes on or, at a restart, ends.              *)
OtherStep == \/ Load \/ TickerPanics \/ SyncOk \/ Dies \/ RestartTimer
             \/ StartByHand \/ StopByHand \/ Uninstall \/ Reboot \/ Begin
             \/ StopExisting \/ Download \/ ScriptDies \/ WriteEnv
             \/ RegisterEnds \/ ServiceInstall \/ ServiceStart \/ Verify

Cut == \A r \in Registrar : \/ reg'[r] = reg[r]
                            \/ reg'[r] = [reg[r] EXCEPT !.at = "failed"]

LEMMA PartialTyped == Partial \in Content
  BY DEF Partial, Content

LEMMA OtherStepFiles ==
  ASSUME FilesTyped, OtherStep
  PROVE  /\ UNCHANGED <<file, credsAt, tmpAt, issued, announced>>
         /\ reg' \in [Registrar -> [at : Resting \cup {"answered", "open", "written", "renamed"},
                                    fd : {0} \cup Inode, creds : Content]]
         /\ Cut
<1>1. CASE Reboot
  BY <1>1 DEF Reboot, FilesTyped, fileVars, Cut, Resting
<1>2. CASE OtherStep /\ ~Reboot
  <2>1. UNCHANGED <<fileVars, regVars>>
    BY <1>2 DEF OtherStep, Load, TickerPanics, SyncOk, Dies, RestartTimer, StartByHand,
                StopByHand, Uninstall, Begin, StopExisting, Download, ScriptDies, WriteEnv,
                RegisterEnds, ServiceInstall, ServiceStart, Verify
  <2>2. QED
    BY <2>1 DEF fileVars, regVars, FilesTyped, Cut
<1>3. QED
  BY <1>1, <1>2

LEMMA CrashCounted ==
  ASSUME crashes \in 0 .. MaxCrashes, crashes < MaxCrashes, crashes' = crashes + 1
  PROVE  crashes' \in 0 .. MaxCrashes
  BY DeploymentAssumption

LEMMA OtherStepService ==
  ASSUME FilesTyped, ServiceTyped, OtherStep
  PROVE  ServiceTyped'
<1> USE DeploymentAssumption, PartialTyped DEF ServiceTyped
<1>1. CASE Load
  BY <1>1 DEF Load, scriptVars, FilesTyped, AfterFailedLoad
<1>2. CASE TickerPanics
  BY <1>2 DEF TickerPanics, scriptVars, NoProcess
<1>3. CASE SyncOk \/ RestartTimer
  BY <1>3 DEF SyncOk, RestartTimer, scriptVars
<1>4. CASE Dies
  BY <1>4, CrashCounted DEF Dies, scriptVars, NoProcess
<1>5. CASE StartByHand
  BY <1>5 DEF StartByHand, Start, scriptVars
<1>6. CASE StopByHand
  BY <1>6 DEF StopByHand, Stop, scriptVars, NoProcess
<1>7. CASE Uninstall
  BY <1>7 DEF Uninstall, scriptVars, NoProcess
<1>8. CASE Reboot
  BY <1>8, CrashCounted DEF Reboot, NoProcess, Script
<1>9. CASE Begin
  BY <1>9 DEF Begin, serviceVars, Script
<1>10. CASE StopExisting
  BY <1>10 DEF StopExisting, At, Stop, NoProcess, serviceVars, Script
<1>11. CASE Download \/ ScriptDies
  BY <1>11 DEF Download, ScriptDies, At, serviceVars, Script
<1>12. CASE WriteEnv
  BY <1>12 DEF WriteEnv, At, serviceVars, Script
<1>13. CASE RegisterEnds
  BY <1>13 DEF RegisterEnds, serviceVars, Script
<1>14. CASE ServiceInstall
  BY <1>14 DEF ServiceInstall, At, Script
<1>15. CASE ServiceStart
  BY <1>15 DEF ServiceStart, At, Start, Script
<1>16. CASE Verify
  BY <1>16 DEF Verify, serviceVars, Script
<1>17. QED
  BY <1>1, <1>2, <1>3, <1>4, <1>5, <1>6, <1>7, <1>8, <1>9, <1>10, <1>11, <1>12, <1>13,
     <1>14, <1>15, <1>16 DEF OtherStep

-----------------------------------------------------------------------------
(* The steps of one register. *)
LEMMA BoundGrows ==
  ASSUME NEW k \in Nat, NEW n \in Nat, NEW m \in Nat, k <= n + 1, n <= m
  PROVE  k <= m + 1
  OBVIOUS

LEMMA NumberedKept ==
  ASSUME Numbered, issued \in Nat, issued' \in Nat, issued <= issued',
         credsAt' <= issued' + 1, tmpAt' <= issued' + 1,
         NEW S \in SUBSET Registrar,
         \A s \in Registrar : reg'[s].at = "answered" => s \in S,
         \A s \in S : reg'[s] = reg[s] /\ reg[s].at = "answered",
         \A s \in S : reg[s].creds.id + 1 \notin {credsAt', tmpAt'}
  PROVE  Numbered'
<1> SUFFICES ASSUME NEW s \in Registrar, reg'[s].at = "answered"
             PROVE  /\ reg'[s].creds.id \in 1 .. issued'
                    /\ reg'[s].creds.id + 1 \notin {credsAt', tmpAt'}
                    /\ \A x \in Registrar \ {s} :
                         reg'[x].at = "answered" => reg'[x].creds.id # reg'[s].creds.id
  BY DEF Numbered
<1>1. s \in S /\ reg'[s] = reg[s] /\ reg[s].at = "answered"
  OBVIOUS
<1>2. reg[s].creds.id \in 1 .. issued
  BY <1>1 DEF Numbered
<1>3. \A x \in Registrar \ {s} :
        reg'[x].at = "answered" => reg'[x].creds.id # reg'[s].creds.id
  BY <1>1 DEF Numbered
<1>4. QED
  BY <1>1, <1>2, <1>3

LEMMA AskStep ==
  ASSUME FilesTyped, Numbered, NEW r \in Registrar, Ask(r),
         UNCHANGED <<file, credsAt, tmpAt>>
  PROVE  FilesTyped' /\ Numbered'
<1>1. /\ reg[r].at \in Resting /\ issued < MaxIssued
      /\ announced' = announced
      /\ issued' \in {issued, issued + 1}
  BY DEF Ask
<1>2. CASE reg' = [reg EXCEPT ![r].at = "failed"]
  <2>1. FilesTyped'
    BY <1>1, <1>2, DeploymentAssumption DEF FilesTyped, Resting
  <2>2. \A s \in Registrar : reg'[s].at = "answered" => reg'[s] = reg[s]
    BY <1>2 DEF FilesTyped
  <2>3. issued <= issued'
    BY <1>1 DEF FilesTyped
  <2>4. issued \in Nat /\ issued' \in Nat /\ credsAt \in Nat /\ tmpAt \in Nat
    BY <1>1, DeploymentAssumption DEF FilesTyped, Inode
  <2> DEFINE S == {s \in Registrar : reg'[s].at = "answered"}
  <2>5. \A s \in S : reg'[s] = reg[s] /\ reg[s].at = "answered"
    BY <2>2
  <2>6. \A s \in S : reg[s].creds.id + 1 \notin {credsAt', tmpAt'}
    BY <2>5 DEF Numbered
  <2>7. credsAt' <= issued' + 1 /\ tmpAt' <= issued' + 1
    <3>1. credsAt <= issued + 1 /\ tmpAt <= issued + 1
      BY DEF Numbered
    <3>2. credsAt' = credsAt /\ tmpAt' = tmpAt
      OBVIOUS
    <3>3. QED
      BY <2>3, <2>4, <3>1, <3>2, BoundGrows
  <2>8. S \in SUBSET Registrar /\ \A s \in Registrar : reg'[s].at = "answered" => s \in S
    OBVIOUS
  <2>9. Numbered'
    BY <2>3, <2>4, <2>5, <2>6, <2>7, <2>8, NumberedKept
  <2>10. QED
    BY <2>1, <2>9
<1>3. ASSUME NEW p \in PollAnswers, issued' = issued + 1,
             reg' = [reg EXCEPT ![r] =
               [at |-> "answered", fd |-> 0,
                creds |-> [whole |-> TRUE, id |-> issued + 1, poll |-> PollInterval(p)]]]
      PROVE  FilesTyped' /\ Numbered'
  <2>1. [whole |-> TRUE, id |-> issued + 1, poll |-> PollInterval(p)] \in Content
    BY DeploymentAssumption DEF FilesTyped, Content, PollInterval
  <2>2. FilesTyped'
    BY <1>1, <1>3, <2>1, DeploymentAssumption DEF FilesTyped
  <2>3. \A s \in Registrar \ {r} : reg'[s] = reg[s]
    BY <1>3 DEF FilesTyped
  <2>4. reg'[r].at = "answered" /\ reg'[r].creds.id = issued + 1
    BY <1>3 DEF FilesTyped
  <2>5. Numbered'
    BY <1>1, <1>3, <2>3, <2>4 DEF Numbered, FilesTyped, Inode
  <2>6. QED
    BY <2>2, <2>5
<1>4. QED
  BY <1>2, <1>3 DEF Ask

LEMMA OpenTmpStep ==
  ASSUME FilesTyped, Numbered, NEW r \in Registrar, OpenTmp(r)
  PROVE  FilesTyped' /\ Numbered'
<1> DEFINE i == IF tmpAt = 0 THEN reg[r].creds.id + 1 ELSE tmpAt
<1>1. /\ reg[r].at = "answered"
      /\ file' = [file EXCEPT ![i] = Partial]
      /\ tmpAt' = i /\ credsAt' = credsAt
      /\ reg' = [reg EXCEPT ![r].at = "open", ![r].fd = i]
      /\ issued' = issued /\ announced' = announced
  BY DEF OpenTmp, Scratch
<1>2. i \in Inode /\ i # credsAt /\ i # 0 /\ i <= issued + 1
  BY <1>1, DeploymentAssumption, SMTT(30) DEF FilesTyped, Numbered, Inode
<1>3. FilesTyped'
  BY <1>1, <1>2, PartialTyped, ZenonT(60) DEF FilesTyped
<1>4. \A s \in Registrar \ {r} : reg'[s] = reg[s]
  BY <1>1 DEF FilesTyped
<1>5. reg'[r].at = "open"
  BY <1>1 DEF FilesTyped
<1>6. Numbered'
  <2>1. \A s \in Registrar : reg'[s].at = "answered" => reg[s].at = "answered" /\ s # r
    BY <1>4, <1>5
  <2>2. ASSUME NEW s \in Registrar, reg'[s].at = "answered"
        PROVE  i # reg[s].creds.id + 1
    <3>1. s # r /\ reg[s].at = "answered"
      BY <2>1, <2>2
    <3>2. /\ reg[s].creds.id \in 1 .. issued /\ reg[r].creds.id \in 1 .. issued
          /\ reg[s].creds.id # reg[r].creds.id /\ reg[s].creds.id + 1 # tmpAt
      BY <1>1, <3>1 DEF Numbered
    <3>3. QED
      BY <3>2
  <2>3. QED
    BY <1>1, <1>2, <1>4, <2>1, <2>2, ZenonT(60) DEF Numbered
<1>7. QED
  BY <1>3, <1>6

LEMMA OtherRegisterSteps ==
  ASSUME FilesTyped, Numbered, NEW r \in Registrar, WriteTmp(r) \/ Rename(r) \/ Announce(r) \/ Fails(r)
  PROVE  FilesTyped' /\ Numbered'
<1>1. CASE WriteTmp(r)
  <2>1. PICK c \in Content : file' = [file EXCEPT ![reg[r].fd] = c]
    BY <1>1, PartialTyped DEF WriteTmp, FilesTyped
  <2>2. reg' \in [Registrar -> [at : Resting \cup {"answered", "open", "written", "renamed"},
                               fd : {0} \cup Inode, creds : Content]]
    BY <1>1 DEF WriteTmp, FilesTyped
  <2>3. FilesTyped'
    BY <1>1, <2>1, <2>2 DEF WriteTmp, FilesTyped
  <2>4. \A s \in Registrar : reg'[s].at = "answered" => reg'[s] = reg[s]
    BY <1>1 DEF WriteTmp, FilesTyped
  <2>5. QED
    BY <1>1, <2>3, <2>4 DEF WriteTmp, Numbered
<1>2. CASE Rename(r) \/ Announce(r)
  <2>1. FilesTyped'
    BY <1>2 DEF Rename, Announce, FilesTyped, Resting, fileVars
  <2>2. \A s \in Registrar : reg'[s].at = "answered" => reg'[s] = reg[s]
    BY <1>2 DEF Rename, Announce, FilesTyped
  <2>3. credsAt' \in {credsAt, tmpAt} /\ tmpAt' \in {0, tmpAt} /\ issued' = issued
    BY <1>2 DEF Rename, Announce, fileVars
  <2>4. QED
    BY <2>1, <2>2, <2>3 DEF Numbered, FilesTyped
<1>3. CASE Fails(r)
  <2>1. FilesTyped'
    BY <1>3 DEF Fails, fileVars, FilesTyped, Resting
  <2>2. \A s \in Registrar : reg'[s].at = "answered" => reg'[s] = reg[s]
    BY <1>3 DEF Fails, FilesTyped
  <2>3. QED
    BY <1>3, <2>1, <2>2 DEF Fails, fileVars, Numbered
<1>4. QED
  BY <1>1, <1>2, <1>3

(* A register that the script runs, or that is run by hand. *)
LEMMA RegisterStepIInv ==
  ASSUME IInv, NEW r \in Registrar,
         RegisterByHand(r) \/ RunRegister(r) \/ RegisterStep(r)
  PROVE  IInv'
<1>1. CASE RegisterByHand(r)
  <2>1. FilesTyped' /\ Numbered'
    BY <1>1, AskStep DEF RegisterByHand, IInv, fileVars
  <2>2. ServiceTyped'
    BY <1>1 DEF RegisterByHand, serviceVars, scriptVars, ServiceTyped, IInv
  <2>3. QED
    BY <2>1, <2>2 DEF IInv
<1>2. CASE RunRegister(r)
  <2>1. FilesTyped' /\ Numbered'
    BY <1>2, AskStep DEF RunRegister, IInv, fileVars
  <2>2. ServiceTyped'
    BY <1>2 DEF RunRegister, serviceVars, ServiceTyped, IInv, Script
  <2>3. QED
    BY <2>1, <2>2 DEF IInv
<1>3. CASE RegisterStep(r)
  <2>1. FilesTyped' /\ Numbered'
    BY <1>3, OpenTmpStep, OtherRegisterSteps DEF RegisterStep, IInv
  <2>2. ServiceTyped'
    BY <1>3 DEF RegisterStep, OpenTmp, WriteTmp, Rename, Announce, Fails, serviceVars,
                scriptVars, ServiceTyped, IInv
  <2>3. QED
    BY <2>1, <2>2 DEF IInv
<1>4. QED
  BY <1>1, <1>2, <1>3

LEMMA OtherStepIInv ==
  ASSUME IInv, OtherStep
  PROVE  IInv'
<1>1. FilesTyped'
  BY OtherStepFiles DEF IInv, FilesTyped
<1>2. Numbered'
  <2> DEFINE S == {s \in Registrar : reg'[s].at = "answered"}
  <2>1. /\ UNCHANGED <<credsAt, tmpAt, issued>>
        /\ \A s \in S : reg'[s] = reg[s] \/ reg'[s] = [reg[s] EXCEPT !.at = "failed"]
    BY OtherStepFiles DEF IInv, Cut
  <2>2. \A s \in S : reg'[s] = reg[s] /\ reg[s].at = "answered"
    BY <2>1 DEF IInv, FilesTyped
  <2>3. /\ issued \in Nat /\ issued' \in Nat /\ issued <= issued'
        /\ credsAt' <= issued' + 1 /\ tmpAt' <= issued' + 1
    BY <2>1, DeploymentAssumption DEF IInv, FilesTyped, Numbered, Inode
  <2>4. \A s \in S : reg[s].creds.id + 1 \notin {credsAt', tmpAt'}
    BY <2>1, <2>2 DEF IInv, Numbered
  <2>5. S \in SUBSET Registrar /\ \A s \in Registrar : reg'[s].at = "answered" => s \in S
    OBVIOUS
  <2>6. QED
    BY <2>2, <2>3, <2>4, <2>5, NumberedKept DEF IInv
<1>3. ServiceTyped'
  BY OtherStepService DEF IInv
<1>4. QED
  BY <1>1, <1>2, <1>3 DEF IInv

LEMMA InitIInv == Init => IInv
<1> SUFFICES ASSUME Init PROVE IInv
  OBVIOUS
<1>1. PICK c \in Initial : file = [i \in Inode |-> IF i = 1 THEN c ELSE Partial]
  BY DEF Init
<1>2. file \in [Inode -> Content]
  BY <1>1, PartialTyped, DeploymentAssumption
<1>3. FilesTyped
  <2>1. credsAt \in {0} \cup Inode /\ tmpAt \in {0} \cup Inode /\ tmpAt = 0
    BY DeploymentAssumption DEF Init, Inode
  <2>2. reg \in [Registrar -> [at : Resting \cup {"answered", "open", "written", "renamed"},
                               fd : {0} \cup Inode, creds : Content]]
    BY PartialTyped DEF Init, Resting
  <2>3. issued \in 0 .. MaxIssued /\ announced \in Content
    BY PartialTyped, DeploymentAssumption DEF Init
  <2>4. QED
    BY <1>2, <2>1, <2>2, <2>3 DEF FilesTyped
<1>4. ServiceTyped
  <2>1. wanted \in BOOLEAN /\ synced \in BOOLEAN /\ journal \in BOOLEAN /\ env \in BOOLEAN
    BY Zenon DEF Init
  <2>2. crashes \in 0 .. MaxCrashes /\ installs \in 0 .. MaxInstalls
    BY DeploymentAssumption DEF Init
  <2>3. /\ loaded \in Content
        /\ unit \in {"missing", "stopped", "loading", "running", "waiting"}
    BY PartialTyped DEF Init
  <2>4. script \in Script
    BY DEF Init, Script
  <2>5. QED
    BY <2>1, <2>2, <2>3, <2>4 DEF ServiceTyped
<1>5. Numbered
  BY DEF Init, Numbered
<1>6. QED
  BY <1>3, <1>4, <1>5 DEF IInv

LEMMA SplitNext == Next => \/ OtherStep
                           \/ \E r \in Registrar : \/ RegisterByHand(r) \/ RunRegister(r)
                                                   \/ RegisterStep(r)
  BY DEF Next, ScriptStep, OtherStep

LEMMA NextIInv == IInv /\ [Next]_vars => IInv'
<1> SUFFICES ASSUME IInv, [Next]_vars PROVE IInv'
  OBVIOUS
<1>1. CASE UNCHANGED vars
  BY <1>1 DEF vars, fileVars, regVars, serviceVars, scriptVars, IInv, FilesTyped,
              ServiceTyped, Numbered
<1>2. CASE Next
  BY <1>2, SplitNext, RegisterStepIInv, OtherStepIInv
<1>3. QED
  BY <1>1, <1>2

-----------------------------------------------------------------------------
(* Registers that exclude each other. *)
LEMMA RegisterWInv ==
  ASSUME Exclusive, IInv, WInv, NEW r \in Registrar,
         RegisterByHand(r) \/ RunRegister(r) \/ RegisterStep(r)
  PROVE  WInv'
<1>1. Registrar = {r}
  BY DEF Exclusive
<1>2. CASE Ask(r) /\ UNCHANGED fileVars
  <2>1. /\ UNCHANGED <<file, credsAt, tmpAt, announced>>
        /\ issued \in Nat /\ issued' \in {issued, issued + 1} /\ announced.id \in Nat
    BY <1>2, DeploymentAssumption DEF Ask, fileVars, IInv, FilesTyped, Content
  <2>2. \/ reg'[r].at = "failed"
        \/ /\ reg'[r].at = "answered" /\ reg'[r].creds.whole
           /\ reg'[r].creds.id = issued + 1 /\ issued' = issued + 1
    BY <1>2 DEF Ask, IInv, FilesTyped
  <2>3. announced.id <= issued /\ announced.id < issued + 1
    BY <2>1 DEF WInv, Saving
  <2>4. Saving'
    BY <1>1, <2>1, <2>2, <2>3 DEF WInv, Saving
  <2>5. QED
    BY <2>1, <2>4 DEF WInv, CredentialsWhole, AnnouncedIsOnDisk
<1>3. CASE OpenTmp(r)
  <2>1. PICK i \in Inode : /\ i # credsAt /\ i # 0 /\ i # 1
                           /\ file' = [file EXCEPT ![i] = Partial]
                           /\ tmpAt' = i /\ UNCHANGED <<credsAt, announced, issued>>
                           /\ reg' = [reg EXCEPT ![r].at = "open", ![r].fd = i]
    <3> DEFINE i == IF tmpAt = 0 THEN reg[r].creds.id + 1 ELSE tmpAt
    <3>1. i \in Inode /\ i # credsAt /\ i # 0 /\ i # 1
      BY <1>3, DeploymentAssumption DEF OpenTmp, Scratch, IInv, FilesTyped, Numbered, Inode,
                                        WInv, Saving
    <3>2. QED
      BY <1>3, <3>1 DEF OpenTmp, Scratch
  <2>2. /\ reg'[r].at = "open" /\ reg'[r].fd = i
        /\ reg'[r].creds = reg[r].creds /\ reg[r].creds.whole /\ reg[r].at = "answered"
    BY <1>3, <2>1 DEF OpenTmp, IInv, FilesTyped, WInv, Saving
  <2>3. file'[i] = Partial /\ (credsAt # 0 => file'[credsAt] = file[credsAt])
    BY <2>1 DEF IInv, FilesTyped
  <2>4. QED
    BY <1>1, <2>1, <2>2, <2>3 DEF WInv, Saving, CredentialsWhole, AnnouncedIsOnDisk
<1>4. CASE WriteTmp(r)
  <2>1. /\ reg[r].at = "open" /\ reg[r].fd = tmpAt /\ tmpAt \in Inode /\ tmpAt # credsAt
        /\ file[reg[r].fd] = Partial
    BY <1>4 DEF WriteTmp, WInv, Saving, IInv, FilesTyped
  <2>2. /\ file' = [file EXCEPT ![tmpAt] = reg[r].creds]
        /\ UNCHANGED <<credsAt, tmpAt, announced, issued>>
    BY <1>4, <2>1 DEF WriteTmp
  <2>3. /\ reg'[r].at = "written" /\ reg'[r].creds = reg[r].creds /\ reg'[r].fd = reg[r].fd
        /\ reg[r].creds.whole
    BY <1>4 DEF WriteTmp, IInv, FilesTyped, WInv, Saving
  <2>4. file'[tmpAt] = reg[r].creds /\ (credsAt # 0 => file'[credsAt] = file[credsAt])
    BY <2>1, <2>2 DEF IInv, FilesTyped
  <2>5. QED
    BY <1>1, <2>1, <2>2, <2>3, <2>4 DEF WInv, Saving, CredentialsWhole, AnnouncedIsOnDisk, IInv, FilesTyped
<1>5. CASE Rename(r)
  <2>1. /\ reg[r].at = "written" /\ tmpAt # 0 /\ file[tmpAt] = reg[r].creds
        /\ reg[r].creds.whole
    BY <1>5 DEF Rename, WInv, Saving
  <2>2. /\ credsAt' = tmpAt /\ tmpAt' = 0 /\ file' = file
        /\ reg' = [reg EXCEPT ![r].at = "renamed"] /\ UNCHANGED <<announced, issued>>
    BY <1>5, <2>1 DEF Rename
  <2>3. reg'[r].at = "renamed" /\ reg'[r].creds = reg[r].creds
    BY <2>2 DEF IInv, FilesTyped
  <2>4. QED
    BY <1>1, <2>1, <2>2, <2>3 DEF WInv, Saving, CredentialsWhole, AnnouncedIsOnDisk
<1>6. CASE Announce(r)
  <2>1. /\ reg[r].at = "renamed" /\ credsAt # 0 /\ file[credsAt] = reg[r].creds
        /\ reg[r].creds.whole
    BY <1>6 DEF Announce, WInv, Saving
  <2>2. /\ UNCHANGED <<file, credsAt, tmpAt, issued>> /\ announced' = reg[r].creds
        /\ reg'[r].at = "saved"
    BY <1>6 DEF Announce, fileVars, IInv, FilesTyped
  <2>3. reg[r].creds.id <= issued
    BY <2>1 DEF WInv, Saving
  <2>4. QED
    BY <1>1, <2>1, <2>2, <2>3 DEF WInv, Saving, CredentialsWhole, AnnouncedIsOnDisk
<1>7. CASE Fails(r)
  <2>1. /\ reg'[r].at = "failed"
        /\ UNCHANGED <<file, credsAt, tmpAt, announced, issued>>
    BY <1>7 DEF Fails, fileVars, IInv, FilesTyped
  <2>2. QED
    BY <1>1, <2>1 DEF WInv, Saving, CredentialsWhole, AnnouncedIsOnDisk
<1>8. QED
  BY <1>2, <1>3, <1>4, <1>5, <1>6, <1>7 DEF RegisterByHand, RunRegister, RegisterStep

LEMMA OtherStepWInv ==
  ASSUME IInv, WInv, OtherStep
  PROVE  WInv'
<1>1. UNCHANGED <<file, credsAt, tmpAt, announced, issued>> /\ Cut
  BY OtherStepFiles DEF IInv
<1>2. \A r \in Registrar :
        reg'[r].at \in {"answered", "open", "written", "renamed"} => reg'[r] = reg[r]
  BY <1>1 DEF Cut, IInv, FilesTyped
<1>3. QED
  BY <1>1, <1>2 DEF WInv, Saving, CredentialsWhole, AnnouncedIsOnDisk

LEMMA InitWInv == Init => WInv
  BY DEF Init, WInv, Saving, CredentialsWhole, AnnouncedIsOnDisk, Partial

LEMMA NextWInv == Exclusive /\ IInv /\ WInv /\ [Next]_vars => WInv'
<1> SUFFICES ASSUME Exclusive, IInv, WInv, [Next]_vars PROVE WInv'
  OBVIOUS
<1>1. CASE UNCHANGED vars
  BY <1>1 DEF vars, fileVars, regVars, WInv, Saving, CredentialsWhole, AnnouncedIsOnDisk
<1>2. CASE Next
  BY <1>2, SplitNext, RegisterWInv, OtherStepWInv
<1>3. QED
  BY <1>1, <1>2

-----------------------------------------------------------------------------
THEOREM DeploymentInvariant == Spec => []IInv
  BY InitIInv, NextIInv, PTL DEF Spec

(* The variables of registration, service and script keep their types, and *)
(* credentials.json and its .tmp are never one file, however many          *)
(* registers run.                                                          *)
THEOREM DeploymentTyped == Spec => []TypeOK
<1>1. IInv => TypeOK
  BY DEF IInv, FilesTyped, ServiceTyped, TypeOK
<1>2. QED
  BY <1>1, DeploymentInvariant, PTL

(* Where registers exclude each other, no death of one leaves a damaged    *)
(* credentials file.                                                       *)
THEOREM ExclusiveRegisterIsAtomic == ASSUME Exclusive PROVE Spec => []CredentialsWhole
<1>1. IInv /\ WInv /\ [Next]_vars => WInv'
  BY NextWInv
<1>2. WInv => CredentialsWhole
  BY DEF WInv
<1>3. QED
  BY <1>1, <1>2, InitWInv, DeploymentInvariant, PTL DEF Spec

(* Where registers exclude each other, the identity last announced as      *)
(* registered is the one on disk, or a later one is whose register was     *)
(* killed between its rename and its announcement; wherever registers fail *)
(* or are killed, what is on disk is whole.                                *)
THEOREM ExclusiveRegisterKeepsItsWord == ASSUME Exclusive PROVE Spec => []AnnouncedIsOnDisk
<1>1. IInv /\ WInv /\ [Next]_vars => WInv'
  BY NextWInv
<1>2. WInv => AnnouncedIsOnDisk
  BY DEF WInv
<1>3. QED
  BY <1>1, <1>2, InitWInv, DeploymentInvariant, PTL DEF Spec

-----------------------------------------------------------------------------
(* What is saved has a positive interval, by however many registers, and   *)
(* the file that was there before is written by none.                      *)
SavesPositive ==
  /\ tmpAt # 1
  /\ file[1] \in Initial
  /\ \A i \in Inode \ {1} : file[i].whole => file[i].poll > 0
  /\ \A r \in Registrar :
       /\ reg[r].at \in {"answered", "open", "written"} => reg[r].creds.poll > 0
       /\ reg[r].at \in {"open", "written"} => reg[r].fd \in Inode \ {1}

(* A service that is to run is under the care of systemd. *)
Supervised == wanted => unit \in {"loading", "running", "waiting"}

SInv == SavesPositive /\ Supervised /\ SavedNeverPanics

LEMMA RegisterSavesPositive ==
  ASSUME IInv, SavesPositive, NEW r \in Registrar,
         RegisterByHand(r) \/ RunRegister(r) \/ RegisterStep(r)
  PROVE  SavesPositive'
<1> USE DEF SavesPositive
<1>1. /\ reg \in [Registrar -> [at : Resting \cup {"answered", "open", "written", "renamed"},
                                fd : {0} \cup Inode, creds : Content]]
      /\ file \in [Inode -> Content] /\ 1 \in Inode
  BY DeploymentAssumption DEF IInv, FilesTyped, Inode
<1>2. CASE Ask(r) /\ UNCHANGED fileVars
  <2>1. UNCHANGED <<file, tmpAt>>
    BY <1>2 DEF fileVars
  <2>2. \A s \in Registrar \ {r} : reg'[s] = reg[s]
    BY <1>1, <1>2 DEF Ask
  <2>3. \/ reg'[r].at = "failed"
        \/ reg'[r].at = "answered" /\ reg'[r].creds.poll > 0
    <3>1. ASSUME NEW p \in PollAnswers,
                 reg' = [reg EXCEPT ![r] =
                   [at |-> "answered", fd |-> 0,
                    creds |-> [whole |-> TRUE, id |-> issued + 1, poll |-> PollInterval(p)]]]
          PROVE  reg'[r].at = "answered" /\ reg'[r].creds.poll > 0
      <4>1. PollInterval(p) > 0
        BY DeploymentAssumption DEF PollInterval
      <4>2. QED
        BY <1>1, <3>1, <4>1
    <3>2. reg' = [reg EXCEPT ![r].at = "failed"] => reg'[r].at = "failed"
      BY <1>1
    <3>3. QED
      BY <1>2, <3>1, <3>2 DEF Ask
  <2>4. QED
    BY <2>1, <2>2, <2>3
<1>3. CASE OpenTmp(r)
  <2>1. PICK i \in Inode \ {1} : /\ file' = [file EXCEPT ![i] = Partial]
                                /\ tmpAt' = i
                                /\ reg' = [reg EXCEPT ![r].at = "open", ![r].fd = i]
    <3> DEFINE i == IF tmpAt = 0 THEN reg[r].creds.id + 1 ELSE tmpAt
    <3>1. i \in Inode \ {1}
      BY <1>3, DeploymentAssumption DEF OpenTmp, Scratch, IInv, FilesTyped, Numbered, Inode
    <3>2. QED
      BY <1>3, <3>1 DEF OpenTmp, Scratch
  <2>2. /\ reg'[r].at = "open" /\ reg'[r].fd = i /\ reg'[r].creds = reg[r].creds
        /\ \A s \in Registrar \ {r} : reg'[s] = reg[s]
        /\ reg[r].at = "answered"
    BY <1>1, <1>3, <2>1 DEF OpenTmp
  <2>3. file'[i] = Partial /\ ~Partial.whole /\ \A x \in Inode \ {i} : file'[x] = file[x]
    BY <1>1, <2>1 DEF Partial
  <2>4. QED
    BY <1>1, <2>1, <2>2, <2>3
<1>4. CASE WriteTmp(r)
  <2> DEFINE i == reg[r].fd
  <2>1. PICK c \in {reg[r].creds, Partial} : file' = [file EXCEPT ![i] = c]
    BY <1>4 DEF WriteTmp
  <2>2. /\ reg'[r].at = "written" /\ reg'[r].fd = i /\ reg'[r].creds = reg[r].creds
        /\ \A s \in Registrar \ {r} : reg'[s] = reg[s]
        /\ reg[r].at = "open" /\ tmpAt' = tmpAt
    BY <1>1, <1>4 DEF WriteTmp
  <2>3. i \in Inode \ {1}
    BY <2>2
  <2>4. /\ file'[i] = c /\ \A x \in Inode \ {i} : file'[x] = file[x]
        /\ c.whole => c.poll > 0
    BY <1>1, <2>1, <2>2, <2>3 DEF Partial
  <2>5. QED
    BY <1>1, <2>2, <2>3, <2>4
<1>5. CASE Rename(r) \/ Announce(r) \/ Fails(r)
  <2>1. /\ file' = file /\ tmpAt' \in {0, tmpAt}
        /\ reg'[r].at \in {"renamed", "saved", "failed"}
        /\ \A s \in Registrar \ {r} : reg'[s] = reg[s]
    BY <1>1, <1>5 DEF Rename, Announce, Fails, fileVars
  <2>2. QED
    BY <1>1, <2>1
<1>6. QED
  BY <1>2, <1>3, <1>4, <1>5 DEF RegisterByHand, RunRegister, RegisterStep

LEMMA RegisterStepUnit ==
  ASSUME NEW r \in Registrar, RegisterByHand(r) \/ RunRegister(r) \/ RegisterStep(r)
  PROVE  UNCHANGED <<unit, wanted, loaded>>
  BY DEF RegisterByHand, RunRegister, RegisterStep, OpenTmp, WriteTmp, Rename, Announce, Fails,
         serviceVars

LEMMA OtherSavesPositive ==
  ASSUME IInv, SavesPositive, OtherStep
  PROVE  SavesPositive'
<1>1. UNCHANGED <<file, tmpAt>> /\ Cut
  BY OtherStepFiles DEF IInv
<1>2. \A r \in Registrar :
        reg'[r].at \in {"answered", "open", "written"} => reg'[r] = reg[r]
  BY <1>1 DEF Cut, IInv, FilesTyped
<1>3. QED
  BY <1>1, <1>2 DEF SavesPositive

(* What happens to the service. *)
LEMMA UnitMoves ==
  ASSUME OtherStep
  PROVE  \/ UNCHANGED <<unit, wanted, loaded>>
         \/ Load
         \/ wanted' = wanted /\ loaded' = Partial /\ unit = "running" /\ unit' = "waiting"
         \/ wanted' = wanted /\ loaded' = loaded /\ unit = "waiting" /\ unit' = "loading"
         \/ wanted' = TRUE /\ loaded' = loaded /\ unit # "missing"
            /\ unit' = (IF unit \in {"stopped", "waiting"} THEN "loading" ELSE unit)
         \/ wanted' = FALSE /\ unit' \in {"stopped", "missing"}
         \/ Reboot
         \/ wanted' = wanted /\ loaded' = loaded /\ unit = "missing" /\ unit' = "stopped"
  BY DEF OtherStep, TickerPanics, SyncOk, Dies, RestartTimer, StartByHand, StopByHand,
         Start, Stop, NoProcess, Uninstall, Begin, StopExisting, Download, ScriptDies,
         WriteEnv, RegisterEnds, ServiceInstall, ServiceStart, Verify, serviceVars, At

LEMMA LoadsFile ==
  ASSUME Load
  PROVE  /\ wanted' = wanted /\ unit = "loading"
         /\ \/ /\ credsAt # 0 /\ file[credsAt].whole
               /\ unit' = "running" /\ loaded' = file[credsAt]
            \/ /\ ~(credsAt # 0 /\ file[credsAt].whole)
               /\ unit' = "waiting" /\ loaded' = loaded
  BY DEF Load, AfterFailedLoad

(* What is loaded was saved, or was there before. *)
LEMMA LoadedPoll ==
  ASSUME IInv, SavesPositive, credsAt # 0, file[credsAt].whole
  PROVE  file[credsAt].poll > 0 \/ file[credsAt] \in Initial
<1>1. credsAt \in Inode
  BY DEF IInv, FilesTyped
<1>2. QED
  BY <1>1 DEF SavesPositive

LEMMA ServiceStep ==
  ASSUME IInv, SInv, OtherStep
  PROVE  Supervised' /\ SavedNeverPanics'
<1> USE DEF SInv, Supervised, SavedNeverPanics
<1>1. CASE Load
  BY <1>1, LoadsFile, LoadedPoll DEF IInv, FilesTyped, Content
<1>2. CASE Reboot
  BY <1>2 DEF Reboot, NoProcess, IInv, ServiceTyped
<1>3. CASE UNCHANGED <<unit, wanted, loaded>>
  BY <1>3
<1>4. CASE wanted' = FALSE /\ unit' \in {"stopped", "missing"}
  BY <1>4
<1>5. CASE \/ wanted' = wanted /\ loaded' = Partial /\ unit = "running" /\ unit' = "waiting"
           \/ wanted' = wanted /\ loaded' = loaded /\ unit = "waiting" /\ unit' = "loading"
           \/ wanted' = TRUE /\ loaded' = loaded /\ unit # "missing"
              /\ unit' = (IF unit \in {"stopped", "waiting"} THEN "loading" ELSE unit)
           \/ wanted' = wanted /\ loaded' = loaded /\ unit = "missing" /\ unit' = "stopped"
  BY <1>5 DEF IInv, ServiceTyped
<1>6. QED
  BY <1>1, <1>2, <1>3, <1>4, <1>5, UnitMoves

LEMMA InitSInv == Init => SInv
<1> SUFFICES ASSUME Init PROVE SInv
  OBVIOUS
<1>1. PICK c \in Initial : file = [i \in Inode |-> IF i = 1 THEN c ELSE Partial]
  BY DEF Init
<1>2. 1 \in Inode /\ ~Partial.whole
  BY DeploymentAssumption DEF Inode, Partial
<1>3. SavesPositive
  BY <1>1, <1>2 DEF Init, SavesPositive
<1>4. Supervised /\ SavedNeverPanics
  BY DEF Init, Supervised, SavedNeverPanics
<1>5. QED
  BY <1>3, <1>4 DEF SInv

LEMMA NextSInv == IInv /\ SInv /\ [Next]_vars => SInv'
<1> SUFFICES ASSUME IInv, SInv, [Next]_vars PROVE SInv'
  OBVIOUS
<1>1. CASE UNCHANGED vars
  BY <1>1 DEF vars, fileVars, regVars, serviceVars, scriptVars, SInv, SavesPositive,
              Supervised, SavedNeverPanics
<1>2. CASE OtherStep
  BY <1>2, OtherSavesPositive, ServiceStep DEF SInv
<1>3. ASSUME NEW r \in Registrar,
             RegisterByHand(r) \/ RunRegister(r) \/ RegisterStep(r)
      PROVE  SInv'
  BY <1>3, RegisterSavesPositive, RegisterStepUnit DEF SInv, Supervised, SavedNeverPanics
<1>4. QED
  BY <1>1, <1>2, <1>3, SplitNext

(* However many registers run at once and wherever they are killed: the    *)
(* interval of an agent whose ticker panics is of the file that was there  *)
(* before, for cmdRegister replaces one that is not positive.              *)
THEOREM SavedCredentialsNeverPanic == Spec => []SavedNeverPanics
<1>1. SInv => SavedNeverPanics
  BY DEF SInv
<1>2. QED
  BY <1>1, InitSInv, NextSInv, DeploymentInvariant, PTL DEF Spec

-----------------------------------------------------------------------------
(* The way of a service that is to run and is registered. *)
Ready    == wanted /\ Registered
Waiting  == unit = "waiting"
Loading  == unit = "loading"
Panicked == unit = "running" /\ loaded.poll <= 0
Up       == unit = "running" /\ loaded.poll > 0

(* Neither the agent nor the machine dies in this step. *)
Survives == ~Dies /\ ~Reboot

LEMMA ReadyState ==
  ASSUME IInv, SInv, Ready
  PROVE  Waiting \/ Loading \/ Panicked \/ Up
<1>1. loaded.poll \in Int
  BY DEF IInv, ServiceTyped, Content
<1>2. QED
  BY <1>1 DEF SInv, Supervised, Ready, Waiting, Loading, Panicked, Up

LEMMA ReadyLoads ==
  ASSUME IInv, WInv, SInv, Ready, Load
  PROVE  Up'
<1>1. credsAt \in Inode /\ file[credsAt].whole
  BY DEF Ready, Registered, WInv, CredentialsWhole, IInv, FilesTyped
<1>2. file[credsAt].poll > 0
  BY <1>1 DEF Ready, Registered, SInv, SavesPositive
<1>3. credsAt # 0
  BY DEF Ready, Registered
<1>4. QED
  BY <1>1, <1>2, <1>3, LoadsFile DEF Up

LEMMA ReadyStep ==
  ASSUME IInv, WInv, SInv, Ready, Ready', [Next]_vars, [Survives]_vars
  PROVE  /\ Waiting  => Waiting' \/ Loading'
         /\ Loading  => Loading' \/ Up'
         /\ Panicked => Panicked' \/ Waiting'
         /\ Up       => Up'
<1> USE DEF Waiting, Loading, Panicked, Up
<1>1. CASE UNCHANGED <<unit, loaded>>
  BY <1>1
<1>2. CASE OtherStep /\ Survives
  <2>1. wanted' /\ unit \in {"loading", "running", "waiting"}
    BY DEF Ready, SInv, Supervised
  <2>2. CASE Load
    BY <2>2, ReadyLoads, LoadsFile
  <2>3. CASE TickerPanics
    <3>1. loaded.poll \in Int
      BY DEF IInv, ServiceTyped, Content
    <3>2. QED
      BY <2>3, <3>1 DEF TickerPanics
  <2>4. CASE RestartTimer
    BY <2>4 DEF RestartTimer
  <2>5. CASE StartByHand \/ ServiceStart
    BY <2>1, <2>5 DEF StartByHand, ServiceStart, Start
  <2>6. CASE SyncOk \/ Begin \/ Download \/ ScriptDies \/ WriteEnv \/ RegisterEnds \/ Verify
    BY <2>6 DEF SyncOk, Begin, Download, ScriptDies, WriteEnv, RegisterEnds, Verify, serviceVars
  <2>7. CASE ServiceInstall
    BY <2>1, <2>7 DEF ServiceInstall
  <2>8. CASE StopByHand \/ Uninstall
    BY <2>1, <2>8 DEF StopByHand, Uninstall, Stop
  <2>9. CASE StopExisting
    BY <2>1, <2>9 DEF StopExisting, Stop, serviceVars
  <2>10. QED
    BY <1>2, <2>2, <2>3, <2>4, <2>5, <2>6, <2>7, <2>8, <2>9 DEF OtherStep, Survives
<1>3. CASE UNCHANGED vars
  BY <1>1, <1>3 DEF vars, serviceVars
<1>4. ASSUME NEW r \in Registrar,
             RegisterByHand(r) \/ RunRegister(r) \/ RegisterStep(r)
      PROVE  UNCHANGED <<unit, loaded>>
  BY <1>4, RegisterStepUnit
<1>5. QED
  BY <1>1, <1>2, <1>3, <1>4, SplitNext

LEMMA ServiceMoves ==
  ASSUME IInv, WInv, SInv, Ready
  PROVE  /\ Load => ~Loading'
         /\ RestartTimer => ~Waiting'
         /\ TickerPanics => ~Panicked'
<1>1. Load => ~Loading'
  BY ReadyLoads DEF Up, Loading
<1>2. (RestartTimer => ~Waiting') /\ (TickerPanics => ~Panicked')
  BY DEF RestartTimer, TickerPanics, Waiting, Panicked
<1>3. QED
  BY <1>1, <1>2

(* A service that is to run comes up and stays up once there are           *)
(* credentials that a register, alone at its time, has saved, or somebody  *)
(* who knows the format, provided that agent and machine die no more: in   *)
(* whatever state it was, after a panic of its ticker too, and whatever    *)
(* the script and further registers do.  GuardsSuffice stands for what the *)
(* prover cannot expand, that the steps under fairness are enabled where   *)
(* their guards hold.                                                      *)
THEOREM ExclusiveComesUp ==
  ASSUME Exclusive
  PROVE  FairSpec /\ []GuardsSuffice /\ <>[][Survives]_vars => ComesUp
<1>1. IInv /\ WInv /\ [Next]_vars => WInv'
  BY NextWInv
<1>2. IInv /\ SInv /\ Ready => Waiting \/ Loading \/ Panicked \/ Up
  BY ReadyState
<1>3. IInv /\ WInv /\ SInv /\ Ready /\ Ready' /\ [Next]_vars /\ [Survives]_vars =>
        /\ Waiting  => Waiting' \/ Loading'
        /\ Loading  => Loading' \/ Up'
        /\ Panicked => Panicked' \/ Waiting'
        /\ Up       => Up'
  BY ReadyStep
<1>4. IInv /\ WInv /\ SInv /\ Ready /\ <<Load>>_vars => ~Loading'
  BY ServiceMoves
<1>5. IInv /\ WInv /\ SInv /\ Ready /\ <<RestartTimer>>_vars => ~Waiting'
  BY ServiceMoves
<1>6. IInv /\ WInv /\ SInv /\ Ready /\ <<TickerPanics>>_vars => ~Panicked'
  BY ServiceMoves
<1>7. /\ unit = "loading" <=> Loading
      /\ unit = "waiting" <=> Waiting
      /\ (unit = "running" /\ loaded.poll <= 0) <=> Panicked
      /\ Up => unit = "running"
      /\ wanted /\ Registered <=> Ready
  BY DEF Loading, Waiting, Panicked, Up, Ready
<1>8. QED
  BY <1>1, <1>2, <1>3, <1>4, <1>5, <1>6, <1>7, InitWInv, InitSInv, NextSInv,
     DeploymentInvariant, PTL
     DEF FairSpec, Spec, Fairness, GuardsSuffice, ComesUp

=============================================================================
