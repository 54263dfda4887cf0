----------------------------- MODULE Provision -----------------------------
(***************************************************************************)
(* The owner's credential commands: add, rotate, disable, remove-user.     *)
(*                                                                         *)
(* One command changes four things that no transaction spans: sing-box's   *)
(* configuration file, the credentials the running process has loaded, the *)
(* client YAML files and the credentials table.  Manager.Execute applies   *)
(* them in an order of its own, verifies the restarted process, commits    *)
(* SQLite last and rolls the rest back when a step fails.  Any step may    *)
(* fail, the command may be killed between any two of them, and sing-box   *)
(* may stop, and be started again by systemd, at any time.                 *)
(*                                                                         *)
(* A user's device is the YAML file named after it: two credentials of one *)
(* user with the same display name have the same file.                     *)
(***************************************************************************)
EXTENDS Naturals, FiniteSets

CONSTANTS
  Credential,   \* UUIDs ever generated, with their Stats names
  User,         \* registered users
  File,         \* names in the YAML output directory
  Owner,        \* the user of a credential
  YamlFile,     \* "<user>-<display name>.yaml" of a credential
  Command       \* processes that run Manager.Execute

ASSUME OwnerAssumption == Owner \in [Credential -> User]
ASSUME YamlFileAssumption == YamlFile \in [Credential -> File]
ASSUME CommandAssumption == "free" \notin Command

VARIABLES
  lock,      \* holder of the global operations lock
  row,       \* credentials: absent, enabled or revoked
  config,    \* users of the tagged inbound in the configuration file
  up,        \* a sing-box process is running
  loaded,    \* the users it has loaded
  exposed,   \* those its Stats API already has counters for
  newPid,    \* MainPID differs from the one the command read last
  yaml,      \* client YAML files in the output directory
  saved,     \* client YAML files staged in the rollback directories
  issued,    \* the order in which UUIDs were generated: <<c, d>>, c not after d
  pc,        \* where each command stands
  cmd,       \* its local variables
  drift      \* history: a command died or failed to roll back

service == <<up, loaded, exposed, newPid>>
files == <<config, yaml, saved>>
vars == <<lock, row, service, files, issued, pc, cmd, drift>>

-----------------------------------------------------------------------------
(* Values *)

\* A file holds the UUID of one credential.
Item == [file : File, of : Credential]
YamlOf(c) == [file |-> YamlFile[c], of |-> c]

\* old and new: credentials to revoke, to add; original: users of the
\* configuration read at the start; todo: files left to stage; staged: files
\* moved away, kept in memory too; fault: a restoring step has failed; before
\* (history): the output directory at the start.
Local == [old : SUBSET Credential, new : SUBSET Credential, original : SUBSET Credential,
          todo : SUBSET Credential, staged : SUBSET Item, fault : BOOLEAN,
          before : SUBSET Item]
NoLocal == [old |-> {}, new |-> {}, original |-> {}, todo |-> {}, staged |-> {},
            fault |-> FALSE, before |-> {}]

Begun(old, new) == [old |-> old, new |-> new, original |-> config, todo |-> old,
                    staged |-> {}, fault |-> FALSE, before |-> yaml]

Stages == {"idle", "accepted", "staging", "replaced", "restarted", "verified", "applied",
           "published", "committed", "rollback", "restored", "reloaded", "cleaning",
           "unstaging", "failed"}

\* Where a killed command leaves its four targets out of step.
Halfway == {"replaced", "restarted", "verified", "applied", "published",
            "rollback", "restored", "reloaded", "cleaning", "unstaging"}

Enabled == {c \in Credential : row[c] = "enabled"}
SameDevice(c, d) == Owner[c] = Owner[d] /\ YamlFile[c] = YamlFile[d]

\* BuildCoreCandidate: remove and add users, in the inbound and in Stats.
Candidate(p) == (cmd[p].original \ cmd[p].old) \cup cmd[p].new

\* Rows are numbered as they are added, which the lock keeps in this order.
Orders(C) == {r \in SUBSET (C \X C) :
                /\ \A c, d \in C : <<c, d>> \in r \/ <<d, c>> \in r
                /\ \A c, d \in C : (<<c, d>> \in r /\ <<d, c>> \in r) => c = d
                /\ \A c, d, e \in C : (<<c, d>> \in r /\ <<d, e>> \in r) => <<c, e>> \in r}
Issued == {c \in Credential : <<c, c>> \in issued}
Issue(new) == issued' = issued \cup ((Issued \cup new) \X new)

Goto(p, stage) == pc' = [pc EXCEPT ![p] = stage]

-----------------------------------------------------------------------------
\* An installation whose database, configuration and service agree, with the
\* YAML files the owner has kept.
Init ==
  /\ lock = "free"
  /\ row \in [Credential -> {"absent", "enabled"}]
  /\ \A c, d \in Enabled : SameDevice(c, d) => c = d
  /\ config = Enabled
  /\ up = TRUE
  /\ loaded = Enabled
  /\ exposed = {}
  /\ newPid = FALSE
  /\ yaml \in {{}, {YamlOf(c) : c \in Enabled}}
  /\ \A i, j \in yaml : i.file = j.file => i = j
  /\ saved = {}
  /\ issued \in Orders(Enabled)
  /\ pc = [p \in Command |-> "idle"]
  /\ cmd = [p \in Command |-> NoLocal]
  /\ drift = FALSE

-----------------------------------------------------------------------------
(* sing-box, its clients and the owner *)

Stop ==
  /\ up
  /\ up' = FALSE
  /\ loaded' = {}
  /\ exposed' = {}
  /\ UNCHANGED <<lock, row, newPid, files, issued, pc, cmd, drift>>

\* A new process reads the configuration file as it is now.
Load ==
  /\ up' = TRUE
  /\ loaded' = config
  /\ exposed' = {}
  /\ newPid' = TRUE

\* systemd's Restart=, or a reboot.
Start ==
  /\ ~up
  /\ Load
  /\ UNCHANGED <<lock, row, files, issued, pc, cmd, drift>>

\* A client's first bytes create its counter.
Traffic(c) ==
  /\ c \in loaded \ exposed
  /\ exposed' = exposed \cup {c}
  /\ UNCHANGED <<lock, row, up, loaded, newPid, files, issued, pc, cmd, drift>>

\* The owner moves a YAML file to the client device.
TakeYaml(i) ==
  /\ lock = "free"
  /\ i \in yaml
  /\ yaml' = yaml \ {i}
  /\ UNCHANGED <<lock, row, service, config, saved, issued, pc, cmd, drift>>

-----------------------------------------------------------------------------
(* Preparing: nothing but the rollback point and temporary files is written *)

\* ActiveCredential and ActiveCredentials: one active credential, or all of a user.
Targets == {{c} : c \in Enabled} \cup
           ({{c \in Enabled : Owner[c] = u} : u \in User} \ {{}})

\* A fresh UUID for a device; a rotation stays with the user.
Fresh(old) == {c \in Credential \ Issued : \A a \in old : Owner[a] = Owner[c]}

\* Fault: the global lock is not taken.
AcceptUnlocked(p, old, new) ==
  /\ pc[p] = "idle"
  /\ lock' = p
  /\ old \subseteq config /\ new \cap config = {}
  /\ Issue(new)
  /\ Goto(p, "accepted")
  /\ cmd' = [cmd EXCEPT ![p] = Begun(old, new)]
  /\ UNCHANGED <<row, service, files, drift>>

\* A busy lock, or a candidate that cannot be built, refuses the request: no step.
Accept(p, old, new) ==
  /\ pc[p] = "idle"
  /\ lock = "free"
  /\ lock' = p
  /\ old \subseteq config /\ new \cap config = {}
  /\ Issue(new)
  /\ Goto(p, "accepted")
  /\ cmd' = [cmd EXCEPT ![p] = Begun(old, new)]
  /\ UNCHANGED <<row, service, files, drift>>

Add(p, c) == c \in Fresh({}) /\ Accept(p, {}, {c})
Rotate(p, a, c) == a \in Enabled /\ c \in Fresh({a}) /\ Accept(p, {a}, {c})
DisableOrRemove(p, old) == old \in Targets /\ Accept(p, old, {})

\* The candidate passes sing-box's check, sing-box has a MainPID, and no file
\* of the new name exists.
Prepare(p) ==
  /\ pc[p] = "accepted"
  /\ up
  /\ \A c \in cmd[p].new, i \in yaml : i.file # YamlFile[c]
  /\ newPid' = FALSE
  /\ Goto(p, "staging")
  /\ UNCHANGED <<lock, row, up, loaded, exposed, files, issued, cmd, drift>>

PrepareFails(p) ==
  /\ pc[p] = "accepted"
  /\ Goto(p, "failed")
  /\ UNCHANGED <<lock, row, service, files, issued, cmd, drift>>

-----------------------------------------------------------------------------
(* Applying *)

InPlace(c) == {i \in yaml : i.file = YamlFile[c]}

\* Rename the YAML of a credential to be revoked into the rollback directory.
StageYaml(p, c) ==
  /\ pc[p] = "staging"
  /\ c \in cmd[p].todo
  /\ yaml' = yaml \ InPlace(c)
  /\ saved' = saved \cup InPlace(c)
  /\ cmd' = [cmd EXCEPT ![p].todo = @ \ {c}, ![p].staged = @ \cup InPlace(c)]
  /\ UNCHANGED <<lock, row, service, config, issued, pc, drift>>

\* A file that cannot be inspected or read: return at once.
InspectFails(p, c) ==
  /\ pc[p] = "staging"
  /\ c \in cmd[p].todo /\ InPlace(c) # {}
  /\ Goto(p, "failed")
  /\ UNCHANGED <<lock, row, service, files, issued, cmd, drift>>

\* A rename fails, or the configuration cannot be replaced.
ApplyFails(p) ==
  /\ pc[p] = "staging"
  /\ Goto(p, "unstaging")
  /\ UNCHANGED <<lock, row, service, files, issued, cmd, drift>>

ReplaceConfig(p) ==
  /\ pc[p] = "staging"
  /\ cmd[p].todo = {}
  /\ config' = Candidate(p)
  /\ Goto(p, "replaced")
  /\ UNCHANGED <<lock, row, service, yaml, saved, issued, cmd, drift>>

\* Fault: the outcome of systemctl restart is not looked at.
RestartUnchecked(p) ==
  /\ pc[p] = "replaced"
  /\ Load \/ UNCHANGED service
  /\ Goto(p, "restarted")
  /\ UNCHANGED <<lock, row, files, issued, cmd, drift>>

Restart(p) ==
  /\ pc[p] = "replaced"
  /\ Load
  /\ Goto(p, "restarted")
  /\ UNCHANGED <<lock, row, files, issued, cmd, drift>>

\* The service is active with a new MainPID, listens and answers.
Verify(p) ==
  /\ pc[p] = "restarted"
  /\ up /\ newPid
  /\ Goto(p, "verified")
  /\ UNCHANGED <<lock, row, service, files, issued, cmd, drift>>

\* The configuration holds the expected users and the process exposes no other.
Applied(users) == up /\ config = users /\ exposed \subseteq users

VerifyApplied(p) ==
  /\ pc[p] = "verified"
  /\ Applied(Candidate(p))
  /\ Goto(p, "applied")
  /\ UNCHANGED <<lock, row, service, files, issued, cmd, drift>>

PublishYaml(p) ==
  /\ pc[p] = "applied"
  /\ yaml' = yaml \cup {YamlOf(c) : c \in cmd[p].new}
  /\ Goto(p, "published")
  /\ UNCHANGED <<lock, row, service, config, saved, issued, cmd, drift>>

\* Delete one staged file.
PurgeYaml(p, i) ==
  /\ pc[p] = "published"
  /\ i \in cmd[p].staged \cap saved
  /\ saved' = saved \ {i}
  /\ UNCHANGED <<lock, row, service, config, yaml, issued, pc, cmd, drift>>

\* The index of active (user, display name) pairs.
Unique(p) ==
  \A c \in cmd[p].new, d \in Enabled \ cmd[p].old : ~SameDevice(c, d)

\* AddCredential, RotateCredential, DisableCredential(s): one transaction.
Commit(p) ==
  /\ pc[p] = "published"
  /\ cmd[p].staged \cap saved = {}
  /\ cmd[p].old \subseteq Enabled
  /\ Unique(p)
  /\ row' = [c \in Credential |->
               IF c \in cmd[p].new THEN "enabled"
               ELSE IF c \in cmd[p].old THEN "revoked" ELSE row[c]]
  /\ Goto(p, "committed")
  /\ UNCHANGED <<lock, service, files, issued, cmd, drift>>

\* systemctl, a check, a file operation or the transaction fails.
StepFails(p) ==
  /\ pc[p] \in {"replaced", "restarted", "verified", "applied", "published"}
  /\ Goto(p, "rollback")
  /\ UNCHANGED <<lock, row, service, files, issued, cmd, drift>>

-----------------------------------------------------------------------------
(* Rolling back: every step is tried, whatever happened to the others *)

Fault(p) == cmd' = [cmd EXCEPT ![p].fault = TRUE]

RestoreConfig(p) ==
  /\ pc[p] = "rollback"
  /\ Goto(p, "restored")
  /\ \/ config' = cmd[p].original /\ UNCHANGED cmd
     \/ UNCHANGED config /\ Fault(p)
  /\ UNCHANGED <<lock, row, service, yaml, saved, issued, drift>>

\* Fault: the restored configuration is not loaded.
RestoreOnly(p) ==
  /\ pc[p] = "restored"
  /\ Goto(p, "reloaded")
  /\ UNCHANGED <<lock, row, service, files, issued, cmd, drift>>

RestartAgain(p) ==
  /\ pc[p] = "restored"
  /\ \/ Load /\ Goto(p, "reloaded") /\ UNCHANGED cmd
     \/ UNCHANGED service /\ Goto(p, "cleaning") /\ Fault(p)
  /\ UNCHANGED <<lock, row, files, issued, drift>>

\* The prior PID is "0" now: any running process will do.
VerifyAgain(p) ==
  /\ pc[p] = "reloaded"
  /\ Goto(p, "cleaning")
  /\ \/ Applied(cmd[p].original) /\ UNCHANGED cmd
     \/ Fault(p)
  /\ UNCHANGED <<lock, row, service, files, issued, drift>>

\* Fault: a published YAML outlives the rollback.
KeepUncommittedYaml(p) ==
  /\ pc[p] = "cleaning"
  /\ Goto(p, "unstaging")
  /\ UNCHANGED <<lock, row, service, files, issued, cmd, drift>>

RemoveUncommittedYaml(p) ==
  /\ pc[p] = "cleaning"
  /\ Goto(p, "unstaging")
  /\ \/ /\ yaml' = {i \in yaml : \A c \in cmd[p].new : i.file # YamlFile[c]}
        /\ UNCHANGED cmd
     \/ UNCHANGED yaml /\ Fault(p)
  /\ UNCHANGED <<lock, row, service, config, saved, issued, drift>>

\* Fault: a staged file that is already deleted is not written again.
RestoreSavedOnly(p, i) ==
  /\ pc[p] = "unstaging"
  /\ i \in cmd[p].staged
  /\ yaml' = IF i \in saved THEN yaml \cup {i} ELSE yaml
  /\ saved' = saved \ {i}
  /\ cmd' = [cmd EXCEPT ![p].staged = @ \ {i}]
  /\ UNCHANGED <<lock, row, service, config, issued, pc, drift>>

\* restoreStagedYAMLs: rename a staged file back, or write it again.
RestoreYaml(p, i) ==
  /\ pc[p] = "unstaging"
  /\ i \in cmd[p].staged
  /\ \/ /\ yaml' = {j \in yaml : j.file # i.file} \cup {i}
        /\ saved' = saved \ {i}
        /\ cmd' = [cmd EXCEPT ![p].staged = @ \ {i}]
     \/ /\ UNCHANGED <<yaml, saved>>
        /\ cmd' = [cmd EXCEPT ![p].staged = @ \ {i}, ![p].fault = TRUE]
  /\ UNCHANGED <<lock, row, service, config, issued, pc, drift>>

RolledBack(p) ==
  /\ pc[p] = "unstaging"
  /\ cmd[p].staged = {}
  /\ Goto(p, "failed")
  /\ UNCHANGED <<lock, row, service, files, issued, cmd, drift>>

-----------------------------------------------------------------------------
(* Returning and dying *)

Return(p) ==
  /\ pc[p] \in {"committed", "failed"}
  /\ lock' = "free"
  /\ Goto(p, "idle")
  /\ cmd' = [cmd EXCEPT ![p] = NoLocal]
  /\ drift' = (drift \/ cmd[p].fault)
  /\ UNCHANGED <<row, service, files, issued>>

\* Ctrl-C, SIGKILL, a reboot; the kernel drops the flock.
Crash(p) ==
  /\ pc[p] # "idle"
  /\ lock' = IF lock = p THEN "free" ELSE lock
  /\ Goto(p, "idle")
  /\ cmd' = [cmd EXCEPT ![p] = NoLocal]
  /\ drift' = (drift \/ cmd[p].fault \/ pc[p] \in Halfway)
  /\ UNCHANGED <<row, service, files, issued>>

Apply(p) ==
  \/ Prepare(p) \/ PrepareFails(p)
  \/ \E c \in Credential : StageYaml(p, c) \/ InspectFails(p, c)
  \/ ApplyFails(p) \/ ReplaceConfig(p) \/ Restart(p) \/ Verify(p) \/ VerifyApplied(p)
  \/ PublishYaml(p) \/ (\E i \in Item : PurgeYaml(p, i)) \/ Commit(p) \/ StepFails(p)

Rollback(p) ==
  \/ RestoreConfig(p) \/ RestartAgain(p) \/ VerifyAgain(p) \/ RemoveUncommittedYaml(p)
  \/ \E i \in Item : RestoreYaml(p, i)
  \/ RolledBack(p)

Next ==
  \/ Stop \/ Start
  \/ \E c \in Credential : Traffic(c)
  \/ \E i \in Item : TakeYaml(i)
  \/ \E p \in Command :
       \/ \E c \in Credential : Add(p, c)
       \/ \E a, c \in Credential : Rotate(p, a, c)
       \/ \E old \in SUBSET Credential : DisableOrRemove(p, old)
       \/ Apply(p) \/ Rollback(p) \/ Return(p) \/ Crash(p)

Spec == Init /\ [][Next]_vars

-----------------------------------------------------------------------------
(* ConsistencyChecker.Run takes no lock and changes nothing.  Of its report, *)
(* these are the items on credentials and their YAML files.  Those on the    *)
(* services, the port, the Stats API, the collector's freshness and file     *)
(* modes are not about credentials and are left out.                         *)

\* readCoreCredentialSets, credentialSets, equalSet: inbound and Stats users.
SetsMatch == config = Enabled

\* setDifferenceCounts: counters of users the database does not know.
Unexpected == exposed \ Enabled
Unobserved == Enabled \ exposed

\* Fault: the first row of a file name is expected in it.
ExpectedOldest ==
  {c \in Enabled : \A d \in Enabled : YamlFile[d] = YamlFile[c] => <<c, d>> \in issued}

\* The active credentials by file name: the last row takes the name.
Expected ==
  {c \in Enabled : \A d \in Enabled : YamlFile[d] = YamlFile[c] => <<d, c>> \in issued}

\* checkYAMLFiles
Missing == {c \in Expected : InPlace(c) = {}}
Mismatched == {c \in Expected : \E i \in InPlace(c) : i.of # c}
Residual == {c \in Credential : /\ row[c] = "revoked" /\ InPlace(c) # {}
                                /\ \A d \in Enabled : YamlFile[d] # YamlFile[c]}

Found(bad, status) == IF bad THEN status ELSE "ok"

\* "Stats users and SQLite" is an item only if the Stats API answers.
StatsItem ==
  IF ~up THEN "none"
  ELSE IF Unexpected # {} THEN "error" ELSE Found(Unobserved # {}, "warning")

CredentialItems ==
  [runtime |-> Found(~SetsMatch, "error"),          \* runtime and SQLite
   stats |-> StatsItem,
   presence |-> Found(Missing # {}, "warning"),     \* active YAML presence
   content |-> Found(Mismatched # {}, "error"),     \* active YAML content
   revoked |-> Found(Residual # {}, "warning")]     \* revoked YAML

-----------------------------------------------------------------------------
(* Properties *)

\* Every variable keeps the shape of its table, file or field.
TypeOK ==
  /\ lock \in {"free"} \cup Command
  /\ row \in [Credential -> {"absent", "enabled", "revoked"}]
  /\ config \subseteq Credential
  /\ up \in BOOLEAN
  /\ loaded \subseteq Credential
  /\ exposed \subseteq loaded
  /\ newPid \in BOOLEAN
  /\ yaml \subseteq Item
  /\ saved \subseteq Item
  /\ issued \subseteq Credential \X Credential
  /\ pc \in [Command -> Stages]
  /\ cmd \in [Command -> Local]
  /\ drift \in BOOLEAN

\* Execute's comment: a command commits or restores.  Between commands, unless
\* one was killed halfway or reported that it could not restore, the database
\* and the configuration name the same credentials, and a running sing-box
\* accepts exactly these.
Agreement ==
  (lock = "free" /\ ~drift) =>
     /\ config = Enabled
     /\ up => loaded = Enabled

\* Then no YAML file of a revoked or an uncommitted credential is left either.
NoStrayYaml ==
  (lock = "free" /\ ~drift) => \A i \in yaml : i.of \in Enabled

\* A credential is committed only when the configuration and the process that
\* runs have taken the change, even if sing-box was restarted by somebody else
\* meanwhile and even if an earlier command left them out of step.
CommitIsVerified ==
  [][\A c \in Credential : row'[c] # row[c] =>
       /\ c \in config <=> row'[c] = "enabled"
       /\ up => (c \in loaded <=> row'[c] = "enabled")]_vars

\* A command that reports failure, and no failure to restore, leaves every
\* client YAML in the output directory or in its rollback directory, also when
\* some staged files were deleted already.  (In the rollback directory: what was
\* staged before another file could not be read.)
FailureKeepsYaml ==
  \A p \in Command :
    (pc[p] = "failed" /\ ~cmd[p].fault) => cmd[p].before \subseteq yaml \cup saved

HasYaml(c) == YamlOf(c) \in yaml \cup saved

\* PROJECT_REQUIREMENTS: active YAML files are removed only after the commit.
YamlRemovedOnlyAfterCommit ==
  [][\A c \in Enabled : (lock # "free" /\ HasYaml(c)) => HasYaml(c)']_vars

\* Between commands, unless one of them died halfway or reported that it could
\* not restore, no item of the check on credentials or their YAML files is an
\* error, and none warns of a revoked credential's file, whatever the other
\* items say: no counter of a revoked credential is left in a process, one that
\* does not exist yet is no error, and of devices that share a file name the
\* one expected in the file is the one found there.
CheckRaisesNoFalseAlarm ==
  (lock = "free" /\ ~drift) =>
     /\ \A item \in {"runtime", "stats", "content"} : CredentialItems[item] # "error"
     /\ CredentialItems.revoked = "ok"

-----------------------------------------------------------------------------
(* The inductive invariant behind Agreement and CommitIsVerified *)

\* Only the holder of the lock is at work.
Exclusion == \A p \in Command : pc[p] # "idle" => lock = p

\* Before the configuration is replaced, and after it was restored.
Original == {"accepted", "staging", "restored", "reloaded", "cleaning", "unstaging", "failed"}
\* The candidate is in place, and from "restarted" on in use.
Replaced == {"replaced", "restarted", "verified", "applied", "published", "rollback"}
InUse == {"restarted", "verified", "applied", "published"}

\* Where the configuration of a running command stands.
ConfigInv(p) ==
  /\ pc[p] \in Replaced \cup {"committed"} => config = Candidate(p)
  /\ pc[p] \in InUse \cup {"committed"} => (up => loaded = config)

\* A command that started from agreement, and has not met a fault.
AgreementInv(p) ==
  (pc[p] # "idle" /\ ~drift /\ ~cmd[p].fault) =>
     /\ IF pc[p] = "committed" THEN config = Enabled ELSE cmd[p].original = Enabled
     /\ pc[p] \in Original => config = cmd[p].original
     /\ pc[p] \in Original \ {"restored"} => (up => loaded = config)

ProvisionInv ==
  /\ TypeOK
  /\ Exclusion
  /\ Agreement
  /\ \A p \in Command : ConfigInv(p) /\ AgreementInv(p)

=============================================================================
