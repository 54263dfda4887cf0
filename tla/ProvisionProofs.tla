-------------------------- MODULE ProvisionProofs --------------------------
(***************************************************************************)
(* Proofs that the owner's commands keep the database, the configuration   *)
(* and the running process in agreement and the YAML files where they      *)
(* belong, and that the consistency check finds no fault with them, for    *)
(* any credentials, users, files and commands.  The invariants say, stage  *)
(* by stage, which users the configuration names, whether the process has  *)
(* loaded them, and which files are where.                                 *)
(***************************************************************************)
EXTENDS Provision, TLAPS

USE CommandAssumption

-----------------------------------------------------------------------------
(* Types *)

LEMMA YamlOfType == \A c \in Credential : YamlOf(c) \in Item
BY YamlFileAssumption DEF YamlOf, Item

\* A command's step keeps the type of its own variables.
LEMMA LocalStep ==
  ASSUME TypeOK, NEW p \in Command, NEW l \in Local, cmd' = [cmd EXCEPT ![p] = l]
  PROVE  cmd' \in [Command -> Local]
BY DEF TypeOK

\* A restoring step sets the fault flag or leaves the local variables alone.
LEMMA FaultType ==
  ASSUME TypeOK, NEW p \in Command, cmd' = cmd \/ Fault(p)
  PROVE  cmd' \in [Command -> Local]
  <1>1. CASE Fault(p)
    <2>1. cmd[p] \in Local
      BY DEF TypeOK
    <2>2. [cmd[p] EXCEPT !.fault = TRUE] \in Local
      BY <2>1 DEF Local
    <2>3. cmd' = [cmd EXCEPT ![p] = [cmd[p] EXCEPT !.fault = TRUE]]
      BY <1>1 DEF Fault
    <2> QED BY <2>2, <2>3, LocalStep
  <1> QED BY <1>1 DEF TypeOK

\* The staging loops change todo, staged and fault only.
LEMMA LoopType ==
  ASSUME NEW l \in Local, NEW todo \in SUBSET Credential, NEW staged \in SUBSET Item
  PROVE  /\ [l EXCEPT !.todo = todo, !.staged = staged] \in Local
         /\ [l EXCEPT !.staged = staged] \in Local
         /\ [l EXCEPT !.staged = staged, !.fault = TRUE] \in Local
  <1>1. [l EXCEPT !.todo = todo, !.staged = staged] \in Local
    BY DEF Local
  <1>2. [l EXCEPT !.staged = staged] \in Local
    BY DEF Local
  <1>3. [l EXCEPT !.staged = staged, !.fault = TRUE] \in Local
    BY DEF Local
  <1> QED BY <1>1, <1>2, <1>3

LEMMA GotoType ==
  ASSUME TypeOK, NEW p \in Command, NEW stage \in Stages, Goto(p, stage)
  PROVE  pc' \in [Command -> Stages]
BY DEF TypeOK, Goto

LEMMA InitTyped == Init => TypeOK
  <1> SUFFICES ASSUME Init PROVE TypeOK
    OBVIOUS
  <1>1. Enabled \subseteq Credential
    BY DEF Enabled
  <1>2. yaml \subseteq Item
    BY <1>1, YamlOfType DEF Init
  <1>3. cmd \in [Command -> Local]
    BY DEF Init, NoLocal, Local
  <1>4. issued \subseteq Credential \X Credential
    BY <1>1 DEF Init, Orders
  <1> QED BY <1>1, <1>2, <1>3, <1>4 DEF Init, TypeOK, Stages

LEMMA EnvironmentTyped ==
  ASSUME TypeOK,
         \/ Stop \/ Start
         \/ \E c \in Credential : Traffic(c)
         \/ \E i \in Item : TakeYaml(i)
  PROVE  TypeOK'
  <1>1. CASE Stop
    BY <1>1 DEF Stop, files, TypeOK
  <1>2. CASE Start
    BY <1>2 DEF Start, Load, files, TypeOK
  <1>3. CASE \E c \in Credential : Traffic(c)
    BY <1>3 DEF Traffic, files, TypeOK
  <1>4. CASE \E i \in Item : TakeYaml(i)
    BY <1>4 DEF TakeYaml, service, TypeOK
  <1> QED BY <1>1, <1>2, <1>3, <1>4

LEMMA AcceptTyped ==
  ASSUME TypeOK, NEW p \in Command,
         NEW old \in SUBSET Credential, NEW new \in SUBSET Credential, Accept(p, old, new)
  PROVE  TypeOK'
  <1>1. Begun(old, new) \in Local
    BY DEF Begun, Local, TypeOK
  <1>2. cmd' \in [Command -> Local]
    BY <1>1, LocalStep DEF Accept
  <1>3. pc' \in [Command -> Stages]
    BY GotoType DEF Accept, Stages
  <1>4. issued' \subseteq Credential \X Credential
    BY DEF Accept, Issue, Issued, TypeOK
  <1> QED BY <1>2, <1>3, <1>4 DEF Accept, service, files, TypeOK

\* Steps that change no local variable but the fault flag, nor the YAML files.
LEMMA ServiceStepTyped ==
  ASSUME TypeOK, NEW p \in Command,
         \/ Prepare(p) \/ PrepareFails(p) \/ ApplyFails(p) \/ ReplaceConfig(p)
         \/ Restart(p) \/ Verify(p) \/ VerifyApplied(p) \/ Commit(p) \/ StepFails(p)
         \/ RolledBack(p) \/ \E c \in Credential : InspectFails(p, c)
  PROVE  TypeOK'
  <1>1. pc' \in [Command -> Stages]
    BY DEF Prepare, PrepareFails, ApplyFails, ReplaceConfig, Restart, Verify, VerifyApplied,
           Commit, StepFails, RolledBack, InspectFails, Goto, TypeOK, Stages
  <1>2. cmd' = cmd
    BY DEF Prepare, PrepareFails, ApplyFails, ReplaceConfig, Restart, Verify, VerifyApplied,
           Commit, StepFails, RolledBack, InspectFails
  <1>3. config' \subseteq Credential
    BY DEF Prepare, PrepareFails, ApplyFails, ReplaceConfig, Restart, Verify, VerifyApplied,
           Commit, StepFails, RolledBack, InspectFails, files, Candidate, TypeOK, Local
  <1>4. row' \in [Credential -> {"absent", "enabled", "revoked"}]
    BY DEF Prepare, PrepareFails, ApplyFails, ReplaceConfig, Restart, Verify, VerifyApplied,
           Commit, StepFails, RolledBack, InspectFails, TypeOK
  <1> QED BY <1>1, <1>2, <1>3, <1>4
          DEF Prepare, PrepareFails, ApplyFails, ReplaceConfig, Restart, Verify, VerifyApplied,
              Commit, StepFails, RolledBack, InspectFails, Load, service, files, TypeOK

LEMMA YamlStepTyped ==
  ASSUME TypeOK, NEW p \in Command,
         \/ \E c \in Credential : StageYaml(p, c)
         \/ PublishYaml(p)
         \/ \E i \in Item : PurgeYaml(p, i) \/ RestoreYaml(p, i)
  PROVE  TypeOK'
  <1>1. CASE \E c \in Credential : StageYaml(p, c)
    <2>1. PICK c \in Credential : StageYaml(p, c)
      BY <1>1
    <2>2. InPlace(c) \subseteq Item
      BY DEF InPlace, TypeOK
    <2>3. cmd[p] \in Local /\ cmd[p].todo \subseteq Credential /\ cmd[p].staged \subseteq Item
      BY DEF TypeOK, Local
    <2>4. [cmd[p] EXCEPT !.todo = @ \ {c}, !.staged = @ \cup InPlace(c)] \in Local
      BY <2>2, <2>3, LoopType
    <2>5. cmd' = [cmd EXCEPT ![p] =
                    [cmd[p] EXCEPT !.todo = @ \ {c}, !.staged = @ \cup InPlace(c)]]
      BY <2>1 DEF StageYaml, TypeOK
    <2>6. cmd' \in [Command -> Local]
      BY <2>4, <2>5, LocalStep
    <2> QED BY <2>1, <2>2, <2>6 DEF StageYaml, service, TypeOK
  <1>2. CASE PublishYaml(p)
    <2>1. {YamlOf(c) : c \in cmd[p].new} \subseteq Item
      BY YamlOfType DEF TypeOK, Local
    <2> QED BY <1>2, <2>1, GotoType DEF PublishYaml, service, TypeOK, Stages
  <1>3. CASE \E i \in Item : PurgeYaml(p, i)
    BY <1>3 DEF PurgeYaml, service, TypeOK
  <1>4. CASE \E i \in Item : RestoreYaml(p, i)
    <2>1. PICK i \in Item : RestoreYaml(p, i)
      BY <1>4
    <2>2. cmd[p] \in Local /\ cmd[p].staged \subseteq Item
      BY DEF TypeOK, Local
    <2>3. /\ [cmd[p] EXCEPT !.staged = @ \ {i}] \in Local
          /\ [cmd[p] EXCEPT !.staged = @ \ {i}, !.fault = TRUE] \in Local
      BY <2>2, LoopType
    <2>4. \/ cmd' = [cmd EXCEPT ![p] = [cmd[p] EXCEPT !.staged = @ \ {i}]]
          \/ cmd' = [cmd EXCEPT ![p] = [cmd[p] EXCEPT !.staged = @ \ {i}, !.fault = TRUE]]
      BY <2>1 DEF RestoreYaml, TypeOK
    <2>5. cmd' \in [Command -> Local]
      BY <2>3, <2>4, LocalStep
    <2> QED BY <2>1, <2>5 DEF RestoreYaml, service, TypeOK
  <1> QED BY <1>1, <1>2, <1>3, <1>4

\* Steps that may set the fault flag, and the ends of a command.
LEMMA EndTyped ==
  ASSUME TypeOK, NEW p \in Command,
         \/ RestoreConfig(p) \/ RestartAgain(p) \/ VerifyAgain(p)
         \/ RemoveUncommittedYaml(p) \/ Return(p) \/ Crash(p)
  PROVE  TypeOK'
  <1>1. NoLocal \in Local
    BY DEF NoLocal, Local
  <1>2. CASE RestoreConfig(p)
    <2>1. cmd' \in [Command -> Local]
      BY <1>2, FaultType DEF RestoreConfig
    <2>2. config' \subseteq Credential
      BY <1>2 DEF RestoreConfig, TypeOK, Local
    <2> QED BY <1>2, <2>1, <2>2, GotoType DEF RestoreConfig, service, TypeOK, Stages
  <1>3. CASE RestartAgain(p)
    <2>1. cmd' \in [Command -> Local]
      BY <1>3, FaultType DEF RestartAgain
    <2>2. pc' \in [Command -> Stages]
      BY <1>3 DEF RestartAgain, Goto, TypeOK, Stages
    <2> QED BY <1>3, <2>1, <2>2 DEF RestartAgain, Load, service, files, TypeOK
  <1>4. CASE VerifyAgain(p)
    <2>1. cmd' \in [Command -> Local]
      BY <1>4, FaultType DEF VerifyAgain
    <2> QED BY <1>4, <2>1, GotoType DEF VerifyAgain, service, files, TypeOK, Stages
  <1>5. CASE RemoveUncommittedYaml(p)
    <2>1. cmd' \in [Command -> Local]
      BY <1>5, FaultType DEF RemoveUncommittedYaml
    <2> QED BY <1>5, <2>1, GotoType DEF RemoveUncommittedYaml, service, TypeOK, Stages
  <1>6. CASE Return(p) \/ Crash(p)
    <2>1. cmd' \in [Command -> Local]
      BY <1>1, <1>6, LocalStep DEF Return, Crash
    <2>2. drift' \in BOOLEAN
      BY <1>6 DEF Return, Crash, TypeOK, Local
    <2>3. pc' \in [Command -> Stages]
      BY <1>6, GotoType DEF Return, Crash, Stages
    <2> QED BY <1>6, <2>1, <2>2, <2>3 DEF Return, Crash, service, files, TypeOK
  <1> QED BY <1>2, <1>3, <1>4, <1>5, <1>6

LEMMA StepTyped == TypeOK /\ [Next]_vars => TypeOK'
  <1> SUFFICES ASSUME TypeOK, [Next]_vars PROVE TypeOK'
    OBVIOUS
  <1>1. CASE UNCHANGED vars
    BY <1>1 DEF vars, service, files, TypeOK
  <1>2. ASSUME NEW p \in Command, \E c \in Credential : Add(p, c) PROVE TypeOK'
    BY <1>2, AcceptTyped DEF Add
  <1>3. ASSUME NEW p \in Command, \E a, c \in Credential : Rotate(p, a, c) PROVE TypeOK'
    BY <1>3, AcceptTyped DEF Rotate
  <1>4. ASSUME NEW p \in Command, \E old \in SUBSET Credential : DisableOrRemove(p, old)
        PROVE TypeOK'
    BY <1>4, AcceptTyped DEF DisableOrRemove
  <1>5. ASSUME NEW p \in Command, Apply(p) \/ Rollback(p) \/ Return(p) \/ Crash(p)
        PROVE TypeOK'
    BY <1>5, ServiceStepTyped, YamlStepTyped, EndTyped DEF Apply, Rollback
  <1> QED BY <1>1, <1>2, <1>3, <1>4, <1>5, EnvironmentTyped DEF Next

-----------------------------------------------------------------------------
(* Agreement *)

LEMMA InitAgreement == Init => ProvisionInv
BY InitTyped DEF Init, ProvisionInv, Exclusion, Agreement, ConfigInv, AgreementInv,
                 Replaced, InUse

\* A step of one command leaves the others idle, and its own stage decides the
\* rest of the invariant.
LEMMA OwnStep ==
  ASSUME ProvisionInv, TypeOK', NEW p \in Command, lock' = p,
         \A q \in Command \ {p} : pc[q] = "idle" /\ pc'[q] = "idle",
         ConfigInv(p)', AgreementInv(p)'
  PROVE  ProvisionInv'
  <1>1. Exclusion'
    BY DEF Exclusion
  <1>2. Agreement'
    BY DEF Agreement
  <1>3. ASSUME NEW q \in Command \ {p} PROVE ConfigInv(q)' /\ AgreementInv(q)'
    BY <1>3 DEF ConfigInv, AgreementInv, Replaced, InUse
  <1> QED BY <1>1, <1>2, <1>3 DEF ProvisionInv

\* At a step of a command that is under way it holds the lock alone.
LEMMA Alone ==
  ASSUME ProvisionInv, NEW p \in Command, pc[p] # "idle"
  PROVE  lock = p /\ \A q \in Command \ {p} : pc[q] = "idle"
BY DEF ProvisionInv, Exclusion

LEMMA AcceptAgreement ==
  ASSUME ProvisionInv, TypeOK', NEW p \in Command,
         NEW old \in SUBSET Credential, NEW new \in SUBSET Credential, Accept(p, old, new)
  PROVE  ProvisionInv'
  <1>1. \A q \in Command : pc[q] = "idle"
    BY DEF Accept, ProvisionInv, Exclusion
  <1>2. /\ lock' = p /\ pc'[p] = "accepted"
        /\ \A q \in Command \ {p} : pc'[q] = "idle"
        /\ cmd'[p].original = config
    BY <1>1 DEF Accept, Goto, Begun, ProvisionInv, TypeOK
  <1>3. Enabled' = Enabled /\ config' = config /\ loaded' = loaded /\ up' = up /\ drift' = drift
    BY DEF Accept, Enabled, service, files
  <1>4. ~drift => config = Enabled /\ (up => loaded = Enabled)
    BY DEF Accept, ProvisionInv, Agreement
  <1>5. ConfigInv(p)'
    BY <1>2 DEF ConfigInv, Replaced, InUse
  <1>6. AgreementInv(p)'
    BY <1>2, <1>3, <1>4 DEF AgreementInv
  <1> QED BY <1>1, <1>2, <1>5, <1>6, OwnStep

\* sing-box stops and starts, or the owner and the clients use their files.
LEMMA EnvironmentAgreement ==
  ASSUME ProvisionInv, TypeOK',
         \/ Stop \/ Start
         \/ \E c \in Credential : Traffic(c)
         \/ \E i \in Item : TakeYaml(i)
  PROVE  ProvisionInv'
  <1>1. /\ lock' = lock /\ pc' = pc /\ cmd' = cmd /\ drift' = drift
        /\ config' = config /\ row' = row
    BY DEF Stop, Start, Traffic, TakeYaml, files, service
  <1>2. Enabled' = Enabled
    BY <1>1 DEF Enabled
  <1>3. ~up' \/ loaded' = config' \/ (up' = up /\ loaded' = loaded)
    BY <1>1 DEF Stop, Start, Load, Traffic, TakeYaml, service
  <1>4. Exclusion' /\ Agreement'
    BY <1>1, <1>2, <1>3 DEF ProvisionInv, Exclusion, Agreement
  <1>5. ASSUME NEW p \in Command PROVE ConfigInv(p)' /\ AgreementInv(p)'
    <2>1. ConfigInv(p) /\ AgreementInv(p)
      BY DEF ProvisionInv
    <2>2. ConfigInv(p)'
      BY <1>1, <1>3, <2>1 DEF ConfigInv, Candidate
    <2>3. AgreementInv(p)'
      BY <1>1, <1>2, <1>3, <2>1 DEF AgreementInv
    <2> QED BY <2>2, <2>3
  <1> QED BY <1>4, <1>5 DEF ProvisionInv

\* Steps between which neither the configuration, nor the process's users, nor
\* the database changes.
Quiet(p) ==
  \/ Prepare(p) \/ PrepareFails(p) \/ ApplyFails(p) \/ Verify(p) \/ VerifyApplied(p)
  \/ PublishYaml(p) \/ StepFails(p) \/ VerifyAgain(p) \/ RemoveUncommittedYaml(p)
  \/ RolledBack(p)
  \/ \E c \in Credential : StageYaml(p, c) \/ InspectFails(p, c)
  \/ \E i \in Item : PurgeYaml(p, i) \/ RestoreYaml(p, i)

\* A quiet step moves to a stage that asks for no more than the one before.
LEMMA QuietFrame ==
  ASSUME TypeOK, NEW p \in Command, Quiet(p)
  PROVE  /\ lock' = lock /\ drift' = drift /\ config' = config /\ row' = row
         /\ up' = up /\ loaded' = loaded
         /\ \A q \in Command \ {p} : pc'[q] = pc[q]
         /\ cmd'[p].original = cmd[p].original
         /\ cmd'[p].old = cmd[p].old /\ cmd'[p].new = cmd[p].new
         /\ cmd[p].fault => cmd'[p].fault
         /\ pc[p] # "idle" /\ pc'[p] \notin {"idle", "committed"} /\ pc[p] # "committed"
         /\ pc'[p] \in Replaced => pc[p] \in Replaced
         /\ pc'[p] \in InUse => pc[p] \in InUse
         /\ pc'[p] \in Original => pc[p] \in Original \ {"restored"}
         /\ pc'[p] # "restored"
  <1>1. CASE \/ Prepare(p) \/ PrepareFails(p) \/ ApplyFails(p) \/ Verify(p) \/ VerifyApplied(p)
            \/ PublishYaml(p) \/ StepFails(p) \/ RolledBack(p)
            \/ \E c \in Credential : InspectFails(p, c)
    BY <1>1 DEF Prepare, PrepareFails, ApplyFails, Verify, VerifyApplied, PublishYaml, StepFails,
                RolledBack, InspectFails, Goto, files, service, TypeOK, Replaced, InUse, Original
  <1>2. CASE VerifyAgain(p) \/ RemoveUncommittedYaml(p)
    <2>1. cmd' = cmd \/ Fault(p)
      BY <1>2 DEF VerifyAgain, RemoveUncommittedYaml
    <2>2. /\ cmd'[p].original = cmd[p].original
          /\ cmd'[p].old = cmd[p].old /\ cmd'[p].new = cmd[p].new
          /\ cmd[p].fault => cmd'[p].fault
      BY <2>1 DEF Fault, TypeOK, Local
    <2> QED BY <1>2, <2>2 DEF VerifyAgain, RemoveUncommittedYaml, Goto, files, service, TypeOK,
                              Replaced, InUse, Original
  <1>3. CASE \E c \in Credential : StageYaml(p, c)
    <2>1. /\ cmd'[p].original = cmd[p].original
          /\ cmd'[p].old = cmd[p].old /\ cmd'[p].new = cmd[p].new
          /\ cmd[p].fault => cmd'[p].fault
      BY <1>3 DEF StageYaml, TypeOK, Local
    <2> QED BY <1>3, <2>1 DEF StageYaml, service, TypeOK, Replaced, InUse, Original
  <1>4. CASE \E i \in Item : PurgeYaml(p, i) \/ RestoreYaml(p, i)
    <2>1. /\ cmd'[p].original = cmd[p].original
          /\ cmd'[p].old = cmd[p].old /\ cmd'[p].new = cmd[p].new
          /\ cmd[p].fault => cmd'[p].fault
      BY <1>4 DEF PurgeYaml, RestoreYaml, TypeOK, Local
    <2> QED BY <1>4, <2>1 DEF PurgeYaml, RestoreYaml, service, TypeOK, Replaced, InUse, Original
  <1> QED BY <1>1, <1>2, <1>3, <1>4 DEF Quiet

LEMMA QuietAgreement ==
  ASSUME ProvisionInv, TypeOK', NEW p \in Command, Quiet(p)
  PROVE  ProvisionInv'
  <1> USE DEF ProvisionInv
  <1>1. Enabled' = Enabled
    BY QuietFrame DEF Enabled
  <1>2. Candidate(p)' = Candidate(p)
    BY QuietFrame DEF Candidate
  <1>3. ConfigInv(p)'
    BY <1>2, QuietFrame DEF ConfigInv
  <1>4. cmd[p].fault \in BOOLEAN /\ cmd'[p].fault \in BOOLEAN
    BY DEF TypeOK, Local
  <1>5. AgreementInv(p)'
    BY <1>1, <1>4, QuietFrame DEF AgreementInv
  <1> QED BY <1>3, <1>5, QuietFrame, Alone, OwnStep

LEMMA ReplaceAgreement ==
  ASSUME ProvisionInv, TypeOK', NEW p \in Command, ReplaceConfig(p) \/ Restart(p)
  PROVE  ProvisionInv'
  <1> USE DEF ProvisionInv
  <1>1. /\ cmd' = cmd /\ row' = row /\ drift' = drift /\ lock' = lock /\ pc[p] # "idle"
        /\ \A q \in Command \ {p} : pc'[q] = pc[q]
    BY DEF ReplaceConfig, Restart, Goto, TypeOK
  <1>2. Enabled' = Enabled /\ Candidate(p)' = Candidate(p)
    BY <1>1 DEF Enabled, Candidate
  <1>3. ConfigInv(p)'
    BY <1>1, <1>2 DEF ReplaceConfig, Restart, Load, Goto, ConfigInv, Replaced, InUse, files, TypeOK
  <1>4. AgreementInv(p)'
    BY <1>1, <1>2 DEF ReplaceConfig, Restart, Goto, AgreementInv, Original, TypeOK
  <1> QED BY <1>1, <1>3, <1>4, Alone, OwnStep

LEMMA CommitAgreement ==
  ASSUME ProvisionInv, TypeOK', NEW p \in Command, Commit(p)
  PROVE  ProvisionInv'
  <1> USE DEF ProvisionInv
  <1>1. /\ cmd' = cmd /\ drift' = drift /\ lock' = lock /\ config' = config
        /\ up' = up /\ loaded' = loaded /\ pc[p] = "published" /\ pc'[p] = "committed"
        /\ \A q \in Command \ {p} : pc'[q] = pc[q]
    BY DEF Commit, Goto, service, files, TypeOK
  <1>2. Enabled' = (Enabled \ cmd[p].old) \cup cmd[p].new
    BY DEF Commit, Enabled, TypeOK, Local
  <1>3. config = Candidate(p) /\ (up => loaded = config)
    BY <1>1 DEF ConfigInv, Replaced, InUse
  <1>4. ConfigInv(p)'
    BY <1>1, <1>3 DEF ConfigInv, Candidate
  <1>5. ~drift /\ ~cmd[p].fault => cmd[p].original = Enabled
    BY <1>1 DEF AgreementInv
  <1>6. AgreementInv(p)'
    BY <1>1, <1>2, <1>3, <1>5 DEF AgreementInv, Candidate, Original
  <1> QED BY <1>1, <1>4, <1>6, Alone, OwnStep

LEMMA RestoreAgreement ==
  ASSUME ProvisionInv, TypeOK', NEW p \in Command, RestoreConfig(p) \/ RestartAgain(p)
  PROVE  ProvisionInv'
  <1> USE DEF ProvisionInv
  <1>1. /\ row' = row /\ drift' = drift /\ lock' = lock /\ pc[p] # "idle"
        /\ \A q \in Command \ {p} : pc'[q] = pc[q]
        /\ cmd' = cmd \/ Fault(p)
    BY DEF RestoreConfig, RestartAgain, Goto, TypeOK
  <1>2. Enabled' = Enabled
    BY <1>1 DEF Enabled
  <1>3. pc'[p] \in {"restored", "reloaded", "cleaning"}
    BY DEF RestoreConfig, RestartAgain, Goto, TypeOK
  <1>4. ConfigInv(p)'
    BY <1>3 DEF ConfigInv, Replaced, InUse
  <1>5. Fault(p) => cmd'[p].fault
    BY DEF Fault, TypeOK, Local
  <1>6. CASE Fault(p)
    BY <1>5, <1>6, <1>1, <1>4, Alone, OwnStep DEF AgreementInv
  <1>7. CASE RestoreConfig(p) /\ ~Fault(p)
    <2>1. cmd' = cmd /\ config' = cmd[p].original /\ pc[p] = "rollback" /\ pc'[p] = "restored"
      BY <1>7 DEF RestoreConfig, Goto, TypeOK
    <2>2. AgreementInv(p)'
      BY <1>1, <1>2, <2>1 DEF AgreementInv
    <2> QED BY <1>1, <1>4, <2>2, Alone, OwnStep
  <1>8. CASE RestartAgain(p) /\ ~Fault(p)
    <2>1. /\ cmd' = cmd /\ config' = config /\ loaded' = config
          /\ pc[p] = "restored" /\ pc'[p] = "reloaded"
      BY <1>8 DEF RestartAgain, Load, Goto, files, TypeOK
    <2>2. AgreementInv(p)'
      BY <1>1, <1>2, <2>1 DEF AgreementInv, Original
    <2> QED BY <1>1, <1>4, <2>2, Alone, OwnStep
  <1> QED BY <1>6, <1>7, <1>8

LEMMA EndAgreement ==
  ASSUME ProvisionInv, TypeOK', NEW p \in Command, Return(p) \/ Crash(p)
  PROVE  ProvisionInv'
  <1> USE DEF ProvisionInv
  <1>1. /\ row' = row /\ config' = config /\ up' = up /\ loaded' = loaded
        /\ pc[p] # "idle" /\ pc'[p] = "idle"
        /\ \A q \in Command \ {p} : pc'[q] = pc[q]
    BY DEF Return, Crash, Goto, service, files, TypeOK
  <1>2. Enabled' = Enabled
    BY <1>1 DEF Enabled
  <1>3. \A q \in Command : pc'[q] = "idle"
    BY <1>1, Alone
  <1>4. Exclusion' /\ \A q \in Command : ConfigInv(q)' /\ AgreementInv(q)'
    BY <1>3 DEF Exclusion, ConfigInv, AgreementInv, Replaced, InUse
  <1>5. ~drift' => ~drift /\ ~cmd[p].fault /\ pc[p] \in {"accepted", "staging", "committed", "failed"}
    BY DEF Return, Crash, Halfway, TypeOK, Local, Stages
  <1>6. ~drift' => config = Enabled /\ (up => loaded = Enabled)
    BY <1>5 DEF AgreementInv, ConfigInv, Original
  <1>7. Agreement'
    BY <1>1, <1>2, <1>6 DEF Agreement
  <1> QED BY <1>4, <1>7

LEMMA AgreementStep == ProvisionInv /\ [Next]_vars => ProvisionInv'
  <1> SUFFICES ASSUME ProvisionInv, [Next]_vars PROVE ProvisionInv'
    OBVIOUS
  <1>1. TypeOK'
    BY StepTyped DEF ProvisionInv
  <1>2. CASE UNCHANGED vars
    BY <1>2 DEF vars, service, files, ProvisionInv, TypeOK, Exclusion, Agreement, ConfigInv,
                AgreementInv, Enabled, Candidate
  <1>3. ASSUME NEW p \in Command,
               \/ \E c \in Credential : Add(p, c)
               \/ \E a, c \in Credential : Rotate(p, a, c)
               \/ \E old \in SUBSET Credential : DisableOrRemove(p, old)
        PROVE  ProvisionInv'
    BY <1>1, <1>3, AcceptAgreement DEF Add, Rotate, DisableOrRemove
  <1>4. ASSUME NEW p \in Command, Apply(p) \/ Rollback(p) PROVE ProvisionInv'
    <2>1. Quiet(p) \/ ReplaceConfig(p) \/ Restart(p) \/ Commit(p) \/ RestoreConfig(p)
            \/ RestartAgain(p)
      BY <1>4 DEF Apply, Rollback, Quiet
    <2> QED BY <1>1, <2>1, QuietAgreement, ReplaceAgreement, CommitAgreement, RestoreAgreement
  <1>5. ASSUME NEW p \in Command, Return(p) \/ Crash(p) PROVE ProvisionInv'
    BY <1>1, <1>5, EndAgreement
  <1> QED BY <1>1, <1>2, <1>3, <1>4, <1>5, EnvironmentAgreement DEF Next

\* The invariant holds in every reachable state.
THEOREM ProvisioningCorrect == Spec => []ProvisionInv
  <1> QED BY InitAgreement, AgreementStep, PTL DEF Spec

\* Between commands, and unless one was killed halfway or reported that it
\* could not restore, the database, sing-box's configuration and the running
\* process name the same credentials (Manager.Execute and its rollback).
THEOREM CommandsKeepAgreement == Spec => []Agreement
  <1>1. ProvisionInv => Agreement
    BY DEF ProvisionInv
  <1> QED BY <1>1, ProvisioningCorrect, PTL

\* The credentials table changes only to what the configuration and the running
\* process already are.
THEOREM OnlyVerifiedChangesCommit == Spec => CommitIsVerified
  <1> DEFINE A == \A c \in Credential : row'[c] # row[c] =>
                    /\ c \in config <=> row'[c] = "enabled"
                    /\ up => (c \in loaded <=> row'[c] = "enabled")
  <1>1. ASSUME ProvisionInv, [Next]_vars PROVE A
    <2>1. CASE \E p \in Command : Commit(p)
      <3>1. PICK p \in Command : Commit(p)
        BY <2>1
      <3>2. config = Candidate(p) /\ (up => loaded = config)
        BY <1>1, <3>1 DEF Commit, ProvisionInv, ConfigInv, Replaced, InUse
      <3> QED BY <1>1, <3>1, <3>2 DEF Commit, Candidate, ProvisionInv, TypeOK
    <2>2. CASE ~\E p \in Command : Commit(p)
      <3>1. row' = row
        BY <1>1, <2>2 DEF Next, vars, Stop, Start, Traffic, TakeYaml, Add, Rotate, DisableOrRemove,
           Accept, Apply, Rollback, Prepare, PrepareFails, ApplyFails, ReplaceConfig, Restart,
           Verify, VerifyApplied, PublishYaml, StepFails, RolledBack, InspectFails, StageYaml,
           PurgeYaml, RestoreYaml, RestoreConfig, RestartAgain, VerifyAgain,
           RemoveUncommittedYaml, Return, Crash
      <3> QED BY <3>1
    <2> QED BY <2>1, <2>2
  <1>2. ProvisionInv /\ [Next]_vars => [A]_vars
    BY <1>1
  <1> QED BY <1>2, ProvisioningCorrect, PTL DEF Spec, CommitIsVerified
-----------------------------------------------------------------------------
(* The YAML files *)

\* The files a command publishes.
Published(p) == {YamlOf(c) : c \in cmd[p].new}

\* A name is taken once, a file is named after the credential in it, and that
\* one is enabled and the last of the name: the check asks for it.
OneEach(items) == \A i, j \in items : i.file = j.file => i = j
Proper(items) == \A i \in items : i = YamlOf(i.of)
Current(items) ==
  \A i \in items : /\ i.of \in Enabled
                   /\ \A d \in Enabled : YamlFile[d] = i.file => <<d, i.of>> \in issued

\* UUIDs are issued one after the other, before they get a row.
IssuedInv ==
  /\ Enabled \subseteq Issued
  /\ \A c, d \in Credential : <<c, d>> \in issued => c \in Issued /\ d \in Issued
  /\ \A c, d \in Credential : <<c, d>> \in issued /\ <<d, c>> \in issued => c = d

\* At most one credential is new, and it is the last one issued.
RequestInv(p) ==
  /\ \A c, d \in cmd[p].new : c = d
  /\ cmd[p].old \cap cmd[p].new = {}
  /\ \A d \in Enabled \cup cmd[p].new, c \in cmd[p].new : <<d, c>> \in issued

\* The directory as the command found it: its new name was free, and every file
\* it moves away was there.
BeforeInv(p) ==
  /\ OneEach(cmd[p].before) /\ Proper(cmd[p].before)
  /\ cmd[p].staged \subseteq cmd[p].before
  /\ pc[p] \notin {"accepted", "failed"} =>
       \A i \in cmd[p].before, c \in cmd[p].new : i.file # YamlFile[c]
  /\ ~drift => Current(IF pc[p] = "committed" THEN yaml ELSE cmd[p].before)

\* Nothing is added before the new file, nothing but it later, and what is
\* missing was moved away; until it is deleted it is in a rollback directory.
PlaceInv(p) ==
  /\ pc[p] = "accepted" => yaml = cmd[p].before
  /\ yaml \subseteq cmd[p].before \cup Published(p)
  /\ \/ pc[p] \in {"accepted", "staging", "replaced", "restarted", "verified", "applied"}
     \/ pc[p] \in {"unstaging", "failed"} /\ ~cmd[p].fault
     => yaml \subseteq cmd[p].before
  /\ pc[p] \in {"accepted", "staging"} => cmd[p].staged \subseteq saved
  /\ pc[p] \notin {"failed", "committed"} /\ ~cmd[p].fault =>
       cmd[p].before \subseteq yaml \cup cmd[p].staged
  /\ pc[p] = "failed" /\ ~cmd[p].fault => cmd[p].before \subseteq yaml \cup saved

\* The files of the credentials to be revoked are the ones that are moved.
RevokeInv(p) ==
  /\ pc[p] = "accepted" => cmd[p].todo = cmd[p].old
  /\ pc[p] = "staging" => \A i \in yaml : i.of \in cmd[p].old => i.of \in cmd[p].todo
  /\ pc[p] \in {"replaced", "restarted", "verified", "applied", "published", "committed"} =>
       \A i \in yaml : i.of \notin cmd[p].old

CommandYaml(p) == RequestInv(p) /\ BeforeInv(p) /\ PlaceInv(p) /\ RevokeInv(p)

YamlInv ==
  /\ OneEach(yaml) /\ Proper(yaml) /\ IssuedInv
  /\ (lock = "free" /\ ~drift) => Current(yaml)
  /\ \A p \in Command : pc[p] # "idle" => CommandYaml(p)

\* What the directory holds is fine to whoever finds it when the rows and the
\* issued UUIDs are still the same.
LEMMA CurrentStays ==
  ASSUME NEW items, row' = row, issued' = issued, Current(items)
  PROVE  /\ \A i \in items : /\ i.of \in Enabled'
                             /\ \A d \in Enabled' : YamlFile[d] = i.file =>
                                                      <<d, i.of>> \in issued'
         /\ Enabled' = Enabled /\ Issued' = Issued
BY DEF Current, Enabled, Issued

\* A step of a command under way that changes no row: what it does to the
\* directory and its own stage decide the rest.
LEMMA WorkKeepsYaml ==
  ASSUME YamlInv, NEW p \in Command, pc[p] # "idle", lock' = p,
         \A q \in Command \ {p} : pc'[q] = "idle",
         pc[p] # "committed", pc'[p] # "committed",
         row' = row, issued' = issued, drift' = drift,
         cmd'[p].old = cmd[p].old, cmd'[p].new = cmd[p].new,
         cmd'[p].before = cmd[p].before, cmd'[p].staged \subseteq cmd[p].before,
         \/ pc'[p] \in {"accepted", "failed"} \/ pc[p] \notin {"accepted", "failed"}
         \/ \A i \in cmd[p].before, c \in cmd[p].new : i.file # YamlFile[c],
         OneEach(yaml)', Proper(yaml)', PlaceInv(p)', RevokeInv(p)'
  PROVE  YamlInv'
  <1>1. Enabled' = Enabled /\ Issued' = Issued
    BY DEF Enabled, Issued
  <1>2. IssuedInv'
    BY <1>1 DEF YamlInv, IssuedInv
  <1>3. CommandYaml(p)
    BY DEF YamlInv
  <1>4. RequestInv(p)'
    BY <1>1, <1>3 DEF CommandYaml, RequestInv
  <1>5. BeforeInv(p)'
    <2>1. ~drift => Current(cmd[p].before)
      BY <1>3 DEF CommandYaml, BeforeInv
    <2>2. ~drift' => Current(cmd[p].before)'
      BY <1>1, <2>1 DEF Current
    <2> QED BY <1>3, <2>2 DEF CommandYaml, BeforeInv, OneEach, Proper, YamlOf
  <1>6. lock' # "free"
    OBVIOUS
  <1> QED BY <1>2, <1>4, <1>5, <1>6 DEF YamlInv, CommandYaml

\* Steps that move a command on and leave the directory alone.
StageOnly(p) ==
  \/ Prepare(p) \/ PrepareFails(p) \/ ApplyFails(p) \/ ReplaceConfig(p) \/ Restart(p)
  \/ Verify(p) \/ VerifyApplied(p) \/ StepFails(p) \/ RestoreConfig(p) \/ RestartAgain(p)
  \/ VerifyAgain(p) \/ RolledBack(p)
  \/ \E c \in Credential : InspectFails(p, c)

Inner == {"replaced", "restarted", "verified", "applied"}
Outer == {"rollback", "restored", "reloaded", "cleaning"}

\* Between which stages they do.
LEMMA StageOnlyFrame ==
  ASSUME TypeOK, NEW p \in Command, StageOnly(p)
  PROVE  /\ lock' = lock /\ row' = row /\ issued' = issued /\ drift' = drift
         /\ yaml' = yaml /\ saved' = saved
         /\ \A q \in Command \ {p} : pc'[q] = pc[q]
         /\ cmd' = cmd \/ Fault(p)
         /\ \/ /\ pc[p] = "accepted" /\ pc'[p] = "staging"
               /\ \A c \in cmd[p].new, i \in yaml : i.file # YamlFile[c]
            \/ pc[p] \in {"accepted", "staging"} /\ pc'[p] = "failed" /\ cmd' = cmd
            \/ pc[p] = "staging" /\ pc'[p] = "unstaging"
            \/ pc[p] = "staging" /\ pc'[p] \in Inner /\ cmd[p].todo = {}
            \/ pc[p] \in Inner /\ pc'[p] \in Inner
            \/ pc[p] \in Inner \cup {"published"} \cup Outer /\ pc'[p] \in Outer
            \/ /\ pc[p] = "unstaging" /\ pc'[p] = "failed" /\ cmd' = cmd
               /\ cmd[p].staged = {}
  <1>1. ASSUME Prepare(p) \/ PrepareFails(p) \/ ApplyFails(p) \/ ReplaceConfig(p)
               \/ RolledBack(p) \/ \E c \in Credential : InspectFails(p, c)
        PROVE  /\ UNCHANGED <<lock, row, issued, drift, yaml, saved, cmd>>
               /\ \A q \in Command \ {p} : pc'[q] = pc[q]
               /\ \/ /\ pc[p] = "accepted" /\ pc'[p] = "staging"
                     /\ \A c \in cmd[p].new, i \in yaml : i.file # YamlFile[c]
                  \/ pc[p] \in {"accepted", "staging"} /\ pc'[p] = "failed"
                  \/ pc[p] = "staging" /\ pc'[p] = "unstaging"
                  \/ pc[p] = "staging" /\ pc'[p] \in Inner /\ cmd[p].todo = {}
                  \/ pc[p] = "unstaging" /\ pc'[p] = "failed" /\ cmd[p].staged = {}
    BY <1>1 DEF Prepare, PrepareFails, ApplyFails, ReplaceConfig, RolledBack, InspectFails,
                Goto, files, TypeOK, Inner
  <1>2. ASSUME Restart(p) \/ Verify(p) \/ VerifyApplied(p) \/ StepFails(p)
        PROVE  /\ UNCHANGED <<lock, row, issued, drift, yaml, saved, cmd>>
               /\ \A q \in Command \ {p} : pc'[q] = pc[q]
               /\ \/ pc[p] \in Inner /\ pc'[p] \in Inner
                  \/ pc[p] \in Inner \cup {"published"} \cup Outer /\ pc'[p] \in Outer
    BY <1>2 DEF Restart, Verify, VerifyApplied, StepFails, Goto, files, TypeOK, Inner, Outer
  <1>3. ASSUME RestoreConfig(p) \/ RestartAgain(p) \/ VerifyAgain(p)
        PROVE  /\ UNCHANGED <<lock, row, issued, drift, yaml, saved>>
               /\ \A q \in Command \ {p} : pc'[q] = pc[q]
               /\ cmd' = cmd \/ Fault(p)
               /\ pc[p] \in Outer /\ pc'[p] \in Outer
    BY <1>3 DEF RestoreConfig, RestartAgain, VerifyAgain, Goto, files, TypeOK, Outer
  <1> QED BY <1>1, <1>2, <1>3 DEF StageOnly

\* A fault leaves the other local variables as they are.
LEMMA FaultFrame ==
  ASSUME TypeOK, NEW p \in Command, cmd' = cmd \/ Fault(p)
  PROVE  /\ cmd'[p].old = cmd[p].old /\ cmd'[p].new = cmd[p].new
         /\ cmd'[p].before = cmd[p].before /\ cmd'[p].staged = cmd[p].staged
         /\ cmd'[p].todo = cmd[p].todo
         /\ cmd[p].fault \in BOOLEAN /\ cmd'[p].fault \in BOOLEAN
         /\ cmd[p].fault => cmd'[p].fault
         /\ Published(p)' = Published(p)
  <1> DEFINE l == cmd[p]
             m == cmd'[p]
  <1>1. l \in Local
    BY DEF TypeOK
  <1>2. m = l \/ m = [l EXCEPT !.fault = TRUE]
    BY DEF Fault, TypeOK
  <1> HIDE DEF l, m
  <1>3. /\ m.old = l.old /\ m.new = l.new /\ m.before = l.before /\ m.staged = l.staged
        /\ m.todo = l.todo /\ l.fault \in BOOLEAN /\ m.fault \in BOOLEAN
        /\ l.fault => m.fault
    BY <1>1, <1>2 DEF Local
  <1>4. Published(p)' = Published(p)
    BY <1>3 DEF Published, YamlOf, l, m
  <1> QED BY <1>3, <1>4 DEF l, m

LEMMA StageOnlyKeepsYaml ==
  ASSUME ProvisionInv, YamlInv, NEW p \in Command, StageOnly(p)
  PROVE  YamlInv'
  <1>1. TypeOK
    BY DEF ProvisionInv
  <1>2. pc[p] # "idle" /\ pc[p] # "committed" /\ pc'[p] # "committed" /\ pc'[p] # "idle"
    BY <1>1, StageOnlyFrame DEF Inner, Outer
  <1>3. lock' = p /\ \A q \in Command \ {p} : pc'[q] = "idle"
    BY <1>1, <1>2, Alone, StageOnlyFrame
  <1>4. CommandYaml(p)
    BY <1>2 DEF YamlInv
  <1>5. cmd' = cmd \/ Fault(p)
    BY <1>1, StageOnlyFrame
  <1>6. /\ cmd'[p].old = cmd[p].old /\ cmd'[p].new = cmd[p].new
        /\ cmd'[p].before = cmd[p].before /\ cmd'[p].staged = cmd[p].staged
        /\ cmd'[p].todo = cmd[p].todo
        /\ cmd[p].fault \in BOOLEAN /\ cmd'[p].fault \in BOOLEAN
        /\ cmd[p].fault => cmd'[p].fault
        /\ Published(p)' = Published(p)
    BY <1>1, <1>5, FaultFrame
  <1>7. PlaceInv(p)'
    <2>1. PlaceInv(p)
      BY <1>4 DEF CommandYaml
    <2> QED BY <1>1, <1>6, <2>1, StageOnlyFrame DEF PlaceInv, Inner, Outer
  <1>8. RevokeInv(p)'
    <2>1. RevokeInv(p)
      BY <1>4 DEF CommandYaml
    <2> QED BY <1>1, <1>6, <2>1, StageOnlyFrame DEF RevokeInv, Inner, Outer
  <1>9. \/ pc'[p] \in {"accepted", "failed"} \/ pc[p] \notin {"accepted", "failed"}
        \/ \A i \in cmd[p].before, c \in cmd[p].new : i.file # YamlFile[c]
    <2>1. SUFFICES ASSUME pc[p] \in {"accepted", "failed"}, pc'[p] \notin {"accepted", "failed"}
                   PROVE  \A i \in cmd[p].before, c \in cmd[p].new : i.file # YamlFile[c]
      OBVIOUS
    <2>2. pc[p] = "accepted" /\ \A c \in cmd[p].new, i \in yaml : i.file # YamlFile[c]
      BY <1>1, <2>1, StageOnlyFrame DEF Inner, Outer
    <2>3. cmd[p].before \subseteq yaml
      BY <1>4, <2>2 DEF CommandYaml, PlaceInv
    <2> QED BY <2>2, <2>3
  <1>10. cmd'[p].staged \subseteq cmd[p].before
    BY <1>4, <1>6 DEF CommandYaml, BeforeInv
  <1>11. OneEach(yaml)' /\ Proper(yaml)'
    BY <1>1, StageOnlyFrame DEF YamlInv, OneEach, Proper, YamlOf
  <1>12. row' = row /\ issued' = issued /\ drift' = drift
    BY <1>1, StageOnlyFrame
  <1> QED BY <1>2, <1>3, <1>6, <1>7, <1>8, <1>9, <1>10, <1>11, <1>12, WorkKeepsYaml

LEMMA NamesMatch ==
  \A c \in Credential : YamlOf(c).file = YamlFile[c] /\ YamlOf(c).of = c
BY DEF YamlOf

LEMMA StageKeepsYaml ==
  ASSUME ProvisionInv, YamlInv, NEW p \in Command, NEW c \in Credential, StageYaml(p, c)
  PROVE  YamlInv'
  <1>1. cmd[p] \in Local
    BY DEF ProvisionInv, TypeOK
  <1>2. pc[p] = "staging" /\ pc' = pc /\ lock' = lock
        /\ UNCHANGED <<row, issued, drift>>
        /\ yaml' = yaml \ InPlace(c) /\ saved' = saved \cup InPlace(c)
    BY DEF StageYaml
  <1>3. /\ cmd'[p].todo = cmd[p].todo \ {c}
        /\ cmd'[p].staged = cmd[p].staged \cup InPlace(c)
        /\ cmd'[p].old = cmd[p].old /\ cmd'[p].new = cmd[p].new
        /\ cmd'[p].before = cmd[p].before /\ cmd'[p].fault = cmd[p].fault
    BY <1>1 DEF StageYaml, ProvisionInv, TypeOK, Local
  <1>4. lock' = p /\ \A q \in Command \ {p} : pc'[q] = "idle"
    BY <1>2, Alone
  <1>5. CommandYaml(p) /\ OneEach(yaml) /\ Proper(yaml)
    BY <1>2 DEF YamlInv
  <1>6. yaml \subseteq cmd[p].before /\ InPlace(c) \subseteq yaml
    BY <1>2, <1>5 DEF CommandYaml, PlaceInv, InPlace
  <1>7. cmd'[p].staged \subseteq cmd[p].before
    BY <1>3, <1>5, <1>6 DEF CommandYaml, BeforeInv
  <1>8. PlaceInv(p)'
    BY <1>2, <1>3, <1>5, <1>6 DEF CommandYaml, PlaceInv
  <1>9. RevokeInv(p)'
    <2>1. ASSUME NEW i \in yaml', i.of = c PROVE FALSE
      <3>1. i \in yaml /\ i = YamlOf(i.of)
        BY <1>2, <1>5 DEF Proper
      <3>2. i.file = YamlFile[c]
        BY <2>1, <3>1, NamesMatch
      <3> QED BY <1>2, <3>1, <3>2 DEF InPlace
    <2>2. \A i \in yaml : i.of \in cmd[p].old => i.of \in cmd[p].todo
      BY <1>2, <1>5 DEF CommandYaml, RevokeInv
    <2> QED BY <1>2, <1>3, <2>1, <2>2 DEF RevokeInv
  <1>10. OneEach(yaml)' /\ Proper(yaml)'
    BY <1>2, <1>5 DEF OneEach, Proper, YamlOf
  <1> QED BY <1>2, <1>3, <1>4, <1>7, <1>8, <1>9, <1>10, WorkKeepsYaml

LEMMA PublishKeepsYaml ==
  ASSUME ProvisionInv, YamlInv, NEW p \in Command,
         PublishYaml(p) \/ \E i \in Item : PurgeYaml(p, i)
  PROVE  YamlInv'
  <1>1. /\ UNCHANGED <<lock, row, issued, drift, cmd>>
        /\ \A q \in Command \ {p} : pc'[q] = pc[q]
        /\ \/ /\ pc[p] = "applied" /\ pc'[p] = "published"
              /\ yaml' = yaml \cup Published(p)
           \/ pc[p] = "published" /\ pc'[p] = "published" /\ yaml' = yaml
    BY DEF PublishYaml, PurgeYaml, Goto, Published, ProvisionInv, TypeOK
  <1>2. lock' = p /\ \A q \in Command \ {p} : pc'[q] = "idle"
    BY <1>1, Alone
  <1>3. CommandYaml(p) /\ OneEach(yaml) /\ Proper(yaml)
    BY <1>1 DEF YamlInv
  <1>4. Published(p)' = Published(p) /\ cmd[p].new \subseteq Credential
    BY <1>1 DEF Published, YamlOf, ProvisionInv, TypeOK, Local
  <1>5. PlaceInv(p)'
    BY <1>1, <1>3, <1>4 DEF CommandYaml, PlaceInv
  <1>6. RevokeInv(p)'
    <2>1. \A i \in Published(p) : i.of \notin cmd[p].old
      BY <1>3, <1>4, NamesMatch DEF Published, CommandYaml, RequestInv
    <2>2. \A i \in yaml : i.of \notin cmd[p].old
      BY <1>1, <1>3 DEF CommandYaml, RevokeInv
    <2> QED BY <1>1, <2>1, <2>2 DEF RevokeInv
  <1>7. OneEach(yaml)' /\ Proper(yaml)'
    <2>1. CASE yaml' = yaml
      BY <1>3, <2>1 DEF OneEach, Proper, YamlOf
    <2>2. CASE pc[p] = "applied" /\ yaml' = yaml \cup Published(p)
      <3>1. \A i \in yaml, c \in cmd[p].new : i.file # YamlFile[c]
        BY <1>3, <2>2 DEF CommandYaml, PlaceInv, BeforeInv
      <3>2. \A i \in Published(p) :
              /\ i = YamlOf(i.of)
              /\ \E c \in cmd[p].new : i = YamlOf(c) /\ i.file = YamlFile[c]
        BY <1>4, NamesMatch DEF Published
      <3>3. \A c, d \in cmd[p].new : c = d
        BY <1>3 DEF CommandYaml, RequestInv
      <3>4. ASSUME NEW i \in yaml \cup Published(p), NEW j \in yaml \cup Published(p),
                   i.file = j.file
            PROVE  i = j
        <4>1. CASE i \in yaml /\ j \in yaml
          BY <1>3, <3>4, <4>1 DEF OneEach
        <4>2. CASE i \in Published(p) /\ j \in Published(p)
          BY <3>2, <3>3, <4>2
        <4>3. CASE i \in yaml /\ j \in Published(p)
          BY <3>1, <3>2, <3>4, <4>3
        <4>4. CASE i \in Published(p) /\ j \in yaml
          BY <3>1, <3>2, <3>4, <4>4
        <4> QED BY <4>1, <4>2, <4>3, <4>4
      <3>5. \A i \in yaml : i = YamlOf(i.of)
        BY <1>3 DEF Proper
      <3>6. OneEach(yaml)'
        BY <2>2, <3>4 DEF OneEach
      <3>7. Proper(yaml)'
        BY <2>2, <3>2, <3>5 DEF Proper, YamlOf
      <3> QED BY <3>6, <3>7
    <2> QED BY <1>1, <2>1, <2>2
  <1>8. cmd'[p].staged \subseteq cmd[p].before
    BY <1>1, <1>3 DEF CommandYaml, BeforeInv
  <1> QED BY <1>1, <1>2, <1>5, <1>6, <1>7, <1>8, WorkKeepsYaml

LEMMA RemoveKeepsYaml ==
  ASSUME ProvisionInv, YamlInv, NEW p \in Command, RemoveUncommittedYaml(p)
  PROVE  YamlInv'
  <1>1. /\ UNCHANGED <<lock, row, issued, drift, saved>>
        /\ \A q \in Command \ {p} : pc'[q] = pc[q]
        /\ pc[p] = "cleaning" /\ pc'[p] = "unstaging"
        /\ cmd' = cmd \/ Fault(p)
        /\ \/ /\ yaml' = {i \in yaml : \A c \in cmd[p].new : i.file # YamlFile[c]}
              /\ cmd' = cmd
           \/ yaml' = yaml /\ Fault(p)
    BY DEF RemoveUncommittedYaml, Goto, ProvisionInv, TypeOK
  <1>2. lock' = p /\ \A q \in Command \ {p} : pc'[q] = "idle"
    BY <1>1, Alone
  <1>3. CommandYaml(p) /\ OneEach(yaml) /\ Proper(yaml)
    BY <1>1 DEF YamlInv
  <1>4. /\ cmd'[p].old = cmd[p].old /\ cmd'[p].new = cmd[p].new
        /\ cmd'[p].before = cmd[p].before /\ cmd'[p].staged = cmd[p].staged
        /\ cmd[p].fault \in BOOLEAN /\ cmd'[p].fault \in BOOLEAN
        /\ cmd[p].fault => cmd'[p].fault
        /\ Published(p)' = Published(p)
    BY <1>1, FaultFrame DEF ProvisionInv
  <1>5. Fault(p) => cmd'[p].fault
    BY DEF Fault, ProvisionInv, TypeOK, Local
  <1>6. yaml' \subseteq yaml
    BY <1>1
  <1>7. PlaceInv(p)'
    <2>1. CASE cmd'[p].fault
      BY <1>1, <1>3, <1>4, <1>6, <2>1 DEF CommandYaml, PlaceInv
    <2>2. CASE ~cmd'[p].fault
      <3>1. yaml' = {i \in yaml : \A c \in cmd[p].new : i.file # YamlFile[c]}
        BY <1>1, <1>5, <2>2
      <3>2. cmd[p].new \subseteq Credential
        BY DEF ProvisionInv, TypeOK, Local
      <3>3. yaml' \subseteq cmd[p].before
        BY <1>3, <3>1, <3>2, NamesMatch DEF CommandYaml, PlaceInv, Published
      <3>4. cmd[p].before \subseteq yaml \cup cmd[p].staged
        BY <1>1, <1>3, <1>4, <2>2 DEF CommandYaml, PlaceInv
      <3>5. \A i \in cmd[p].before, c \in cmd[p].new : i.file # YamlFile[c]
        BY <1>1, <1>3 DEF CommandYaml, BeforeInv
      <3>6. cmd[p].before \subseteq yaml' \cup cmd[p].staged
        BY <3>1, <3>4, <3>5
      <3> QED BY <1>1, <1>4, <3>3, <3>6 DEF PlaceInv
    <2> QED BY <2>1, <2>2
  <1>8. RevokeInv(p)'
    BY <1>1 DEF RevokeInv
  <1>9. OneEach(yaml)' /\ Proper(yaml)'
    BY <1>3, <1>6 DEF OneEach, Proper, YamlOf
  <1>10. cmd'[p].staged \subseteq cmd[p].before
    BY <1>3, <1>4 DEF CommandYaml, BeforeInv
  <1> QED BY <1>1, <1>2, <1>4, <1>7, <1>8, <1>9, <1>10, WorkKeepsYaml

LEMMA RestoreKeepsYaml ==
  ASSUME ProvisionInv, YamlInv, NEW p \in Command, NEW i \in Item, RestoreYaml(p, i)
  PROVE  YamlInv'
  <1>1. /\ UNCHANGED <<lock, row, issued, drift, pc>>
        /\ pc[p] = "unstaging" /\ i \in cmd[p].staged
        /\ \/ yaml' = {j \in yaml : j.file # i.file} \cup {i}
           \/ yaml' = yaml /\ cmd'[p].fault
    BY DEF RestoreYaml, ProvisionInv, TypeOK, Local
  <1>2. lock' = p /\ \A q \in Command \ {p} : pc'[q] = "idle"
    BY <1>1, Alone
  <1>3. CommandYaml(p) /\ OneEach(yaml) /\ Proper(yaml)
    BY <1>1 DEF YamlInv
  <1>4. /\ cmd'[p].old = cmd[p].old /\ cmd'[p].new = cmd[p].new
        /\ cmd'[p].before = cmd[p].before /\ cmd'[p].staged = cmd[p].staged \ {i}
        /\ cmd[p].fault \in BOOLEAN /\ cmd'[p].fault \in BOOLEAN
        /\ cmd[p].fault => cmd'[p].fault
    BY DEF RestoreYaml, ProvisionInv, TypeOK, Local
  <1>5. Published(p)' = Published(p)
    BY <1>4 DEF Published, YamlOf
  <1>6. i \in cmd[p].before /\ cmd[p].staged \subseteq cmd[p].before
    BY <1>1, <1>3 DEF CommandYaml, BeforeInv
  <1>7. yaml' \subseteq yaml \cup {i}
    BY <1>1
  <1>8. ~cmd'[p].fault => cmd[p].before \subseteq yaml' \cup cmd'[p].staged
    <2> SUFFICES ASSUME ~cmd'[p].fault, NEW j \in cmd[p].before
                 PROVE  j \in yaml' \cup cmd'[p].staged
      OBVIOUS
    <2>1. j \in yaml \cup cmd[p].staged
      BY <1>1, <1>3, <1>4 DEF CommandYaml, PlaceInv
    <2>2. j.file = i.file => j = i
      BY <1>3, <1>6 DEF CommandYaml, BeforeInv, OneEach
    <2> QED BY <1>1, <1>4, <2>1, <2>2
  <1>9. PlaceInv(p)'
    BY <1>1, <1>3, <1>4, <1>5, <1>6, <1>7, <1>8 DEF CommandYaml, PlaceInv
  <1>10. RevokeInv(p)'
    BY <1>1 DEF RevokeInv
  <1>11. OneEach(yaml)' /\ Proper(yaml)'
    <2>1. i = YamlOf(i.of)
      BY <1>3, <1>6 DEF CommandYaml, BeforeInv, Proper
    <2>2. Proper(yaml)'
      BY <1>3, <1>7, <2>1 DEF Proper, YamlOf
    <2>3. OneEach(yaml)'
      BY <1>1, <1>3 DEF OneEach
    <2> QED BY <2>2, <2>3
  <1>12. cmd'[p].staged \subseteq cmd[p].before
    BY <1>4, <1>6
  <1> QED BY <1>1, <1>2, <1>4, <1>9, <1>10, <1>11, <1>12, WorkKeepsYaml

LEMMA CommitKeepsYaml ==
  ASSUME ProvisionInv, YamlInv, NEW p \in Command, Commit(p)
  PROVE  YamlInv'
  <1>1. /\ UNCHANGED <<lock, yaml, saved, issued, cmd, drift>>
        /\ \A q \in Command \ {p} : pc'[q] = pc[q]
        /\ pc[p] = "published" /\ pc'[p] = "committed"
    BY DEF Commit, Goto, files, ProvisionInv, TypeOK
  <1>2. lock' = p /\ lock' # "free" /\ \A q \in Command \ {p} : pc'[q] = "idle"
    BY <1>1, Alone
  <1>3. CommandYaml(p) /\ OneEach(yaml) /\ Proper(yaml) /\ IssuedInv
    BY <1>1 DEF YamlInv
  <1>4. cmd[p].old \subseteq Credential /\ cmd[p].new \subseteq Credential
    BY DEF ProvisionInv, TypeOK, Local
  <1>5. Enabled' = (Enabled \ cmd[p].old) \cup cmd[p].new
    BY <1>4 DEF Commit, Enabled, ProvisionInv, TypeOK
  <1>6. IssuedInv'
    <2>1. cmd[p].new \subseteq Issued /\ Issued' = Issued
      BY <1>1, <1>3, <1>4 DEF CommandYaml, RequestInv, Issued
    <2> QED BY <1>1, <1>3, <1>5, <2>1 DEF IssuedInv
  <1>7. RequestInv(p)'
    BY <1>1, <1>3, <1>5 DEF CommandYaml, RequestInv
  <1>8. ~drift => Current(yaml)'
    <2> SUFFICES ASSUME ~drift, NEW i \in yaml
                 PROVE  /\ i.of \in Enabled'
                        /\ \A d \in Enabled' : YamlFile[d] = i.file => <<d, i.of>> \in issued
      BY <1>1 DEF Current
    <2>1. i \in cmd[p].before \cup Published(p)
      BY <1>3 DEF CommandYaml, PlaceInv
    <2>2. CASE i \in cmd[p].before
      <3>1. /\ i.of \in Enabled
            /\ \A d \in Enabled : YamlFile[d] = i.file => <<d, i.of>> \in issued
        BY <1>1, <1>3, <2>2 DEF CommandYaml, BeforeInv, Current
      <3>2. i.of \notin cmd[p].old
        BY <1>1, <1>3 DEF CommandYaml, RevokeInv
      <3>3. \A d \in cmd[p].new : YamlFile[d] # i.file
        BY <1>1, <1>3, <2>2 DEF CommandYaml, BeforeInv
      <3> QED BY <1>5, <3>1, <3>2, <3>3
    <2>3. CASE i \in Published(p)
      <3>1. i.of \in cmd[p].new
        BY <1>4, <2>3, NamesMatch DEF Published
      <3> QED BY <1>3, <1>5, <3>1 DEF CommandYaml, RequestInv
    <2> QED BY <2>1, <2>2, <2>3
  <1>9. BeforeInv(p)'
    BY <1>1, <1>3, <1>8 DEF CommandYaml, BeforeInv, OneEach, Proper, YamlOf
  <1>10. PlaceInv(p)' /\ RevokeInv(p)'
    BY <1>1, <1>3 DEF CommandYaml, PlaceInv, RevokeInv, Published, YamlOf
  <1>11. OneEach(yaml)' /\ Proper(yaml)'
    BY <1>1, <1>3 DEF OneEach, Proper, YamlOf
  <1> QED BY <1>2, <1>6, <1>7, <1>9, <1>10, <1>11 DEF YamlInv, CommandYaml

LEMMA EndKeepsYaml ==
  ASSUME ProvisionInv, YamlInv, NEW p \in Command, Return(p) \/ Crash(p)
  PROVE  YamlInv'
  <1>1. /\ UNCHANGED <<row, yaml, issued>>
        /\ pc[p] # "idle" /\ pc'[p] = "idle"
        /\ \A q \in Command \ {p} : pc'[q] = pc[q]
    BY DEF Return, Crash, Goto, files, ProvisionInv, TypeOK
  <1>2. \A q \in Command : pc'[q] = "idle"
    BY <1>1, Alone
  <1>3. CommandYaml(p) /\ OneEach(yaml) /\ Proper(yaml) /\ IssuedInv
    BY <1>1 DEF YamlInv
  <1>4. Enabled' = Enabled /\ Issued' = Issued
    BY <1>1 DEF Enabled, Issued
  <1>5. ~drift' => /\ ~drift /\ ~cmd[p].fault
                   /\ pc[p] \in {"accepted", "staging", "committed", "failed"}
    BY DEF Return, Crash, Halfway, ProvisionInv, TypeOK, Local, Stages
  <1>6. ~drift' => Current(yaml)
    BY <1>3, <1>5 DEF CommandYaml, BeforeInv, PlaceInv, Current
  <1>7. ~drift' => Current(yaml)'
    BY <1>1, <1>4, <1>6 DEF Current
  <1>8. IssuedInv' /\ OneEach(yaml)' /\ Proper(yaml)'
    BY <1>1, <1>3, <1>4 DEF IssuedInv, OneEach, Proper, YamlOf
  <1> QED BY <1>2, <1>7, <1>8 DEF YamlInv

\* Another UUID is issued after all that were.
LEMMA AcceptKeepsYaml ==
  ASSUME ProvisionInv, YamlInv, NEW p \in Command,
         NEW old \in SUBSET Credential, NEW new \in SUBSET Credential, Accept(p, old, new),
         new \cap Issued = {}, \A c, d \in new : c = d
  PROVE  YamlInv'
  <1>1. \A q \in Command : pc[q] = "idle"
    BY DEF Accept, ProvisionInv, Exclusion
  <1>2. /\ UNCHANGED <<row, yaml, drift>> /\ lock = "free" /\ lock' = p /\ lock' # "free"
        /\ pc'[p] = "accepted" /\ \A q \in Command \ {p} : pc'[q] = "idle"
        /\ cmd'[p] = Begun(old, new) /\ old \cap new = {}
        /\ issued' = issued \cup ((Issued \cup new) \X new)
    BY <1>1 DEF Accept, Goto, Issue, files, ProvisionInv, TypeOK
  <1>3. OneEach(yaml) /\ Proper(yaml) /\ IssuedInv /\ (~drift => Current(yaml))
    BY <1>2 DEF YamlInv
  <1>4. Enabled' = Enabled /\ Issued' = Issued \cup new /\ Issued \subseteq Credential
    BY <1>2 DEF Enabled, Issued
  <1>5. IssuedInv'
    BY <1>2, <1>3, <1>4 DEF IssuedInv
  <1>6. /\ cmd'[p].old = old /\ cmd'[p].new = new /\ cmd'[p].before = yaml
        /\ cmd'[p].staged = {} /\ cmd'[p].todo = old
    BY <1>2 DEF Begun
  <1>7. RequestInv(p)'
    BY <1>2, <1>3, <1>4, <1>6 DEF RequestInv, IssuedInv
  <1>8. ~drift' => Current(yaml)'
    BY <1>2, <1>3, <1>4 DEF Current
  <1>9. OneEach(yaml)' /\ Proper(yaml)'
    BY <1>2, <1>3 DEF OneEach, Proper, YamlOf
  <1>10. BeforeInv(p)'
    BY <1>2, <1>3, <1>6, <1>8, <1>9 DEF BeforeInv, OneEach, Proper, Current, YamlOf
  <1>11. PlaceInv(p)' /\ RevokeInv(p)'
    BY <1>2, <1>6 DEF PlaceInv, RevokeInv
  <1> QED BY <1>2, <1>5, <1>7, <1>9, <1>10, <1>11 DEF YamlInv, CommandYaml

\* The directory and what commands know of it are left alone, or the owner
\* takes a file while no command is under way.
LEMMA EnvironmentKeepsYaml ==
  ASSUME ProvisionInv, YamlInv, UNCHANGED <<lock, row, issued, pc, cmd, drift, saved>>,
         yaml' = yaml \/ (lock = "free" /\ yaml' \subseteq yaml)
  PROVE  YamlInv'
  <1>1. Enabled' = Enabled /\ Issued' = Issued
    BY DEF Enabled, Issued
  <1>2. IssuedInv' /\ OneEach(yaml)' /\ Proper(yaml)'
    BY <1>1 DEF YamlInv, IssuedInv, OneEach, Proper, YamlOf
  <1>3. lock' = "free" /\ ~drift' => Current(yaml)'
    BY <1>1 DEF YamlInv, Current
  <1>4. ASSUME NEW p \in Command, pc'[p] # "idle" PROVE CommandYaml(p)'
    <2>1. yaml' = yaml /\ CommandYaml(p)
      BY <1>4, Alone DEF YamlInv
    <2>2. RequestInv(p)' /\ BeforeInv(p)'
      BY <1>1, <2>1 DEF CommandYaml, RequestInv, BeforeInv, OneEach, Proper, Current, YamlOf
    <2>3. PlaceInv(p)' /\ RevokeInv(p)'
      BY <2>1 DEF CommandYaml, PlaceInv, RevokeInv, Published, YamlOf
    <2> QED BY <2>2, <2>3 DEF CommandYaml
  <1> QED BY <1>2, <1>3, <1>4 DEF YamlInv

LEMMA InitYaml == Init => YamlInv
  <1> SUFFICES ASSUME Init PROVE YamlInv
    OBVIOUS
  <1>1. Enabled \subseteq Credential
    BY DEF Enabled
  <1>2. /\ issued \subseteq Enabled \X Enabled
        /\ \A c, d \in Enabled : <<c, d>> \in issued \/ <<d, c>> \in issued
        /\ \A c, d \in Enabled : <<c, d>> \in issued /\ <<d, c>> \in issued => c = d
    BY DEF Init, Orders
  <1>3. IssuedInv
    <2>1. Issued = Enabled
      BY <1>1, <1>2 DEF Issued
    <2> QED BY <1>1, <1>2, <2>1 DEF IssuedInv
  <1>4. \A i \in yaml : i.of \in Enabled /\ i = YamlOf(i.of)
    BY <1>1, NamesMatch DEF Init
  <1>5. OneEach(yaml) /\ Proper(yaml)
    BY <1>4 DEF Init, OneEach, Proper
  <1>6. Current(yaml)
    <2> SUFFICES ASSUME NEW i \in yaml, NEW d \in Enabled, YamlFile[d] = i.file
                 PROVE  <<d, i.of>> \in issued
      BY <1>4 DEF Current
    <2>1. YamlOf(d) \in yaml
      BY DEF Init
    <2>2. YamlOf(d) = i
      BY <1>1, <1>5, <2>1, NamesMatch DEF OneEach
    <2>3. d = i.of
      BY <1>1, <2>2, NamesMatch
    <2> QED BY <1>2, <2>3
  <1> QED BY <1>3, <1>5, <1>6 DEF Init, YamlInv

LEMMA YamlStep == ProvisionInv /\ YamlInv /\ [Next]_vars => YamlInv'
  <1> SUFFICES ASSUME ProvisionInv, YamlInv, [Next]_vars PROVE YamlInv'
    OBVIOUS
  <1>1. CASE \/ UNCHANGED vars \/ Stop \/ Start
             \/ \E c \in Credential : Traffic(c)
             \/ \E i \in Item : TakeYaml(i)
    <2>1. /\ UNCHANGED <<lock, row, issued, pc, cmd, drift, saved>>
          /\ yaml' = yaml \/ (lock = "free" /\ yaml' \subseteq yaml)
      BY <1>1 DEF vars, Stop, Start, Traffic, TakeYaml, files
    <2> QED BY <2>1, EnvironmentKeepsYaml
  <1>2. ASSUME NEW p \in Command,
               \/ \E c \in Credential : Add(p, c)
               \/ \E a, c \in Credential : Rotate(p, a, c)
               \/ \E old \in SUBSET Credential : DisableOrRemove(p, old)
        PROVE  YamlInv'
    <2>1. PICK old \in SUBSET Credential, new \in SUBSET Credential :
            /\ Accept(p, old, new)
            /\ new \cap Issued = {} /\ \A c, d \in new : c = d
      <3>1. CASE \E c \in Credential : Add(p, c)
        <4>1. PICK c \in Credential : Add(p, c)
          BY <3>1
        <4>2. Accept(p, {}, {c}) /\ {c} \cap Issued = {}
          BY <4>1 DEF Add, Fresh
        <4> QED BY <4>2
      <3>2. CASE \E a, c \in Credential : Rotate(p, a, c)
        <4>1. PICK a, c \in Credential : Rotate(p, a, c)
          BY <3>2
        <4>2. Accept(p, {a}, {c}) /\ {c} \cap Issued = {}
          BY <4>1 DEF Rotate, Fresh
        <4> QED BY <4>2
      <3>3. CASE \E old \in SUBSET Credential : DisableOrRemove(p, old)
        <4>1. PICK old \in SUBSET Credential : Accept(p, old, {})
          BY <3>3 DEF DisableOrRemove
        <4> QED BY <4>1
      <3> QED BY <1>2, <3>1, <3>2, <3>3
    <2> QED BY <2>1, AcceptKeepsYaml
  <1>3. ASSUME NEW p \in Command, Apply(p) \/ Rollback(p) PROVE YamlInv'
    <2>1. \/ StageOnly(p) \/ PublishYaml(p) \/ Commit(p) \/ RemoveUncommittedYaml(p)
          \/ \E c \in Credential : StageYaml(p, c)
          \/ \E i \in Item : PurgeYaml(p, i) \/ RestoreYaml(p, i)
      BY <1>3 DEF Apply, Rollback, StageOnly
    <2> QED BY <2>1, StageOnlyKeepsYaml, PublishKeepsYaml, CommitKeepsYaml, RemoveKeepsYaml,
               StageKeepsYaml, RestoreKeepsYaml
  <1>4. ASSUME NEW p \in Command, Return(p) \/ Crash(p) PROVE YamlInv'
    BY <1>4, EndKeepsYaml
  <1> QED BY <1>1, <1>2, <1>3, <1>4 DEF Next

LEMMA YamlHolds == Spec => [](ProvisionInv /\ YamlInv)
  <1>1. Init => ProvisionInv /\ YamlInv
    BY InitAgreement, InitYaml
  <1>2. (ProvisionInv /\ YamlInv) /\ [Next]_vars => (ProvisionInv /\ YamlInv)'
    BY AgreementStep, YamlStep
  <1> QED BY <1>1, <1>2, PTL DEF Spec

\* Between commands, and unless one died halfway or reported that it could not
\* restore, every YAML file is that of an enabled credential.
THEOREM NoYamlIsStray == Spec => []NoStrayYaml
  <1>1. YamlInv => NoStrayYaml
    BY DEF YamlInv, Current, NoStrayYaml
  <1> QED BY <1>1, YamlHolds, PTL

\* A command that fails, and does not report that it could not restore, has
\* lost no YAML file it found.
THEOREM FailuresKeepYaml == Spec => []FailureKeepsYaml
  <1>1. YamlInv => FailureKeepsYaml
    BY DEF YamlInv, CommandYaml, PlaceInv, FailureKeepsYaml
  <1> QED BY <1>1, YamlHolds, PTL

\* An item of the consistency check on credentials or YAML files is an error, or
\* warns of a revoked credential's file, between commands only after one that
\* died halfway or could not restore.
THEOREM AlarmsAreTrue == Spec => []CheckRaisesNoFalseAlarm
  <1>1. ASSUME ProvisionInv, YamlInv PROVE CheckRaisesNoFalseAlarm
    <2> SUFFICES ASSUME lock = "free", ~drift
                 PROVE  /\ \A item \in {"runtime", "stats", "content"} :
                             CredentialItems[item] # "error"
                        /\ CredentialItems.revoked = "ok"
      BY DEF CheckRaisesNoFalseAlarm
    <2>1. config = Enabled /\ (up => loaded = Enabled) /\ exposed \subseteq loaded
      BY <1>1 DEF ProvisionInv, Agreement, TypeOK
    <2>2. SetsMatch /\ (up => Unexpected = {})
      BY <2>1 DEF SetsMatch, Unexpected
    <2>3. /\ Current(yaml) /\ IssuedInv
          /\ \A i \in yaml : i.file = YamlFile[i.of] /\ i.of \in Enabled /\ i.of \in Credential
      BY <1>1, NamesMatch DEF YamlInv, Current, Proper, Enabled
    <2>4. Mismatched = {}
      <3> SUFFICES ASSUME NEW c \in Expected, NEW i \in InPlace(c) PROVE i.of = c
        BY DEF Mismatched
      <3>1. c \in Enabled /\ c \in Credential
        BY DEF Expected, Enabled
      <3>2. i \in yaml /\ i.file = YamlFile[c]
        BY DEF InPlace
      <3>3. <<i.of, c>> \in issued
        BY <2>3, <3>2 DEF Expected
      <3>4. <<c, i.of>> \in issued
        BY <2>3, <3>1, <3>2 DEF Current
      <3> QED BY <2>3, <3>1, <3>2, <3>3, <3>4 DEF IssuedInv
    <2>5. Residual = {}
      BY <2>3 DEF Residual, InPlace
    <2>6. /\ CredentialItems.runtime = "ok"
          /\ CredentialItems.content = "ok"
          /\ CredentialItems.revoked = "ok"
      BY <2>2, <2>4, <2>5 DEF CredentialItems, Found
    <2>7. CredentialItems.stats = StatsItem /\ StatsItem # "error"
      BY <2>2 DEF CredentialItems, StatsItem, Found
    <2> QED BY <2>6, <2>7
  <1> QED BY <1>1, YamlHolds, PTL
=============================================================================
