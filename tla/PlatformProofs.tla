--------------------------- MODULE PlatformProofs ---------------------------
(***************************************************************************)
(* Proofs about the parts around the campaigns, one section a part: the    *)
(* control over the pilot (Configuration), the collection of leads         *)
(* (Collection), the operator channel test (OperatorTest), releases and    *)
(* restores (Release), the prospecting of cities (Prospecting), the        *)
(* evaluation of leads (LeadQuality) and the report on messages            *)
(* (CommunicationLab). The parts share no state; a section uses its own    *)
(* part's invariant only, and the last one puts the evaluation and the     *)
(* report together, under the specification the platform run checks.       *)
(***************************************************************************)
EXTENDS MCPlatform, TLAPS, FiniteSetTheorems, WellFoundedInduction, SequenceTheorems

(***************************************************************************)
(* Configuration: any set of environment files, any number of restarts,    *)
(* drills and changes of the file.                                         *)
(***************************************************************************)
EnvRecord == [on : SUBSET Settings, profile : Profiles, operator : OperatorTests, kill : BOOLEAN]
Step == {"DOWN", "SERVING", "LOOP", "COLLECT", "COLLECTED", "BATCH"}

\* What a container of an API and of a worker can be at, given its environment.
ApiSound(c) == c.step # "DOWN" => ApiConfigured(c.env) /\ ~c.env.kill
WorkerSound(c) ==
  /\ c.step # "DOWN" => WorkerConfigured(c.env) /\ c.step # "SERVING"
  /\ c.step = "COLLECT" => MayCollect(c.env)
  /\ c.step = "BATCH" => MayBatch(c.env)
Sound(p, c) == (p = "api" => ApiSound(c)) /\ (p = "worker" => WorkerSound(c))

\* A container of another project, one that is down, or one created with the switch engaged.
Halted(c) == "HOMOLOGATION" \notin c.env.on \/ c.step = "DOWN" \/ c.env.kill

Frozen == switch = "ENGAGED" \/ freeze # NoFreeze

\* The switch is in the file from the beginning of a freeze to the release, and no
\* container that was stopped, or created since, runs without it.
SwitchInFile ==
  /\ Frozen => envFile.kill
  /\ \A p \in Processes : switch = "ENGAGED" \/ p \in freeze.stopped => Halted(process[p])

EvidenceInv ==
  /\ freeze # NoFreeze => freeze.name \in Drills
  /\ evidence \subseteq drilled
  /\ report = "READY" => drilled = Drills

ControlInv ==
  /\ ConfigurationTypeOK
  /\ \A p \in Processes : Sound(p, process[p])
  /\ SwitchInFile /\ EvidenceInv

------------------------------------------------------------------------------
(* Containers.                                                             *)

\* What is halted in the homologation does not work.
LEMMA HaltedIsIdle ==
  ASSUME NEW p \in Processes, Sound(p, process[p]), Halted(process[p]), OfHomologation(p)
  PROVE  ~Works(p)
<1>1. process[p].step = "DOWN" \/ process[p].env.kill
  BY DEF Halted, OfHomologation, Env
<1>2. CASE p = "api"
  BY <1>1, <1>2 DEF Works, Sound, ApiSound
<1>3. CASE p = "worker"
  BY <1>1, <1>3 DEF Works, Sound, WorkerSound, MayCollect, MayBatch
<1> QED BY <1>2, <1>3 DEF Processes

\* The environment of a container has the switch of the file it was made from.
LEMMA ContainerKeepsSwitch ==
  ASSUME NEW e \in EnvRecord
  PROVE  ContainerOf(e) \in EnvRecord /\ ContainerOf(e).kill = e.kill
BY DEF EnvRecord, ContainerOf, Settings, Outside

\* A process starts as its environment allows.
LEMMA StartIsSound ==
  ASSUME NEW p \in Processes, NEW e \in EnvRecord
  PROVE  /\ StepAtStart(p, e) \in Step
         /\ Sound(p, [step |-> StepAtStart(p, e), env |-> e])
<1>1. CASE p = "api"
  BY <1>1 DEF StepAtStart, Step, Sound, ApiSound
<1>2. CASE p = "worker"
  BY <1>2 DEF StepAtStart, Step, Sound, WorkerSound
<1> QED BY <1>1, <1>2 DEF Processes

\* Every step leaves a container as it is, creates it from the file, restarts it, stops
\* it, or takes it one step on in its own loop.
LEMMA ContainerForms ==
  ASSUME ControlInv, [ConfigurationNext]_confVars, NEW p \in Processes
  PROVE  \/ process'[p] = process[p]
         \/ /\ process'[p] = [step |-> StepAtStart(p, ContainerOf(envFile)), env |-> ContainerOf(envFile)]
            /\ RestUnchanged
         \/ /\ process[p].step # "DOWN" /\ RestUnchanged
            /\ process'[p] = [process[p] EXCEPT !.step = StepAtStart(p, process[p].env)]
         \/ process'[p] = [process[p] EXCEPT !.step = "DOWN"]
         \/ /\ \E step \in Step : process'[p] = [process[p] EXCEPT !.step = step]
            /\ process[p].step # "DOWN" /\ RestUnchanged
            /\ Sound(p, process'[p])
<1> USE DEF ControlInv, ConfigurationTypeOK, Step
<1>1. ASSUME NEW q \in Processes, Up(q) PROVE
        \/ process'[p] = process[p]
        \/ /\ process'[p] = [step |-> StepAtStart(p, ContainerOf(envFile)), env |-> ContainerOf(envFile)]
           /\ RestUnchanged
  BY <1>1 DEF Up
<1>2. ASSUME NEW q \in Processes, Restarted(q) PROVE
        \/ process'[p] = process[p]
        \/ /\ process[p].step # "DOWN" /\ RestUnchanged
           /\ process'[p] = [process[p] EXCEPT !.step = StepAtStart(p, process[p].env)]
  BY <1>2 DEF Restarted, In, Goes, Env
<1>3. ASSUME NEW q \in Processes, StopProcess(q) \/ Down(q) PROVE
        process'[p] = process[p] \/ process'[p] = [process[p] EXCEPT !.step = "DOWN"]
  BY <1>3 DEF StopProcess, Down, Goes
<1>4. CASE ApiBatch
  <2>1. Sound("api", process["api"])
    BY DEF Processes
  <2>2. PICK step \in {"BATCH", "SERVING"} :
          process["api"].step # "DOWN" /\ Goes("api", step)
    BY <1>4 DEF ApiBatch, In
  <2>3. p = "api" => Sound(p, process'[p])
    BY <2>1, <2>2 DEF Goes, Sound, ApiSound
  <2> QED BY <1>4, <2>2, <2>3 DEF ApiBatch, Goes
<1>5. CASE WorkerLoop
  <2>1. Sound("worker", process["worker"])
    BY DEF Processes
  <2>2. PICK step \in {"COLLECT", "COLLECTED", "BATCH", "LOOP"} :
          /\ process["worker"].step # "DOWN" /\ Goes("worker", step)
          /\ step = "COLLECT" => MayCollect(process["worker"].env)
          /\ step = "BATCH" => MayBatch(process["worker"].env)
    BY <1>5 DEF WorkerLoop, In, Env
  <2>3. p = "worker" => Sound(p, process'[p])
    BY <2>1, <2>2 DEF Goes, Sound, WorkerSound
  <2> QED BY <1>5, <2>2, <2>3 DEF WorkerLoop, Goes
<1>6. ASSUME UNCHANGED process PROVE process'[p] = process[p]
  BY <1>6
<1> QED
  BY <1>1, <1>2, <1>3, <1>4, <1>5, <1>6
     DEF ConfigurationNext, confVars, Reconfigure, BeginFreeze, FinishFreeze, FailFreeze,
         ReleaseSwitch, BackupRestoreDrill, Preflight

------------------------------------------------------------------------------
(* The invariant.                                                          *)

\* Every container stays a sound one.
LEMMA ContainersStaySound ==
  ASSUME ControlInv, [ConfigurationNext]_confVars, NEW p \in Processes
  PROVE  process'[p] \in [step : Step, env : EnvRecord] /\ Sound(p, process'[p])
<1>1. /\ process[p] \in [step : Step, env : EnvRecord] /\ Sound(p, process[p])
      /\ envFile \in EnvRecord
  BY DEF ControlInv, ConfigurationTypeOK, Step, EnvRecord
<1>2. CASE process'[p] = process[p]
  BY <1>1, <1>2
<1>3. CASE process'[p] = [step |-> StepAtStart(p, ContainerOf(envFile)), env |-> ContainerOf(envFile)]
  BY <1>1, <1>3, ContainerKeepsSwitch, StartIsSound
<1>4. CASE process'[p] = [process[p] EXCEPT !.step = StepAtStart(p, process[p].env)]
  <2>1. process'[p] = [step |-> StepAtStart(p, process[p].env), env |-> process[p].env]
    BY <1>1, <1>4
  <2> QED BY <1>1, <2>1, StartIsSound
<1>5. CASE process'[p] = [process[p] EXCEPT !.step = "DOWN"]
  BY <1>1, <1>5 DEF Step, Sound, ApiSound, WorkerSound
<1>6. CASE /\ \E step \in Step : process'[p] = [process[p] EXCEPT !.step = step]
           /\ Sound(p, process'[p])
  BY <1>1, <1>6
<1> QED BY <1>2, <1>3, <1>4, <1>5, <1>6, ContainerForms

\* A container that was halted stays so while the switch is in the file.
LEMMA HaltedStay ==
  ASSUME ControlInv, [ConfigurationNext]_confVars, NEW p \in Processes,
         Halted(process[p]), envFile.kill
  PROVE  Halted(process'[p])
<1>1. /\ process[p] \in [step : Step, env : EnvRecord] /\ envFile \in EnvRecord
  BY DEF ControlInv, ConfigurationTypeOK, Step, EnvRecord
<1>2. ContainerOf(envFile).kill
  BY <1>1, ContainerKeepsSwitch
<1>3. CASE process'[p] = process[p]
  BY <1>3 DEF Halted
<1>4. CASE process'[p] = [step |-> StepAtStart(p, ContainerOf(envFile)), env |-> ContainerOf(envFile)]
  BY <1>2, <1>4 DEF Halted
<1>5. CASE /\ process[p].step # "DOWN"
           /\ process'[p] = [process[p] EXCEPT !.step = StepAtStart(p, process[p].env)]
  BY <1>1, <1>5 DEF Halted
<1>6. CASE process'[p] = [process[p] EXCEPT !.step = "DOWN"]
  BY <1>1, <1>6 DEF Halted
<1>7. CASE /\ process[p].step # "DOWN"
           /\ \E step \in Step : process'[p] = [process[p] EXCEPT !.step = step]
  BY <1>1, <1>7 DEF Halted
<1> QED BY <1>3, <1>4, <1>5, <1>6, <1>7, ContainerForms

\* Every step keeps the types of what is not a container.
LEMMA TypesStay ==
  ASSUME ControlInv, [ConfigurationNext]_confVars
  PROVE  /\ envFile' \in EnvRecord
         /\ freeze' \in [name : {"NONE"} \cup Drills, stopped : SUBSET Processes]
         /\ evidence' \subseteq Drills /\ drilled' \subseteq Drills
         /\ switch' \in {"RELEASED", "ENGAGED"} /\ report' \in {"READY", "NOT_READY"}
<1> USE DEF ControlInv, ConfigurationTypeOK, EvidenceInv, EnvRecord
<1>1. CASE RestUnchanged
  BY <1>1 DEF RestUnchanged
<1>2. CASE Reconfigure
  <2>1. PICK e \in Environments, kill \in BOOLEAN : envFile' = With(e, kill)
    BY <1>2 DEF Reconfigure
  <2>2. e \in [on : SUBSET Settings, profile : Profiles, operator : OperatorTests]
    BY EnvironmentsAssumption
  <2> QED BY <1>2, <2>1, <2>2 DEF Reconfigure, With
<1>3. ASSUME NEW drill \in Drills, BeginFreeze(drill) PROVE
        /\ envFile' \in EnvRecord
        /\ freeze' \in [name : {"NONE"} \cup Drills, stopped : SUBSET Processes]
        /\ UNCHANGED <<evidence, drilled, switch, report>>
  BY <1>3 DEF BeginFreeze
<1>4. ASSUME NEW p \in Processes, StopProcess(p) PROVE
        /\ freeze' \in [name : {"NONE"} \cup Drills, stopped : SUBSET Processes]
        /\ UNCHANGED <<envFile, evidence, drilled, switch, report>>
  BY <1>4 DEF StopProcess
<1>5. CASE FinishFreeze
  BY <1>5 DEF FinishFreeze, Leaves, NoFreeze
<1>6. CASE FailFreeze
  BY <1>6 DEF FailFreeze, Leaves, NoFreeze
<1>7. CASE ReleaseSwitch
  BY <1>7 DEF ReleaseSwitch
<1>8. CASE BackupRestoreDrill
  BY <1>8 DEF BackupRestoreDrill, Leaves, Drills
<1>9. CASE Preflight
  BY <1>9 DEF Preflight
<1>10. CASE UNCHANGED confVars
  BY <1>10 DEF confVars
<1> QED
  BY <1>1, <1>2, <1>3, <1>4, <1>5, <1>6, <1>7, <1>8, <1>9, <1>10
     DEF ConfigurationNext, Up, Down, Restarted, ApiBatch, WorkerLoop

\* Every step keeps the switch in the file as long as something is frozen.
LEMMA SwitchStaysInFile ==
  ASSUME ControlInv, [ConfigurationNext]_confVars
  PROVE  SwitchInFile'
<1>1. /\ Frozen => envFile.kill
      /\ \A p \in Processes : switch = "ENGAGED" \/ p \in freeze.stopped => Halted(process[p])
      /\ envFile \in EnvRecord
      /\ \A p \in Processes : process[p] \in [step : Step, env : EnvRecord]
      /\ freeze \in [name : {"NONE"} \cup Drills, stopped : SUBSET Processes]
  BY DEF ControlInv, SwitchInFile, ConfigurationTypeOK, EnvRecord, Step
<1>2. freeze = NoFreeze => freeze.stopped = {}
  BY DEF NoFreeze
<1>3. \A p \in Processes : Halted(process[p]) /\ envFile.kill => Halted(process'[p])
  BY HaltedStay
<1>4. ASSUME RestUnchanged PROVE SwitchInFile'
  <2>1. \A p \in Processes : switch = "ENGAGED" \/ p \in freeze.stopped => Halted(process'[p])
    BY <1>1, <1>2, <1>3 DEF Frozen
  <2> QED BY <1>1, <1>4, <2>1 DEF RestUnchanged, SwitchInFile, Frozen, Halted
<1>5. CASE Reconfigure
  <2>1. UNCHANGED <<process, freeze>>
    BY <1>5 DEF Reconfigure
  <2>2. PICK kill \in BOOLEAN : /\ envFile'.kill = kill /\ (envFile.kill /\ ~kill => freeze = NoFreeze)
                                /\ switch' = IF kill THEN switch ELSE "RELEASED"
    BY <1>5 DEF Reconfigure, With
  <2>3. CASE kill
    BY <1>1, <2>1, <2>2, <2>3 DEF SwitchInFile, Frozen, Halted
  <2>4. CASE ~kill
    <3>1. freeze = NoFreeze
      BY <1>1, <2>2, <2>4 DEF Frozen
    <3> QED BY <1>2, <2>1, <2>2, <2>4, <3>1 DEF SwitchInFile, Frozen
  <2> QED BY <2>3, <2>4
<1>6. ASSUME NEW drill \in Drills, BeginFreeze(drill) PROVE SwitchInFile'
  <2>1. envFile'.kill /\ freeze'.stopped = {}
    BY <1>1, <1>6 DEF BeginFreeze, EnvRecord
  <2> QED BY <1>1, <1>6, <2>1 DEF BeginFreeze, SwitchInFile, Halted
<1>7. ASSUME NEW p \in Processes, StopProcess(p) PROVE SwitchInFile'
  <2>1. freeze'.stopped = freeze.stopped \cup {p} /\ freeze # NoFreeze
    BY <1>1, <1>7 DEF StopProcess
  <2>2. Halted(process'[p]) /\ \A q \in Processes \ {p} : process'[q] = process[q]
    BY <1>1, <1>7 DEF StopProcess, Goes, Halted, OfHomologation, Env, ConfigurationTypeOK, ControlInv
  <2> QED BY <1>1, <1>7, <2>1, <2>2 DEF StopProcess, SwitchInFile, Frozen, Halted
<1>8. CASE FinishFreeze
  BY <1>1, <1>8 DEF FinishFreeze, SwitchInFile, Frozen, Halted, NoFreeze
<1>9. CASE FailFreeze
  BY <1>1, <1>9 DEF FailFreeze, SwitchInFile, Frozen, Halted, NoFreeze
<1>10. CASE ReleaseSwitch
  <2>1. freeze' = NoFreeze /\ switch' = "RELEASED" /\ freeze'.stopped = {}
    BY <1>2, <1>10 DEF ReleaseSwitch, Idle
  <2> QED BY <2>1 DEF SwitchInFile, Frozen
<1>11. CASE BackupRestoreDrill \/ Preflight \/ UNCHANGED confVars
  BY <1>1, <1>11 DEF BackupRestoreDrill, Preflight, confVars, SwitchInFile, Frozen, Halted
<1> QED
  BY <1>4, <1>5, <1>6, <1>7, <1>8, <1>9, <1>10, <1>11
     DEF ConfigurationNext, Up, Down, Restarted, ApiBatch, WorkerLoop

\* Every step keeps the evidence within the drills that were carried out.
LEMMA EvidenceStays ==
  ASSUME ControlInv, [ConfigurationNext]_confVars
  PROVE  EvidenceInv'
<1> USE DEF ControlInv, ConfigurationTypeOK, EvidenceInv
<1>1. CASE RestUnchanged \/ UNCHANGED confVars \/ Reconfigure \/ ReleaseSwitch
  BY <1>1 DEF RestUnchanged, confVars, Reconfigure, ReleaseSwitch
<1>2. ASSUME NEW drill \in Drills, BeginFreeze(drill) PROVE EvidenceInv'
  BY <1>2 DEF BeginFreeze
<1>3. ASSUME NEW p \in Processes, StopProcess(p) PROVE EvidenceInv'
  BY <1>3 DEF StopProcess
<1>4. CASE FinishFreeze \/ FailFreeze
  <2>1. CASE FinishFreeze
    <3>1. envFile.kill /\ \A p \in Processes : Halted(process[p])
      BY <2>1 DEF FinishFreeze, SwitchInFile, Frozen
    <3>2. Halts
      BY <3>1, HaltedIsIdle DEF Halts
    <3>3. drilled' = drilled \cup {freeze.name} /\ evidence' = evidence \cup {freeze.name} /\ report' = report
          /\ freeze' = NoFreeze
      BY <2>1, <3>2 DEF FinishFreeze, Leaves
    <3>4. drilled' \subseteq Drills
      BY TypesStay
    <3> QED BY <3>3, <3>4
  <2>2. CASE FailFreeze
    BY <2>2 DEF FailFreeze, Leaves
  <2> QED BY <1>4, <2>1, <2>2
<1>5. CASE BackupRestoreDrill
  BY <1>5 DEF BackupRestoreDrill, Leaves, Drills
<1>6. CASE Preflight
  BY <1>6 DEF Preflight, PilotReady
<1> QED
  BY <1>1, <1>2, <1>3, <1>4, <1>5, <1>6
     DEF ConfigurationNext, Up, Down, Restarted, ApiBatch, WorkerLoop

\* ControlInv is inductive: containers that are down, made from a file of any environment,
\* are a start of it.
LEMMA ControlStarts ==
  ASSUME NEW file \in EnvRecord, envFile = file, process = [p \in Processes |-> [step |-> "DOWN", env |-> file]],
         freeze = NoFreeze, evidence = {}, drilled = {}, switch = "RELEASED", report = "NOT_READY"
  PROVE  ControlInv
<1>1. ConfigurationTypeOK
  BY DEF ConfigurationTypeOK, EnvRecord, NoFreeze
<1>2. \A p \in Processes : Sound(p, process[p])
  BY DEF Sound, ApiSound, WorkerSound
<1>3. SwitchInFile /\ EvidenceInv
  BY DEF SwitchInFile, EvidenceInv, Frozen, Halted, NoFreeze
<1> QED BY <1>1, <1>2, <1>3 DEF ControlInv

LEMMA ControlStep == ControlInv /\ [ConfigurationNext]_confVars => ControlInv'
<1> SUFFICES ASSUME ControlInv, [ConfigurationNext]_confVars PROVE ControlInv'
  OBVIOUS
<1>1. \A p \in Processes : process'[p] \in [step : Step, env : EnvRecord] /\ Sound(p, process'[p])
  BY ContainersStaySound
<1>2. process' = [p \in Processes |-> process'[p]]
  BY DEF ConfigurationNext, Up, Down, Restarted, StopProcess, Goes, ApiBatch, WorkerLoop, Reconfigure,
         BeginFreeze, FinishFreeze, FailFreeze, ReleaseSwitch, BackupRestoreDrill, Preflight,
         confVars, ControlInv, ConfigurationTypeOK
<1>3. ConfigurationTypeOK'
  BY <1>1, <1>2, TypesStay DEF ConfigurationTypeOK, EnvRecord, Step
<1> QED BY <1>1, <1>3, SwitchStaysInFile, EvidenceStays DEF ControlInv

LEMMA ControlInvariant == ConfigurationSpec => []ControlInv
<1>1. ConfigurationInit => ControlInv
  <2> SUFFICES ASSUME ConfigurationInit PROVE ControlInv
    OBVIOUS
  <2>1. PICK e \in Environments, kill \in BOOLEAN :
          /\ envFile = With(e, kill)
          /\ process = [p \in Processes |-> [step |-> "DOWN", env |-> With(e, kill)]]
    BY DEF ConfigurationInit
  <2>2. With(e, kill) \in EnvRecord
    BY EnvironmentsAssumption DEF With, EnvRecord
  <2> QED BY <2>1, <2>2, ControlStarts DEF ConfigurationInit
<1> QED BY <1>1, ControlStep, PTL DEF ConfigurationSpec

LEMMA ControlHolds == ControlInv => PilotUnderControl
<1> SUFFICES ASSUME ControlInv PROVE PilotUnderControl
  OBVIOUS
<1>1. ApiSound(process["api"]) /\ WorkerSound(process["worker"])
  BY DEF ControlInv, Sound, Processes
<1>2. KillSwitchHolds
  BY HaltedIsIdle DEF ControlInv, SwitchInFile, Frozen, KillSwitchHolds, Halts
<1>3. WorkIsConfigured
  BY <1>1 DEF WorkIsConfigured, ApiSound, WorkerSound, ApiConfigured, WorkerConfigured,
              EndpointGiven, MayCollect, MayBatch, In, Env
<1>4. ReadyAfterDrills
  BY DEF ControlInv, EvidenceInv, ReadyAfterDrills
<1> QED BY <1>2, <1>3, <1>4 DEF PilotUnderControl

------------------------------------------------------------------------------
(* Theorems.                                                               *)

\* Type correctness of the file, the containers and the evidence (ConfigurationTypeOK).
THEOREM TypeCorrect == ConfigurationSpec => []ConfigurationTypeOK
BY ControlInvariant, PTL DEF ControlInv

\* The kill switch of the homologation holds from the end of a freeze to its release,
\* every process works only as its environment allows, and a pilot is judged ready only
\* after the drills (PilotUnderControl), whatever is restarted, created again or edited.
THEOREM PilotStaysUnderControl == ConfigurationSpec => []PilotUnderControl
BY ControlInvariant, ControlHolds, PTL

------------------------------------------------------------------------------
(***************************************************************************)
(* Collection.                                                             *)
(***************************************************************************)
CollectorRecord ==
  [step : {"STOPPED", "IDLE", "FETCH", "INSERT", "FINISH", "FAIL"}, egress : BOOLEAN, runs : BOOLEAN,
   job : CollectJobs \cup {0}, tries : Nat, found : SUBSET OsmElements]

CollectTypeOK ==
  /\ jobStatus \in [CollectJobs -> {"NONE", "PENDING", "PROCESSING", "COMPLETED", "FAILED"}]
  /\ collectors \in [CollectWorkers -> CollectorRecord]
  /\ asked \in [CollectJobs -> Nat] /\ kept \in [CollectJobs -> SUBSET OsmElements]

Stored(e) == \E l \in storedLeads : l.id = e.id

\* What a worker at a step has in hand, and how far its job is.
Holds(c) ==
  /\ c.step \in {"STOPPED", "IDLE"} => c.job = 0
  /\ c.step \notin {"STOPPED", "IDLE"} =>
       c.job \in CollectJobs \ LegacyJobs /\ jobStatus[c.job] = "PROCESSING"
  /\ c.step = "FETCH" => asked[c.job] = c.tries /\ c.tries < MaxOverpassTries /\ kept[c.job] = {}
  /\ c.step = "INSERT" => c.found = kept[c.job] /\ OneEach(c.found)
  /\ c.step = "FINISH" => \A e \in kept[c.job] : Stored(e)

\* What is known of a job.
JobTells(j) ==
  /\ asked[j] <= MaxOverpassTries
  /\ jobStatus[j] \in {"NONE", "PENDING"} => asked[j] = 0 /\ kept[j] = {}
  /\ j \in LegacyJobs => asked[j] = 0
  /\ jobStatus[j] = "COMPLETED" => \A e \in kept[j] : Stored(e)
  /\ \A e \in kept[j] : "website" \notin e.fields

HandsApart ==
  \A w, v \in CollectWorkers : collectors[w].job = collectors[v].job /\ w # v => collectors[w].job = 0

LeadsTell ==
  /\ \A l, m \in storedLeads : l.id = m.id => l = m
  /\ \A l \in storedLeads : \E j \in CollectJobs : \E e \in kept[j] : l = LeadOf(e)

CollectInv ==
  /\ CollectTypeOK
  /\ \A w \in CollectWorkers : Holds(collectors[w])
  /\ \A j \in CollectJobs : JobTells(j)
  /\ HandsApart /\ LeadsTell

\* Every status but POSSUI_SITE: a lead without a website.
LEMMA WithoutWebsite ==
  ASSUME NEW e, "website" \notin e.fields
  PROVE  LeadOf(e).status # "POSSUI_SITE"
BY DEF LeadOf, LeadStatusOf

\* Leads are added, never taken away.
LEMMA StoredStay ==
  ASSUME NEW e, Stored(e), storedLeads \subseteq storedLeads'
  PROVE  Stored(e)'
BY DEF Stored

\* A job that a step leaves alone tells the same.
LEMMA JobStays ==
  ASSUME CollectInv, NEW j \in CollectJobs,
         jobStatus'[j] = jobStatus[j], asked'[j] = asked[j], kept'[j] = kept[j],
         storedLeads \subseteq storedLeads'
  PROVE  JobTells(j)'
<1>1. JobTells(j)
  BY DEF CollectInv
<1>2. \A e : Stored(e) => Stored(e)'
  BY StoredStay
<1> QED BY <1>1, <1>2 DEF JobTells

\* A worker that changes nothing of the jobs, apart from the one it holds, leaves what the
\* other workers hold.
LEMMA OthersHold ==
  ASSUME CollectInv, NEW w \in CollectWorkers, NEW v \in CollectWorkers \ {w},
         collectors[w].step \notin {"STOPPED", "IDLE"},
         collectors'[v] = collectors[v],
         \A j \in CollectJobs \ {collectors[w].job} :
           jobStatus'[j] = jobStatus[j] /\ asked'[j] = asked[j] /\ kept'[j] = kept[j],
         storedLeads \subseteq storedLeads'
  PROVE  Holds(collectors[v])' /\ (collectors'[v].job # collectors[w].job \/ collectors'[v].job = 0)
<1>1. Holds(collectors[v]) /\ Holds(collectors[w]) /\ collectors[v] \in CollectorRecord
  BY DEF CollectInv, CollectTypeOK
<1>2. collectors[v].job # collectors[w].job \/ collectors[v].job = 0
  BY DEF CollectInv, HandsApart
<1>3. \A e : Stored(e) => Stored(e)'
  BY StoredStay
<1>4. CASE collectors[v].step \in {"STOPPED", "IDLE"}
  BY <1>1, <1>2, <1>4 DEF Holds
<1>5. CASE collectors[v].step \notin {"STOPPED", "IDLE"}
  <2>1. collectors[v].job \in CollectJobs \ {collectors[w].job}
    BY <1>1, <1>2, <1>5, CollectAssumption DEF Holds
  <2> QED BY <1>1, <1>2, <1>3, <1>5, <2>1 DEF Holds
<1> QED BY <1>4, <1>5

------------------------------------------------------------------------------
(* Every step keeps the invariant.                                         *)

\* The API enqueues a job that nobody has.
LEMMA EnqueueKeeps ==
  ASSUME CollectInv, NEW j \in CollectJobs, EnqueueCollection(j)
  PROVE  CollectInv'
<1>1. /\ jobStatus[j] = "NONE" /\ jobStatus' = [jobStatus EXCEPT ![j] = "PENDING"]
      /\ UNCHANGED <<storedLeads, collectors, asked, kept>>
  BY DEF EnqueueCollection
<1>2. CollectTypeOK'
  BY <1>1 DEF CollectInv, CollectTypeOK
<1>3. \A w \in CollectWorkers : Holds(collectors[w])'
  BY <1>1 DEF CollectInv, CollectTypeOK, Holds, Stored
<1>4. \A i \in CollectJobs : JobTells(i)'
  BY <1>1 DEF CollectInv, CollectTypeOK, JobTells, Stored
<1> QED BY <1>1, <1>2, <1>3, <1>4 DEF CollectInv, HandsApart, LeadsTell

\* A worker claims a job that no other worker holds.
LEMMA ClaimKeeps ==
  ASSUME CollectInv, NEW w \in CollectWorkers, NEW j \in CollectJobs, ClaimCollection(w, j)
  PROVE  CollectInv'
<1>1. /\ jobStatus[j] = "PENDING" /\ j \notin LegacyJobs
      /\ jobStatus' = [jobStatus EXCEPT ![j] = "PROCESSING"]
      /\ collectors' = [collectors EXCEPT ![w].step = "FETCH", ![w].job = j, ![w].tries = 0]
      /\ UNCHANGED <<storedLeads, asked, kept>>
  BY DEF ClaimCollection, Claimable
<1>2. /\ collectors \in [CollectWorkers -> CollectorRecord] /\ collectors[w] \in CollectorRecord
      /\ JobTells(j)
  BY DEF CollectInv, CollectTypeOK
<1>3. /\ collectors'[w].step = "FETCH" /\ collectors'[w].job = j /\ collectors'[w].tries = 0
      /\ collectors'[w] \in CollectorRecord
      /\ \A v \in CollectWorkers \ {w} : collectors'[v] = collectors[v]
  BY <1>1, <1>2 DEF CollectorRecord
<1>4. CollectTypeOK'
  BY <1>1, <1>2, <1>3 DEF CollectInv, CollectTypeOK
<1>5. \A v \in CollectWorkers : Holds(collectors[v]) /\ (collectors[v].job # j)
  <2>1. j # 0
    BY CollectAssumption
  <2> QED BY <1>1, <2>1 DEF CollectInv, CollectTypeOK, CollectorRecord, Holds
<1>6. \A v \in CollectWorkers : Holds(collectors[v])'
  <2>1. Holds(collectors[w])'
    BY <1>1, <1>2, <1>3, CollectAssumption DEF CollectInv, CollectTypeOK, Holds, JobTells
  <2>2. \A v \in CollectWorkers \ {w} : Holds(collectors[v])'
    BY <1>1, <1>3, <1>5 DEF CollectInv, CollectTypeOK, Holds, Stored
  <2> QED BY <2>1, <2>2
<1>7. \A i \in CollectJobs : JobTells(i)'
  BY <1>1 DEF CollectInv, CollectTypeOK, JobTells, Stored
<1>8. HandsApart'
  BY <1>3, <1>5 DEF CollectInv, HandsApart
<1> QED BY <1>1, <1>4, <1>6, <1>7, <1>8 DEF CollectInv, LeadsTell

\* The provider answers the request of a worker, or it fails to.
LEMMA AnswerKeeps ==
  ASSUME CollectInv, NEW w \in CollectWorkers, NEW answer \in SUBSET OsmElements, OneEach(answer),
         NEW found \in KeptOf(answer), OverpassAnswers(w, found)
  PROVE  CollectInv'
<1>0. PICK job \in CollectJobs \ LegacyJobs : job = collectors[w].job
  BY DEF OverpassAnswers, OverpassFails, CollectorAt, CollectInv, Holds
<1>1. /\ collectors[w].step = "FETCH" /\ asked' = [asked EXCEPT ![job] = @ + 1]
      /\ collectors' = [collectors EXCEPT ![w].step = "INSERT", ![w].found = found]
      /\ kept' = [kept EXCEPT ![job] = found]
      /\ UNCHANGED <<jobStatus, storedLeads>>
  BY <1>0 DEF OverpassAnswers, CollectorAt, Asked
<1>2. /\ collectors \in [CollectWorkers -> CollectorRecord] /\ collectors[w] \in CollectorRecord
      /\ Holds(collectors[w]) /\ job \in CollectJobs \ LegacyJobs /\ JobTells(job)
      /\ asked \in [CollectJobs -> Nat] /\ kept \in [CollectJobs -> SUBSET OsmElements]
  BY <1>0, <1>1 DEF CollectInv, CollectTypeOK, Holds
<1>3. found \subseteq OsmElements /\ OneEach(found) /\ \A e \in found : "website" \notin e.fields
  BY DEF KeptOf, OneEach
<1>4. /\ collectors'[w].step = "INSERT" /\ collectors'[w].job = job /\ collectors'[w].found = found
      /\ collectors'[w] \in CollectorRecord
      /\ \A v \in CollectWorkers \ {w} : collectors'[v] = collectors[v]
  BY <1>0, <1>1, <1>2, <1>3 DEF CollectorRecord
<1>5. /\ asked'[job] = asked[job] + 1 /\ kept'[job] = found
      /\ \A i \in CollectJobs \ {job} : asked'[i] = asked[i] /\ kept'[i] = kept[i]
  BY <1>0, <1>1, <1>2
<1>6. CollectTypeOK'
  BY <1>0, <1>1, <1>2, <1>3, <1>4 DEF CollectInv, CollectTypeOK
<1>7. \A v \in CollectWorkers \ {w} : Holds(collectors[v])' /\ (collectors'[v].job # job \/ collectors'[v].job = 0)
  <2> TAKE v \in CollectWorkers \ {w}
  <2>1. \A j \in CollectJobs \ {collectors[w].job} :
          jobStatus'[j] = jobStatus[j] /\ asked'[j] = asked[j] /\ kept'[j] = kept[j]
    BY <1>0, <1>1, <1>4, <1>5
  <2>2. collectors[w].step \notin {"STOPPED", "IDLE"} /\ collectors'[v] = collectors[v] /\ storedLeads \subseteq storedLeads'
    BY <1>0, <1>1, <1>4, <1>5
  <2>3. Holds(collectors[v])' /\ (collectors'[v].job # collectors[w].job \/ collectors'[v].job = 0)
    BY <2>1, <2>2, OthersHold
  <2> QED BY <1>0, <2>3
<1>8. Holds(collectors[w])'
  BY <1>0, <1>1, <1>2, <1>3, <1>4, <1>5 DEF Holds, OneEach
<1>9. \A i \in CollectJobs : JobTells(i)'
  <2>1. JobTells(job)'
    BY <1>0, <1>1, <1>2, <1>3, <1>5, CollectAssumption DEF JobTells, Holds
  <2>2. \A i \in CollectJobs \ {job} : JobTells(i)'
    BY <1>0, <1>1, <1>5, JobStays
  <2> QED BY <2>1, <2>2
<1>10. HandsApart'
  BY <1>0, <1>4, <1>7 DEF CollectInv, HandsApart
<1>11. LeadsTell'
  BY <1>0, <1>1, <1>2, <1>5 DEF CollectInv, LeadsTell, Holds
<1> QED BY <1>6, <1>7, <1>8, <1>9, <1>10, <1>11 DEF CollectInv

LEMMA FailureKeeps ==
  ASSUME CollectInv, NEW w \in CollectWorkers, NEW retryable \in BOOLEAN, OverpassFails(w, retryable)
  PROVE  CollectInv'
<1>0. PICK job \in CollectJobs \ LegacyJobs : job = collectors[w].job
  BY DEF OverpassAnswers, OverpassFails, CollectorAt, CollectInv, Holds
<1>1. /\ collectors[w].step = "FETCH" /\ asked' = [asked EXCEPT ![job] = @ + 1]
      /\ collectors' = [collectors EXCEPT ![w].tries = @ + 1,
                          ![w].step = IF retryable /\ collectors[w].tries + 1 < MaxOverpassTries THEN "FETCH" ELSE "FAIL"]
      /\ UNCHANGED <<jobStatus, storedLeads, kept>>
  BY <1>0 DEF OverpassFails, CollectorAt, Asked
<1>2. /\ collectors \in [CollectWorkers -> CollectorRecord] /\ collectors[w] \in CollectorRecord
      /\ Holds(collectors[w]) /\ job \in CollectJobs \ LegacyJobs /\ JobTells(job)
      /\ asked \in [CollectJobs -> Nat]
  BY <1>0, <1>1 DEF CollectInv, CollectTypeOK, Holds
<1>3. /\ \/ collectors'[w].step = "FETCH" /\ collectors[w].tries + 1 < MaxOverpassTries
         \/ collectors'[w].step = "FAIL"
      /\ collectors'[w].job = job /\ collectors'[w].tries = collectors[w].tries + 1
      /\ collectors'[w] \in CollectorRecord
      /\ \A v \in CollectWorkers \ {w} : collectors'[v] = collectors[v]
  <2> DEFINE step == IF retryable /\ collectors[w].tries + 1 < MaxOverpassTries THEN "FETCH" ELSE "FAIL"
  <2>1. collectors' = [collectors EXCEPT ![w] = [collectors[w] EXCEPT !.tries = @ + 1, !.step = step]]
    BY <1>0, <1>1, <1>2 DEF CollectorRecord
  <2>2. /\ collectors'[w] = [collectors[w] EXCEPT !.tries = @ + 1, !.step = step]
        /\ \A v \in CollectWorkers \ {w} : collectors'[v] = collectors[v]
    BY <1>2, <2>1
  <2>3. step \in {"FETCH", "FAIL"} /\ (step = "FETCH" => collectors[w].tries + 1 < MaxOverpassTries)
    OBVIOUS
  <2> HIDE DEF step
  <2>4. collectors'[w] \in CollectorRecord
    <3>1. PICK next \in {"FETCH", "FAIL"}, n \in Nat : next = step /\ n = collectors[w].tries + 1
      BY <1>2, <2>3 DEF CollectorRecord
    <3>2. collectors'[w] = [collectors[w] EXCEPT !.tries = n, !.step = next]
      BY <2>2, <3>1
    <3> QED BY <1>2, <3>2 DEF CollectorRecord
  <2>5. collectors'[w].job = job /\ collectors'[w].tries = collectors[w].tries + 1 /\ collectors'[w].step = step
    BY <1>0, <1>2, <2>2 DEF CollectorRecord
  <2> QED BY <2>2, <2>3, <2>4, <2>5
<1>4. asked'[job] = asked[job] + 1 /\ \A i \in CollectJobs \ {job} : asked'[i] = asked[i]
  BY <1>0, <1>1, <1>2
<1>5. CollectTypeOK'
  BY <1>0, <1>1, <1>2, <1>3 DEF CollectInv, CollectTypeOK
<1>6. \A v \in CollectWorkers \ {w} : Holds(collectors[v])' /\ (collectors'[v].job # job \/ collectors'[v].job = 0)
  <2> TAKE v \in CollectWorkers \ {w}
  <2>1. \A j \in CollectJobs \ {collectors[w].job} :
          jobStatus'[j] = jobStatus[j] /\ asked'[j] = asked[j] /\ kept'[j] = kept[j]
    BY <1>0, <1>1, <1>3, <1>4
  <2>2. collectors[w].step \notin {"STOPPED", "IDLE"} /\ collectors'[v] = collectors[v] /\ storedLeads \subseteq storedLeads'
    BY <1>0, <1>1, <1>3, <1>4
  <2>3. Holds(collectors[v])' /\ (collectors'[v].job # collectors[w].job \/ collectors'[v].job = 0)
    BY <2>1, <2>2, OthersHold
  <2> QED BY <1>0, <2>3
<1>7. Holds(collectors[w])'
  BY <1>0, <1>1, <1>2, <1>3, <1>4 DEF Holds
<1>8. \A i \in CollectJobs : JobTells(i)'
  <2>1. JobTells(job)'
    BY <1>0, <1>1, <1>2, <1>4, CollectAssumption DEF JobTells, Holds, CollectorRecord
  <2>2. \A i \in CollectJobs \ {job} : JobTells(i)'
    BY <1>0, <1>1, <1>4, JobStays
  <2> QED BY <2>1, <2>2
<1>9. HandsApart'
  BY <1>0, <1>3, <1>6 DEF CollectInv, HandsApart
<1> QED BY <1>0, <1>1, <1>5, <1>6, <1>7, <1>8, <1>9 DEF CollectInv, LeadsTell

\* The leads of an answer are stored, each element once.
LEMMA InsertKeeps ==
  ASSUME CollectInv, NEW w \in CollectWorkers, InsertLeads(w)
  PROVE  CollectInv'
<1> DEFINE job == collectors[w].job
<1> DEFINE found == collectors[w].found
<1>1. /\ collectors[w].step = "INSERT" /\ storedLeads' = storedLeads \cup NewLeads(found)
      /\ collectors' = [collectors EXCEPT ![w].step = "FINISH"]
      /\ UNCHANGED <<jobStatus, asked, kept>>
  BY DEF InsertLeads, CollectorAt
<1>2. /\ collectors \in [CollectWorkers -> CollectorRecord] /\ collectors[w] \in CollectorRecord
      /\ Holds(collectors[w]) /\ job \in CollectJobs \ LegacyJobs /\ found = kept[job] /\ OneEach(found)
  BY <1>1 DEF CollectInv, CollectTypeOK, Holds
<1>3. /\ collectors'[w].step = "FINISH" /\ collectors'[w].job = job
      /\ collectors'[w] \in CollectorRecord
      /\ \A v \in CollectWorkers \ {w} : collectors'[v] = collectors[v]
  BY <1>1, <1>2 DEF CollectorRecord
<1>4. /\ \A n \in NewLeads(found) : \E e \in found : n = LeadOf(e) /\ n.id = e.id /\ \A l \in storedLeads : l.id # e.id
      /\ \A e \in found : (\A l \in storedLeads : l.id # e.id) => LeadOf(e) \in NewLeads(found)
      /\ \A e : LeadOf(e).id = e.id
  BY DEF NewLeads, LeadOf
<1>5. \A e \in found : Stored(e)'
  BY <1>1, <1>4 DEF Stored
<1>6. LeadsTell'
  <2>1. ASSUME NEW l \in storedLeads', NEW m \in storedLeads', l.id = m.id PROVE l = m
    BY <1>1, <1>2, <1>4, <2>1 DEF CollectInv, LeadsTell, OneEach
  <2>2. ASSUME NEW l \in storedLeads' PROVE \E i \in CollectJobs : \E e \in kept'[i] : l = LeadOf(e)
    BY <1>1, <1>2, <1>4, <2>2 DEF CollectInv, LeadsTell
  <2> QED BY <2>1, <2>2 DEF LeadsTell
<1>7. CollectTypeOK'
  BY <1>1, <1>2, <1>3 DEF CollectInv, CollectTypeOK
<1>8. \A v \in CollectWorkers \ {w} : Holds(collectors[v])' /\ (collectors'[v].job # job \/ collectors'[v].job = 0)
  <2> TAKE v \in CollectWorkers \ {w}
  <2> QED BY <1>1, <1>3, OthersHold
<1>9. Holds(collectors[w])'
  BY <1>1, <1>2, <1>3, <1>5 DEF Holds
<1>10. \A i \in CollectJobs : JobTells(i)'
  <2>1. \A e : Stored(e) => Stored(e)'
    BY <1>1, StoredStay
  <2> QED BY <1>1, <2>1 DEF CollectInv, JobTells
<1>11. HandsApart'
  BY <1>3, <1>8 DEF CollectInv, HandsApart
<1> QED BY <1>6, <1>7, <1>8, <1>9, <1>10, <1>11 DEF CollectInv

\* A job is finished, and let go of.
LEMMA FinishKeeps ==
  ASSUME CollectInv, NEW w \in CollectWorkers, FinishCollection(w)
  PROVE  CollectInv'
<1>0. PICK job \in CollectJobs \ LegacyJobs : job = collectors[w].job
  BY DEF FinishCollection, CollectorAt, CollectInv, Holds
<1> DEFINE status == IF collectors[w].step = "FINISH" THEN "COMPLETED" ELSE "FAILED"
<1>1. /\ collectors[w].step \in {"FINISH", "FAIL"} /\ jobStatus' = [jobStatus EXCEPT ![job] = status]
      /\ collectors' = [collectors EXCEPT ![w].step = "IDLE", ![w].job = 0, ![w].tries = 0, ![w].found = {}]
      /\ UNCHANGED <<storedLeads, asked, kept>>
  BY <1>0 DEF FinishCollection, CollectorAt
<1>2. /\ collectors \in [CollectWorkers -> CollectorRecord] /\ collectors[w] \in CollectorRecord
      /\ Holds(collectors[w]) /\ job \in CollectJobs \ LegacyJobs /\ JobTells(job)
  BY <1>0, <1>1 DEF CollectInv, CollectTypeOK, Holds
<1>3. /\ collectors'[w].step = "IDLE" /\ collectors'[w].job = 0
      /\ collectors'[w] \in CollectorRecord
      /\ \A v \in CollectWorkers \ {w} : collectors'[v] = collectors[v]
  BY <1>0, <1>1, <1>2 DEF CollectorRecord
<1>4. jobStatus'[job] = status /\ \A i \in CollectJobs \ {job} : jobStatus'[i] = jobStatus[i]
  BY <1>0, <1>1, <1>2 DEF CollectInv, CollectTypeOK
<1>5. CollectTypeOK'
  BY <1>0, <1>1, <1>2, <1>3 DEF CollectInv, CollectTypeOK
<1>6. \A v \in CollectWorkers \ {w} : Holds(collectors[v])'
  <2> TAKE v \in CollectWorkers \ {w}
  <2>1. \A j \in CollectJobs \ {collectors[w].job} :
          jobStatus'[j] = jobStatus[j] /\ asked'[j] = asked[j] /\ kept'[j] = kept[j]
    BY <1>0, <1>1, <1>3, <1>4
  <2>2. collectors[w].step \notin {"STOPPED", "IDLE"} /\ collectors'[v] = collectors[v] /\ storedLeads \subseteq storedLeads'
    BY <1>0, <1>1, <1>3, <1>4
  <2>3. Holds(collectors[v])' /\ (collectors'[v].job # collectors[w].job \/ collectors'[v].job = 0)
    BY <2>1, <2>2, OthersHold
  <2> QED BY <1>0, <2>3
<1>7. Holds(collectors[w])'
  BY <1>0, <1>3 DEF Holds
<1>8. \A i \in CollectJobs : JobTells(i)'
  <2>1. JobTells(job)'
    BY <1>0, <1>1, <1>2, <1>4 DEF JobTells, Holds, Stored
  <2>2. \A i \in CollectJobs \ {job} : JobTells(i)'
    BY <1>0, <1>1, <1>4, JobStays
  <2> QED BY <2>1, <2>2
<1>9. HandsApart'
  BY <1>0, <1>3 DEF CollectInv, HandsApart
<1> QED BY <1>0, <1>1, <1>5, <1>6, <1>7, <1>8, <1>9 DEF CollectInv, LeadsTell

\* A job fails, or a worker is told to stop, ends or starts.
LEMMA WorkerKeeps ==
  ASSUME CollectInv, NEW w \in CollectWorkers,
         \/ JobFails(w) \/ RequestStop(w) \/ WorkerEnds(w)
         \/ \E egress \in BOOLEAN : WorkerStarts(w, egress)
  PROVE  CollectInv'
<1>1. collectors \in [CollectWorkers -> CollectorRecord] /\ collectors[w] \in CollectorRecord /\ Holds(collectors[w])
  BY DEF CollectInv, CollectTypeOK
<1> DEFINE Kept ==
      /\ UNCHANGED <<jobStatus, storedLeads, asked, kept>>
      /\ \A v \in CollectWorkers \ {w} : collectors'[v] = collectors[v]
      /\ collectors' \in [CollectWorkers -> CollectorRecord]
      /\ collectors'[w].job \in {0, collectors[w].job}
      /\ Holds(collectors'[w])
<1>2. Kept
  <2>1. CASE JobFails(w)
    <3>1. /\ collectors[w].step \in {"FETCH", "INSERT", "FINISH"}
          /\ collectors' = [collectors EXCEPT ![w].step = "FAIL"]
          /\ UNCHANGED <<jobStatus, storedLeads, asked, kept>>
      BY <2>1 DEF JobFails, CollectorAt
    <3> QED BY <1>1, <3>1 DEF Holds, CollectorRecord
  <2>2. CASE RequestStop(w)
    <3>1. /\ collectors' = [collectors EXCEPT ![w].runs = FALSE]
          /\ UNCHANGED <<jobStatus, storedLeads, asked, kept>>
      BY <2>2 DEF RequestStop
    <3> QED BY <1>1, <3>1 DEF Holds, CollectorRecord
  <2>3. CASE WorkerEnds(w)
    <3>1. /\ collectors' = [collectors EXCEPT ![w] = StoppedCollector]
          /\ UNCHANGED <<jobStatus, storedLeads, asked, kept>>
      BY <2>3 DEF WorkerEnds
    <3> QED BY <1>1, <3>1 DEF StoppedCollector, Holds, CollectorRecord
  <2>4. ASSUME NEW egress \in BOOLEAN, WorkerStarts(w, egress) PROVE Kept
    <3>1. /\ collectors' = [collectors EXCEPT ![w] = [StoppedCollector EXCEPT !.step = "IDLE", !.egress = egress, !.runs = TRUE]]
          /\ UNCHANGED <<jobStatus, storedLeads, asked, kept>>
      BY <2>4 DEF WorkerStarts
    <3> QED BY <1>1, <3>1 DEF StoppedCollector, Holds, CollectorRecord
  <2> QED BY <2>1, <2>2, <2>3, <2>4
<1>3. \A v \in CollectWorkers : Holds(collectors[v])'
  BY <1>2 DEF CollectInv, Holds, Stored
<1>4. \A i \in CollectJobs : JobTells(i)'
  BY <1>2 DEF CollectInv, JobTells, Stored
<1>5. HandsApart'
  BY <1>2 DEF CollectInv, HandsApart
<1> QED BY <1>2, <1>3, <1>4, <1>5 DEF CollectInv, CollectTypeOK, LeadsTell

\* CollectInv is inductive.
LEMMA CollectInvariant == CollectSpec => []CollectInv
<1>1. CollectInit => CollectInv
  <2> SUFFICES ASSUME CollectInit PROVE CollectInv
    OBVIOUS
  <2>1. StoppedCollector \in CollectorRecord /\ StoppedCollector.step = "STOPPED" /\ StoppedCollector.job = 0
    BY DEF StoppedCollector, CollectorRecord
  <2>2. CollectTypeOK
    BY <2>1 DEF CollectInit, CollectTypeOK
  <2>3. \A w \in CollectWorkers : Holds(collectors[w])
    BY <2>1 DEF CollectInit, Holds
  <2>4. \A j \in CollectJobs : JobTells(j)
    BY CollectAssumption DEF CollectInit, JobTells
  <2>5. HandsApart /\ LeadsTell
    BY <2>1 DEF CollectInit, HandsApart, LeadsTell
  <2> QED BY <2>2, <2>3, <2>4, <2>5 DEF CollectInv
<1>2. CollectInv /\ [CollectNext]_collectVars => CollectInv'
  <2> SUFFICES ASSUME CollectInv, [CollectNext]_collectVars PROVE CollectInv'
    OBVIOUS
  <2>1. ASSUME UNCHANGED <<jobStatus, storedLeads, collectors, asked, kept>> PROVE CollectInv'
    BY <2>1 DEF CollectInv, CollectTypeOK, Holds, Stored, JobTells, HandsApart, LeadsTell
  <2> QED
    BY <2>1, EnqueueKeeps, ClaimKeeps, AnswerKeeps, FailureKeeps, InsertKeeps, FinishKeeps, WorkerKeeps
       DEF CollectNext, collectVars, ApiRestarts
<1> QED BY <1>1, <1>2, PTL DEF CollectSpec

------------------------------------------------------------------------------
(* Theorem.                                                                *)

\* A job is collected at most once and its leads are stored once, whatever workers stop,
\* restart and change their egress (JobCollectedOnce).
THEOREM JobsCollectedOnce == CollectSpec => []JobCollectedOnce
<1>1. CollectInv => JobCollectedOnce
  <2> SUFFICES ASSUME CollectInv PROVE JobCollectedOnce
    OBVIOUS
  <2>1. ASSUME NEW j \in CollectJobs PROVE
          /\ asked[j] <= MaxOverpassTries
          /\ asked[j] > 0 => jobStatus[j] \in {"PROCESSING", "COMPLETED", "FAILED"} /\ j \notin LegacyJobs
          /\ jobStatus[j] = "COMPLETED" => \A e \in kept[j] : \E l \in storedLeads : l.id = e.id
    BY DEF CollectInv, CollectTypeOK, JobTells, Stored
  <2>2. ASSUME NEW l \in storedLeads PROVE
          l.status # "POSSUI_SITE" /\ \E j \in CollectJobs : \E e \in kept[j] : l = LeadOf(e)
    <3>1. PICK j \in CollectJobs : \E e \in kept[j] : l = LeadOf(e)
      BY DEF CollectInv, LeadsTell
    <3>2. PICK e \in kept[j] : l = LeadOf(e)
      BY <3>1
    <3>3. "website" \notin e.fields
      BY DEF CollectInv, JobTells
    <3> QED BY <3>2, <3>3, WithoutWebsite
  <2> QED BY <2>1, <2>2 DEF CollectInv, HandsApart, LeadsTell, JobCollectedOnce
<1> QED BY <1>1, CollectInvariant, PTL

------------------------------------------------------------------------------
(***************************************************************************)
(* Operator channel test.                                                  *)
(***************************************************************************)
OpEventKinds == {"OPENED", "CONTACT_CONFIRMED", "RESPONSE_RECORDED"}

\* The console asks to open a preparation of its own phone only, and forgets the call when
\* it is given another phone.
CallsTell ==
  /\ \A call \in opWire : call.kind \in {"PREPARE"} \cup OpEventKinds
  /\ opWait.kind = "OPENED" => opWait.prep.phone = opPhone

LinkTells == opLink # NoOpLink => opLink.phone = opLink.prep.phone /\ OpTold(opLink.prep, "OPENED")

EventsTell ==
  /\ \A e, f \in opEvents : e.prep = f.prep /\ e.type = f.type => e = f
  /\ \A e \in opEvents :
       /\ e.type \in OpEventKinds
       /\ e.type # "OPENED" => OpTold(e.prep, "OPENED")
       /\ e.type = "RESPONSE_RECORDED" =>
            [prep |-> e.prep, type |-> "CONTACT_CONFIRMED", result |-> "SENT_CONFIRMED"] \in opEvents

OpInv == CallsTell /\ LinkTells /\ EventsTell

\* A call that the API accepts records its event, the first of its type and in order.
LEMMA AcceptedEvent ==
  ASSUME OpInv, NEW call \in opWire, ApiAccepts(call)
  PROVE  /\ EventsTell' /\ opEvents \subseteq opEvents'
         /\ call.kind = "OPENED" => OpTold(call.prep, "OPENED")'
<1>1. EventsTell /\ call.kind \in {"PREPARE"} \cup OpEventKinds
  BY DEF OpInv, CallsTell
<1>2. CASE call.kind = "PREPARE"
  BY <1>1, <1>2 DEF ApiAccepts, EventsTell, OpTold
<1>3. CASE call.kind # "PREPARE"
  <2>1. PICK e : e = EventOf(call)
    OBVIOUS
  <2>2. e.prep = call.prep /\ e.type = call.kind /\ opEvents' = opEvents \cup {e}
    BY <1>3, <2>1 DEF EventOf, ApiAccepts
  <2>3. e \in opEvents \/ OpInOrder(call.prep, call.kind)
    BY <1>3, <2>1, <2>2 DEF ApiAccepts, Acceptable, Recordable
  <2>4. \A p, type : OpTold(p, type) => OpTold(p, type)'
    BY <2>2 DEF OpTold
  <2>5. CASE e \in opEvents
    <3>1. opEvents' = opEvents
      BY <2>2, <2>5
    <3> QED BY <1>1, <2>2, <2>5, <3>1 DEF EventsTell, OpTold
  <2>6. CASE OpInOrder(call.prep, call.kind)
    <3>1. \A f \in opEvents : ~(f.prep = e.prep /\ f.type = e.type)
      BY <2>2, <2>6 DEF OpInOrder, OpTold
    <3>2. e.type = "RESPONSE_RECORDED" =>
            [prep |-> e.prep, type |-> "CONTACT_CONFIRMED", result |-> "SENT_CONFIRMED"] \in opEvents
      BY <2>2, <2>6 DEF OpInOrder
    <3>3. e.type # "OPENED" => OpTold(e.prep, "OPENED")
      BY <1>1, <1>3, <2>2, <2>6, <3>2 DEF OpInOrder, OpEventKinds, EventsTell
    <3> QED BY <1>1, <1>3, <2>2, <2>4, <3>1, <3>2, <3>3 DEF EventsTell, OpTold
  <2> QED BY <2>3, <2>5, <2>6
<1> QED BY <1>2, <1>3

\* The answer to a call may send the browser to the phone of the console, which is the
\* phone of the preparation.
LEMMA ServedCall ==
  ASSUME OpInv, NEW call \in opWire, ApiServes(call)
  PROVE  OpInv'
<1>1. opWire' \subseteq opWire /\ opPhone' = opPhone
  BY DEF ApiServes
<1>2. opWait' \in {opWait, NoOpCall} /\ NoOpCall.kind = "NONE"
  BY DEF ApiServes, ConsoleMisses, ConsoleAccepts, ConsoleRefused, NoOpCall
<1>3. CallsTell'
  BY <1>1, <1>2 DEF OpInv, CallsTell
<1>4. CASE ApiAccepts(call)
  <2>1. EventsTell' /\ opEvents \subseteq opEvents' /\ (call.kind = "OPENED" => OpTold(call.prep, "OPENED")')
    BY <1>4, AcceptedEvent
  <2>2. \A p : OpTold(p, "OPENED") => OpTold(p, "OPENED")'
    BY <2>1 DEF OpTold
  <2>3. CASE opLink' = opLink
    BY <1>3, <2>1, <2>2, <2>3 DEF OpInv, LinkTells
  <2>4. CASE opWait = call /\ call.kind = "OPENED" /\ opLink' = [prep |-> call.prep, phone |-> opPhone]
    <3>1. call.prep.phone = opPhone
      BY <2>4 DEF OpInv, CallsTell
    <3>2. opLink'.phone = opPhone /\ opLink'.prep = call.prep
      BY <2>4
    <3> QED BY <1>3, <2>1, <2>4, <3>1, <3>2 DEF OpInv, LinkTells
  <2>5. opLink' = opLink \/ (opWait = call /\ call.kind = "OPENED" /\ opLink' = [prep |-> call.prep, phone |-> opPhone])
    BY <1>4 DEF ApiServes, ConsoleMisses, ConsoleAccepts, ApiAccepts
  <2> QED BY <2>3, <2>4, <2>5
<1>5. CASE ~ApiAccepts(call)
  <2>1. UNCHANGED <<opEvents, opLink>>
    BY <1>5 DEF ApiServes, ConsoleMisses, ConsoleRefused
  <2> QED BY <1>3, <2>1 DEF OpInv, LinkTells, EventsTell, OpTold
<1> QED BY <1>4, <1>5

\* OpInv is inductive.
LEMMA OpInvariant == OpSpec => []OpInv
<1>1. OpInit => OpInv
  BY DEF OpInit, OpInv, CallsTell, LinkTells, EventsTell, NoOpCall
<1>2. OpInv /\ [OpNext]_opVars => OpInv'
  <2> SUFFICES ASSUME OpInv, [OpNext]_opVars PROVE OpInv'
    OBVIOUS
  <2>1. ASSUME UNCHANGED <<opEvents, opLink>>, CallsTell' PROVE OpInv'
    BY <2>1 DEF OpInv, LinkTells, EventsTell, OpTold
  <2>2. ASSUME NEW key \in OpKeys, ConsoleAsksPreparation(key) PROVE OpInv'
    <3>1. PICK call : /\ call = [NoOpCall EXCEPT !.kind = "PREPARE", !.key = key, !.phone = opPhone]
                      /\ ConsoleAsks(call)
      BY <2>2 DEF ConsoleAsksPreparation
    <3>2. call.kind = "PREPARE"
      BY <3>1 DEF NoOpCall
    <3> QED BY <2>1, <3>1, <3>2 DEF ConsoleAsks, OpInv, CallsTell
  <2>3. ASSUME NEW p \in opSession, NEW request \in OpEventRequests, ConsoleAsksEvent(p, request[1], request[2])
        PROVE  OpInv'
    <3>1. PICK call : /\ call = [NoOpCall EXCEPT !.kind = request[1], !.prep = p, !.result = request[2]]
                      /\ ConsoleAsks(call)
      BY <2>3 DEF ConsoleAsksEvent
    <3>2. call.kind = request[1] /\ call.prep = p
      BY <3>1 DEF NoOpCall
    <3>3. request[1] \in OpEventKinds /\ p.phone = opPhone
      BY <2>3 DEF OpEventRequests, OpEventKinds, ConsoleAsksEvent, ReceiptVerified
    <3> QED BY <2>1, <3>1, <3>2, <3>3 DEF ConsoleAsks, OpInv, CallsTell
  <2>4. CASE ConsoleGivesUp \/ \E phone \in OpPhones : ConsoleReconfigured(phone)
    BY <2>1, <2>4 DEF ConsoleGivesUp, ConsoleReconfigured, OpInv, CallsTell, NoOpCall
  <2>5. CASE UNCHANGED opVars
    BY <2>1, <2>5 DEF opVars, OpInv, CallsTell
  <2>6. ASSUME NEW api, ApiReconfigured(api) PROVE OpInv'
    BY <2>1, <2>6 DEF ApiReconfigured, OpInv, CallsTell
  <2> QED BY <2>2, <2>3, <2>4, <2>5, <2>6, ServedCall DEF OpNext
<1> QED BY <1>1, <1>2, PTL DEF OpSpec

------------------------------------------------------------------------------
(* Theorem.                                                                *)

\* The browser is sent to the phone of the preparation alone, after its opening was
\* recorded, and the events of a preparation are in order (OperatorLinkIsAuthorised).
THEOREM OperatorLinksAreAuthorised == OpSpec => []OperatorLinkIsAuthorised
<1>1. OpInv => OperatorLinkIsAuthorised
  BY DEF OpInv, LinkTells, EventsTell, OperatorLinkIsAuthorised
<1> QED BY <1>1, OpInvariant, PTL

------------------------------------------------------------------------------
(***************************************************************************)
(* Releases and restores.                                                  *)
(***************************************************************************)
MigrationSet == ToSet(Migrations)

DbRecord ==
  [effects : [MigrationSet -> Nat], local : SUBSET MigrationSet, imported : SUBSET MigrationSet,
   lead : BOOLEAN, facts : SUBSET SuppressionKinds, jobs : SUBSET {"EMAIL", "WHATSAPP"},
   evidence : {"NONE", "APPLIED", "VERIFIED"}]

ReleaseTypeOK ==
  /\ db \in DbRecord
  /\ dump = NoDump \/ dump \in DbRecord
  /\ checkedOut \in {1, 2} /\ running \in [api : 0 .. 2, worker : 0 .. 2]
  /\ script \in [name : {"NONE", "deploy", "restore"},
                 step : {"NONE", "STOP", "MIGRATE", "EXPORT", "RESTORE", "APPLY", "VERIFY", "PREFLIGHT"}, from : 0 .. 2]
  /\ runners \in [{"script", "manual"} -> [next : Nat, local : SUBSET MigrationSet, imported : SUBSET MigrationSet]]
  /\ known \subseteq SuppressionKinds /\ manifest \subseteq SuppressionKinds /\ failedRestore \in BOOLEAN
  /\ leftBehind \in [MigrationSet -> Nat]

\* A registered migration has its objects, unless a restore tore the database, and was
\* committed once and once more for each restore that left them unregistered; what no
\* registry knows of was left by a restore as often as it was committed.
SchemaSound(d) ==
  /\ ~failedRestore => \A m \in d.local : d.effects[m] > 0
  /\ \A m \in MigrationSet : d.effects[m] <= 1 + leftBehind[m]
  /\ \A m \in MigrationSet : m \notin d.local \cup d.imported => d.effects[m] <= leftBehind[m]

\* A migration has its objects and its registration.
InEffect(m) == db.effects[m] > 0 /\ m \in db.local \cup db.imported

\* Nobody writes the registry of Supabase: backups and runners hold what the database has.
ImportsTell ==
  /\ dump # NoDump => dump.imported = db.imported /\ SchemaSound(dump)
  /\ \A r \in {"script", "manual"} : runners[r].next > 0 => runners[r].imported = db.imported

\* The runner of a script works for its step MIGRATE, and everything before its next
\* migration is in effect. (The registry of a manual runner may be stale after a restore.)
ScriptRunnerTells ==
  /\ script.step # "MIGRATE" => runners["script"] = NotRunning
  /\ script.step = "MIGRATE" =>
       /\ runners["script"].local \subseteq db.local
       /\ ~failedRestore => \A i \in 1 .. Len(Migrations) : i < runners["script"].next => InEffect(Migrations[i])

Effective(release) == \A m \in FilesOf(release) : InEffect(m)

\* What a script may rely on at its step.
ScriptTells ==
  /\ script.name = "NONE" => script.step = "NONE"
  /\ script.name = "deploy" => script.step \in {"STOP", "MIGRATE"} /\ script.from # 0
  /\ script.name = "restore" => script.step \in {"EXPORT", "RESTORE", "MIGRATE", "APPLY", "VERIFY", "PREFLIGHT"}
  /\ script.name = "restore" => running = Both(0)
  /\ At("deploy", "STOP") => script.from = checkedOut

\* The schema suffices for what runs, for what is checked out unless it is being migrated,
\* and for what a deployment may go back to.
SchemaTells ==
  ~failedRestore =>
    /\ \A r \in {running.api, running.worker} \ {0} : Effective(r)
    /\ script.step # "MIGRATE" => Effective(checkedOut)
    /\ At("deploy", "MIGRATE") => Effective(script.from)

RestoreAt(steps) == script.name = "restore" /\ script.step \in steps

\* A suppression that was acknowledged is in the database or in the manifest of the
\* restore, and a verified database holds no job against it.
SuppressionsTell ==
  ~failedRestore =>
    /\ RestoreAt({"RESTORE", "MIGRATE", "APPLY", "VERIFY", "PREFLIGHT"}) => known \subseteq manifest
    /\ ~RestoreAt({"RESTORE", "MIGRATE", "APPLY"}) => known \subseteq db.facts
    /\ ~RestoreAt({"RESTORE", "MIGRATE", "APPLY", "VERIFY"}) =>
         (db.evidence = "VERIFIED" => db.jobs \cap Affected(known) = {})

\* A restore has a backup to go back to.
RestoreTells == script.name = "restore" => dump # NoDump

ReleaseInv ==
  /\ ReleaseTypeOK /\ SchemaSound(db) /\ ImportsTell
  /\ ScriptTells /\ RestoreTells /\ ScriptRunnerTells /\ SchemaTells /\ SuppressionsTell

------------------------------------------------------------------------------
(* Lemmas.                                                                 *)

\* The files of a release are migrations, and the migrations up to its last one.
LEMMA FilesOfRelease ==
  ASSUME NEW release \in {1, 2}
  PROVE  /\ Files(release) \in 0 .. Len(Migrations)
         /\ FilesOf(release) = {Migrations[i] : i \in 1 .. Files(release)}
         /\ FilesOf(release) \subseteq MigrationSet
         /\ \A i \in 1 .. Files(release) : Migrations[i] \in MigrationSet
<1>1. Files(release) \in 0 .. Len(Migrations) /\ Len(Migrations) \in Nat
  BY ReleaseAssumption DEF Files
<1>2. DOMAIN Migrations = 1 .. Len(Migrations)
  BY ReleaseAssumption
<1>3. \A i \in 1 .. Len(Migrations) : Migrations[i] \in MigrationSet
  BY <1>2 DEF MigrationSet, ToSet
<1> QED BY <1>1, <1>3 DEF FilesOf

\* The step of a runner: the migration comes into effect, or it was in effect.
LEMMA MigrationForms ==
  ASSUME ReleaseInv, NEW r \in {"script", "manual"}, RunMigration(r)
  PROVE  /\ runners[r].next \in 1 .. Files(checkedOut) /\ Migrations[runners[r].next] \in MigrationSet
         /\ runners'[r].next = runners[r].next + 1 /\ runners'[r].imported = runners[r].imported
         /\ runners' \in [{"script", "manual"} -> [next : Nat, local : SUBSET MigrationSet, imported : SUBSET MigrationSet]]
         /\ \A q \in {"script", "manual"} \ {r} : runners'[q] = runners[q]
         /\ \/ /\ runners'[r].local = runners[r].local \cup {Migrations[runners[r].next]}
               /\ Migrations[runners[r].next] \notin runners[r].local \cup runners[r].imported \cup db.local
               /\ db' = [db EXCEPT !.effects[Migrations[runners[r].next]] = @ + 1,
                                   !.local = @ \cup {Migrations[runners[r].next]}]
            \/ /\ db' = db /\ runners'[r].local = runners[r].local
               /\ \/ Migrations[runners[r].next] \in runners[r].local
                  \/ /\ Migrations[runners[r].next] \in runners[r].imported
                     /\ db.effects[Migrations[runners[r].next]] > 0
<1>1. /\ runners \in [{"script", "manual"} -> [next : Nat, local : SUBSET MigrationSet, imported : SUBSET MigrationSet]]
      /\ checkedOut \in {1, 2}
  BY DEF ReleaseInv, ReleaseTypeOK
<1>2. PICK m : m = Migrations[runners[r].next]
  OBVIOUS
<1>3. /\ runners[r].next \in 1 .. Files(checkedOut)
      /\ \/ /\ Source(runners[r], m) = "PENDING" /\ Migrated(m)
            /\ runners' = [runners EXCEPT ![r].next = @ + 1, ![r].local = @ \cup {m}]
         \/ /\ Source(runners[r], m) # "PENDING" /\ Parity(Source(runners[r], m), m)
            /\ runners' = [runners EXCEPT ![r].next = @ + 1] /\ db' = db
  BY <1>2 DEF RunMigration
<1>4. m \in MigrationSet
  BY <1>1, <1>2, <1>3, FilesOfRelease
<1>5. CASE /\ Source(runners[r], m) = "PENDING" /\ Migrated(m)
           /\ runners' = [runners EXCEPT ![r].next = @ + 1, ![r].local = @ \cup {m}]
  <2>1. m \notin runners[r].local \cup runners[r].imported
    BY <1>5 DEF Source
  <2>2. m \notin db.local /\ db' = [db EXCEPT !.effects[m] = @ + 1, !.local = @ \cup {m}]
    BY <1>5 DEF Migrated
  <2>3. PICK n \in Nat, l \in SUBSET MigrationSet : n = runners[r].next + 1 /\ l = runners[r].local \cup {m}
    <3>1. runners[r].next + 1 \in Nat
      BY <1>1
    <3>2. runners[r].local \cup {m} \in SUBSET MigrationSet
      BY <1>1, <1>4
    <3> QED BY <3>1, <3>2
  <2>4. PICK new : new = [runners[r] EXCEPT !.next = n, !.local = l]
    OBVIOUS
  <2>5. /\ new \in [next : Nat, local : SUBSET MigrationSet, imported : SUBSET MigrationSet]
        /\ new.next = n /\ new.local = l /\ new.imported = runners[r].imported
    BY <1>1, <2>4
  <2>6. runners' = [runners EXCEPT ![r] = new]
    BY <1>1, <1>5, <2>3, <2>4
  <2> QED BY <1>1, <1>2, <1>3, <1>4, <2>1, <2>2, <2>3, <2>5, <2>6
<1>6. CASE /\ Source(runners[r], m) # "PENDING" /\ Parity(Source(runners[r], m), m)
           /\ runners' = [runners EXCEPT ![r].next = @ + 1] /\ db' = db
  <2>1. m \in runners[r].local \/ (m \in runners[r].imported /\ db.effects[m] > 0)
    BY <1>6 DEF Source, Parity, ObjectsPresent
  <2>2. PICK new :
          new = [next |-> runners[r].next + 1, local |-> runners[r].local, imported |-> runners[r].imported]
    OBVIOUS
  <2>3. [runners[r] EXCEPT !.next = @ + 1] = new
    <3>1. runners[r] = [next |-> runners[r].next, local |-> runners[r].local, imported |-> runners[r].imported]
      BY <1>1
    <3> QED BY <2>2, <3>1
  <2>4. runners' = [runners EXCEPT ![r] = new]
    <3>1. runners' = [runners EXCEPT ![r] = [runners[r] EXCEPT !.next = @ + 1]]
      BY <1>6
    <3> QED BY <2>3, <3>1
  <2> QED BY <1>1, <1>2, <1>3, <1>4, <1>6, <2>1, <2>2, <2>4
<1> QED BY <1>3, <1>5, <1>6

\* A step of the runner leaves the rest of the database as it is.
LEMMA MigrationChanges ==
  ASSUME ReleaseInv, NEW m \in MigrationSet, m \notin db.local \cup db.imported,
         db' = [db EXCEPT !.effects[m] = @ + 1, !.local = @ \cup {m}]
  PROVE  /\ db' \in DbRecord /\ db'.effects = [db.effects EXCEPT ![m] = db.effects[m] + 1]
         /\ db'.local = db.local \cup {m} /\ db'.imported = db.imported /\ db'.lead = db.lead
         /\ db'.facts = db.facts /\ db'.jobs = db.jobs /\ db'.evidence = db.evidence
<1>1. db \in DbRecord /\ db.effects[m] + 1 \in Nat
  BY DEF ReleaseInv, ReleaseTypeOK, DbRecord
<1>2. db' = [db EXCEPT !.effects = [db.effects EXCEPT ![m] = db.effects[m] + 1], !.local = db.local \cup {m}]
  BY <1>1 DEF DbRecord
<1>3. /\ [db.effects EXCEPT ![m] = db.effects[m] + 1] \in [MigrationSet -> Nat]
      /\ db.local \cup {m} \in SUBSET MigrationSet
  BY <1>1 DEF DbRecord
<1> QED BY <1>1, <1>2, <1>3 DEF DbRecord

\* A restore that ended left the backup's schema, but for objects the backup does not have.
SchemaRestored ==
  /\ At("restore", "RESTORE") /\ dump # NoDump /\ script'.step = "MIGRATE"
  /\ db'.local = dump.local /\ CountsLeft /\ UNCHANGED failedRestore
  /\ \A m \in MigrationSet : /\ db'.effects[m] \in {db.effects[m], dump.effects[m]}
                             /\ dump.effects[m] > 0 => db'.effects[m] > 0

\* One that did not end left a mixture.
SchemaTorn ==
  /\ At("restore", "RESTORE") /\ dump # NoDump /\ script' = NoScript
  /\ CountsLeft /\ failedRestore' = TRUE
  /\ \A m \in MigrationSet : db'.effects[m] \in {db.effects[m], dump.effects[m], 0}

\* Objects that no registry knows of are counted.
LEMMA LeftAreCounted ==
  ASSUME ReleaseInv, CountsLeft, db' \in DbRecord
  PROVE  /\ leftBehind' \in [MigrationSet -> Nat]
         /\ \A m \in MigrationSet :
              /\ leftBehind[m] <= leftBehind'[m]
              /\ db'.effects[m] > 0 /\ m \notin db'.local \cup db'.imported => leftBehind'[m] = leftBehind[m] + 1
BY DEF ReleaseInv, ReleaseTypeOK, CountsLeft, MigrationSet

\* What a step may do to the schema: nothing, one migration more, or a restore.
LEMMA SchemaForms ==
  ASSUME ReleaseInv, [ReleaseNext]_releaseVars
  PROVE  /\ db' \in DbRecord /\ db'.imported = db.imported
         /\ \/ db'.effects = db.effects /\ db'.local = db.local /\ UNCHANGED leftBehind
            \/ \E m \in MigrationSet :
                 /\ m \notin db.local \cup db.imported
                 /\ db'.effects = [db.effects EXCEPT ![m] = db.effects[m] + 1]
                 /\ db'.local = db.local \cup {m} /\ UNCHANGED leftBehind
            \/ SchemaRestored
            \/ SchemaTorn
<1>1. db \in DbRecord
  BY DEF ReleaseInv, ReleaseTypeOK
<1>2. ASSUME UNCHANGED <<db, leftBehind>>
      PROVE  db' \in DbRecord /\ UNCHANGED <<db.effects, db.local, db.imported, leftBehind>>
  BY <1>1, <1>2
<1>3. ASSUME NEW type \in SuppressionTypes, Suppress(type)
      PROVE  db' \in DbRecord /\ UNCHANGED <<db.effects, db.local, db.imported, leftBehind>>
  BY <1>1, <1>3 DEF Suppress, DbRecord
<1>4. ASSUME RestoreApplies \/ RestoreVerifies
      PROVE  db' \in DbRecord /\ UNCHANGED <<db.effects, db.local, db.imported, leftBehind>>
  <2>1. manifest \subseteq SuppressionKinds
    BY DEF ReleaseInv, ReleaseTypeOK
  <2>2. CASE RestoreApplies
    <3>1. db' = [db EXCEPT !.facts = db.facts \cup manifest, !.jobs = db.jobs \ Affected(manifest), !.evidence = "APPLIED"]
      BY <1>1, <2>2 DEF RestoreApplies, Reconciled, DbRecord
    <3> QED BY <1>1, <2>1, <2>2, <3>1 DEF DbRecord, RestoreApplies
  <2>3. CASE RestoreVerifies
    BY <1>1, <2>3 DEF RestoreVerifies, DbRecord
  <2> QED BY <1>4, <2>2, <2>3
<1>5. ASSUME NEW r \in {"script", "manual"}, RunMigration(r)
      PROVE  /\ db' \in DbRecord /\ db'.imported = db.imported /\ UNCHANGED leftBehind
             /\ \/ db'.effects = db.effects /\ db'.local = db.local
                \/ \E m \in MigrationSet :
                     /\ m \notin db.local \cup db.imported
                     /\ db'.effects = [db.effects EXCEPT ![m] = db.effects[m] + 1]
                     /\ db'.local = db.local \cup {m}
  <2>1. runners[r].imported = db.imported /\ UNCHANGED leftBehind
    BY <1>5, MigrationForms DEF ReleaseInv, ReleaseTypeOK, ImportsTell, RunMigration
  <2>2. CASE db' = db
    BY <1>1, <2>1, <2>2
  <2>3. CASE db' # db
    <3>1. PICK m \in MigrationSet :
            m \notin db.local \cup db.imported /\ db' = [db EXCEPT !.effects[m] = @ + 1, !.local = @ \cup {m}]
      BY <1>5, <2>1, <2>3, MigrationForms
    <3> QED BY <2>1, <3>1, MigrationChanges
  <2> QED BY <2>2, <2>3
<1>6. ASSUME NEW leadInBackup \in BOOLEAN, RestoreReplaces(leadInBackup)
      PROVE  db' \in DbRecord /\ db'.imported = db.imported /\ SchemaRestored
  <2>1. dump # NoDump
    BY <1>6 DEF ReleaseInv, RestoreTells, RestoreReplaces, At
  <2>2. dump \in DbRecord /\ dump.imported = db.imported
    BY <2>1 DEF ReleaseInv, ReleaseTypeOK, ImportsTell
  <2>3. script'.step = "MIGRATE"
    BY <1>6 DEF RestoreReplaces, Go, ReleaseInv, ReleaseTypeOK
  <2>4. PICK effects : effects = [m \in MigrationSet |->
                                    IF m \in Newer /\ Fate[m] = "KEPT" THEN db.effects[m] ELSE dump.effects[m]]
    OBVIOUS
  <2>5. /\ effects \in [MigrationSet -> Nat]
        /\ \A m \in MigrationSet : /\ effects[m] \in {db.effects[m], dump.effects[m]}
                                   /\ dump.effects[m] > 0 => effects[m] > 0
    BY <1>1, <2>2, <2>4 DEF DbRecord, Newer
  <2>6. db' = [dump EXCEPT !.lead = leadInBackup, !.facts = IF leadInBackup THEN @ ELSE {}, !.effects = effects]
    BY <1>6, <2>2, <2>4 DEF RestoreReplaces, DbRecord, MigrationSet
  <2>7. /\ db' \in DbRecord /\ db'.effects = effects /\ db'.local = dump.local
        /\ db'.imported = dump.imported
    BY <2>2, <2>5, <2>6 DEF DbRecord
  <2>8. At("restore", "RESTORE") /\ CountsLeft /\ UNCHANGED failedRestore
    BY <1>6 DEF RestoreReplaces
  <2> QED BY <2>1, <2>2, <2>3, <2>5, <2>7, <2>8 DEF SchemaRestored
<1>7. ASSUME RestoreTears PROVE db' \in DbRecord /\ db'.imported = db.imported /\ SchemaTorn
  <2>1. dump # NoDump
    BY <1>7 DEF ReleaseInv, RestoreTells, RestoreTears, At
  <2>2. dump \in DbRecord /\ dump.imported = db.imported
    BY <2>1 DEF ReleaseInv, ReleaseTypeOK, ImportsTell
  <2>3. PICK torn \in [MigrationSet -> {"OLD", "RESTORED", "DROPPED"}], local \in {dump.local, {}}, data \in {db, dump} :
          db' = [data EXCEPT !.local = local,
                             !.effects = [m \in MigrationSet |->
                                            CASE torn[m] = "OLD"      -> db.effects[m]
                                              [] torn[m] = "RESTORED" -> dump.effects[m]
                                              [] torn[m] = "DROPPED"  -> 0]]
    BY <1>7 DEF RestoreTears, MigrationSet
  <2>4. PICK effects : effects = [m \in MigrationSet |->
                                    CASE torn[m] = "OLD"      -> db.effects[m]
                                      [] torn[m] = "RESTORED" -> dump.effects[m]
                                      [] torn[m] = "DROPPED"  -> 0]
    OBVIOUS
  <2>5. \A m \in MigrationSet : effects[m] \in {db.effects[m], dump.effects[m], 0}
    BY <2>3, <2>4
  <2>6. effects \in [MigrationSet -> Nat]
    <3>1. \A m \in MigrationSet : effects[m] \in Nat
      BY <1>1, <2>2, <2>5 DEF DbRecord
    <3> QED BY <2>4, <3>1
  <2>7. data \in DbRecord /\ data.imported = db.imported /\ local \in SUBSET MigrationSet
        /\ db' = [data EXCEPT !.local = local, !.effects = effects]
    BY <1>1, <2>2, <2>3, <2>4 DEF DbRecord
  <2>8. db' \in DbRecord /\ db'.effects = effects /\ db'.imported = db.imported
    BY <2>6, <2>7 DEF DbRecord
  <2>9. At("restore", "RESTORE") /\ CountsLeft /\ failedRestore' = TRUE /\ script' = NoScript
    BY <1>7 DEF RestoreTears, Ends
  <2> QED BY <2>1, <2>5, <2>8, <2>9 DEF SchemaTorn
<1> QED
  BY <1>2, <1>3, <1>4, <1>5, <1>6, <1>7
     DEF ReleaseNext, releaseVars, StartManualRunner, EndManualRunner, DeployBacksUp, DeployStopsWorker,
         DeployStartsServices, DeployRollsBack, RestoreStops, RestoreExports, RestoreMigrated, RestoreResumes,
         RestoreFails

\* A step that restores no schema leaves what is in effect.
LEMMA EffectsStay ==
  ASSUME ReleaseInv, [ReleaseNext]_releaseVars, ~At("restore", "RESTORE") \/ script' = script
  PROVE  /\ db.local \subseteq db'.local
         /\ \A m \in MigrationSet : InEffect(m) => InEffect(m)'
         /\ \A release \in {1, 2} : Effective(release) => Effective(release)'
<1>1. db \in DbRecord
  BY DEF ReleaseInv, ReleaseTypeOK
<1>2. ~SchemaRestored /\ ~SchemaTorn
  BY DEF SchemaRestored, SchemaTorn, At, NoScript
<1>3. db'.imported = db.imported
      /\ \/ db'.effects = db.effects /\ db'.local = db.local
         \/ \E m \in MigrationSet : /\ db'.effects = [db.effects EXCEPT ![m] = db.effects[m] + 1]
                                    /\ db'.local = db.local \cup {m}
  BY <1>2, SchemaForms
<1>4. db.local \subseteq db'.local /\ \A m \in MigrationSet : db.effects[m] > 0 => db'.effects[m] > 0
  <2>1. db.effects \in [MigrationSet -> Nat]
    BY <1>1 DEF DbRecord
  <2>2. CASE db'.effects = db.effects /\ db'.local = db.local
    BY <2>2
  <2>3. ASSUME NEW m \in MigrationSet, db'.local = db.local \cup {m},
               db'.effects = [db.effects EXCEPT ![m] = db.effects[m] + 1]
        PROVE  db.local \subseteq db'.local /\ \A n \in MigrationSet : db.effects[n] > 0 => db'.effects[n] > 0
    <3> DEFINE e == db.effects
               f == db'.effects
    <3>1. \A n \in MigrationSet : e[n] \in Nat /\ f[n] = IF n = m THEN e[n] + 1 ELSE e[n]
      BY <2>1, <2>3
    <3> HIDE DEF e, f
    <3>2. \A n \in MigrationSet : e[n] > 0 => f[n] > 0
      BY <3>1
    <3> QED BY <2>3, <3>2 DEF e, f
  <2> QED BY <1>3, <2>2, <2>3
<1>5. \A m \in MigrationSet : InEffect(m) => InEffect(m)'
  BY <1>3, <1>4 DEF InEffect
<1> QED BY <1>4, <1>5, FilesOfRelease DEF Effective

\* A restore that stopped half way is remembered, and what was left behind stays counted.
LEMMA HistoryOfRestores ==
  ASSUME ReleaseInv, [ReleaseNext]_releaseVars
  PROVE  /\ leftBehind' \in [MigrationSet -> Nat]
         /\ \A m \in MigrationSet : leftBehind[m] <= leftBehind'[m]
         /\ failedRestore => failedRestore'
<1>1. leftBehind \in [MigrationSet -> Nat]
  BY DEF ReleaseInv, ReleaseTypeOK
<1>2. leftBehind' \in [MigrationSet -> Nat] /\ \A m \in MigrationSet : leftBehind[m] <= leftBehind'[m]
  <2>1. UNCHANGED leftBehind \/ CountsLeft
    BY SchemaForms DEF SchemaRestored, SchemaTorn
  <2> QED BY <1>1, <2>1, SchemaForms, LeftAreCounted
<1>3. failedRestore => failedRestore'
  BY DEF ReleaseNext, releaseVars, Suppress, RunMigration, StartManualRunner, EndManualRunner, DeployBacksUp,
         DeployStopsWorker, DeployStartsServices, DeployRollsBack, RestoreStops, RestoreExports, RestoreMigrated,
         RestoreApplies, RestoreReplaces, RestoreTears, RestoreVerifies, RestoreResumes, RestoreFails
<1> QED BY <1>2, <1>3

------------------------------------------------------------------------------
(* Every step keeps the invariant, conjunct by conjunct.                   *)

LEMMA ReleaseTypesStay ==
  ASSUME ReleaseInv, [ReleaseNext]_releaseVars
  PROVE  ReleaseTypeOK'
<1> DEFINE Rest ==
      /\ dump' = NoDump \/ dump' \in DbRecord
      /\ checkedOut' \in {1, 2} /\ running' \in [api : 0 .. 2, worker : 0 .. 2]
      /\ script' \in [name : {"NONE", "deploy", "restore"},
                      step : {"NONE", "STOP", "MIGRATE", "EXPORT", "RESTORE", "APPLY", "VERIFY", "PREFLIGHT"}, from : 0 .. 2]
      /\ runners' \in [{"script", "manual"} -> [next : Nat, local : SUBSET MigrationSet, imported : SUBSET MigrationSet]]
      /\ known' \subseteq SuppressionKinds /\ manifest' \subseteq SuppressionKinds /\ failedRestore' \in BOOLEAN
<1> SUFFICES Rest
  BY SchemaForms, HistoryOfRestores DEF ReleaseTypeOK
<1>1. ReleaseTypeOK /\ db \in DbRecord /\ db.local \subseteq MigrationSet /\ db.imported \subseteq MigrationSet
      /\ db.facts \subseteq SuppressionKinds
  BY DEF ReleaseInv, ReleaseTypeOK, DbRecord
<1>2. /\ NoScript \in [name : {"NONE", "deploy", "restore"},
                       step : {"NONE", "STOP", "MIGRATE", "EXPORT", "RESTORE", "APPLY", "VERIFY", "PREFLIGHT"}, from : 0 .. 2]
      /\ \A release \in 0 .. 2 : Both(release) \in [api : 0 .. 2, worker : 0 .. 2]
      /\ NotRunning \in [next : Nat, local : SUBSET MigrationSet, imported : SUBSET MigrationSet]
      /\ StartedRunner \in [next : Nat, local : SUBSET MigrationSet, imported : SUBSET MigrationSet]
  BY <1>1 DEF NoScript, Both, NotRunning, StartedRunner
<1>3. CASE UNCHANGED releaseVars
  BY <1>1, <1>3 DEF releaseVars, ReleaseTypeOK
<1>4. ASSUME NEW type \in SuppressionTypes, Suppress(type) PROVE Rest
  BY <1>1, <1>4 DEF Suppress, ReleaseTypeOK
<1>5. ASSUME NEW r \in {"script", "manual"}, RunMigration(r) PROVE Rest
  BY <1>1, <1>5, MigrationForms DEF RunMigration, ReleaseTypeOK
<1>6. CASE StartManualRunner \/ EndManualRunner
  BY <1>1, <1>2, <1>6 DEF StartManualRunner, EndManualRunner, ReleaseTypeOK
<1>7. CASE DeployBacksUp
  BY <1>1, <1>7 DEF DeployBacksUp, Starts, ReleaseTypeOK
<1>8. CASE DeployStopsWorker
  BY <1>1, <1>2, <1>8 DEF DeployStopsWorker, Go, ReleaseTypeOK
<1>9. CASE DeployStartsServices \/ DeployRollsBack
  BY <1>1, <1>2, <1>9 DEF DeployStartsServices, DeployRollsBack, Ends, ReleaseTypeOK, ReleaseInv, ScriptTells, At
<1>10. CASE RestoreStops
  BY <1>1, <1>2, <1>10 DEF RestoreStops, Starts, ReleaseTypeOK
<1>11. CASE RestoreExports
  BY <1>1, <1>11 DEF RestoreExports, Go, ReleaseTypeOK
<1>12. ASSUME NEW leadInBackup \in BOOLEAN, RestoreReplaces(leadInBackup) PROVE Rest
  <2>1. dump \in DbRecord
    BY <1>1, <1>12 DEF ReleaseInv, RestoreTells, RestoreReplaces, ReleaseTypeOK, At
  <2>2. [next |-> 1, local |-> dump.local, imported |-> dump.imported]
          \in [next : Nat, local : SUBSET MigrationSet, imported : SUBSET MigrationSet]
    BY <2>1 DEF DbRecord
  <2> QED BY <1>1, <1>12, <2>2 DEF RestoreReplaces, Go, ReleaseTypeOK
<1>13. CASE RestoreMigrated
  BY <1>1, <1>2, <1>13 DEF RestoreMigrated, Go, ReleaseTypeOK
<1>14. CASE RestoreApplies \/ RestoreVerifies
  BY <1>1, <1>14 DEF RestoreApplies, RestoreVerifies, Go, ReleaseTypeOK
<1>15. CASE RestoreResumes
  BY <1>1, <1>2, <1>15 DEF RestoreResumes, Ends, ReleaseTypeOK
<1>16. CASE RestoreFails \/ RestoreTears
  <2>1. /\ UNCHANGED <<dump, manifest, checkedOut, running, known>> /\ failedRestore' = TRUE /\ script' = NoScript
        /\ \/ UNCHANGED runners
           \/ runners' = [runners EXCEPT !["script"] = NotRunning]
    BY <1>16 DEF RestoreFails, RestoreTears, Ends
  <2> QED BY <1>1, <1>2, <2>1 DEF ReleaseTypeOK
<1> QED
  BY <1>3, <1>4, <1>5, <1>6, <1>7, <1>8, <1>9, <1>10, <1>11, <1>12, <1>13, <1>14, <1>15, <1>16 DEF ReleaseNext, ReleaseTypeOK

\* What the registries know of is there, and was committed as often as it may be.
LEMMA SchemaStaysSound ==
  ASSUME ReleaseInv, [ReleaseNext]_releaseVars
  PROVE  SchemaSound(db)'
<1>1. /\ db \in DbRecord /\ db' \in DbRecord /\ SchemaSound(db) /\ db'.imported = db.imported
      /\ leftBehind \in [MigrationSet -> Nat] /\ leftBehind' \in [MigrationSet -> Nat]
      /\ failedRestore \in BOOLEAN /\ (failedRestore => failedRestore')
  BY SchemaForms, HistoryOfRestores DEF ReleaseInv, ReleaseTypeOK
<1>2. CASE db'.effects = db.effects /\ db'.local = db.local /\ UNCHANGED leftBehind
  BY <1>1, <1>2 DEF SchemaSound
<1>3. ASSUME NEW m \in MigrationSet, m \notin db.local \cup db.imported, UNCHANGED leftBehind,
             db'.effects = [db.effects EXCEPT ![m] = db.effects[m] + 1], db'.local = db.local \cup {m}
      PROVE  SchemaSound(db)'
  BY <1>1, <1>3 DEF SchemaSound, DbRecord
<1>4. CASE SchemaRestored \/ SchemaTorn
  <2>1. dump \in DbRecord /\ SchemaSound(dump)
    BY <1>4 DEF SchemaRestored, SchemaTorn, ReleaseInv, ReleaseTypeOK, ImportsTell
  <2>2. \A m \in MigrationSet : db'.effects[m] \in {db.effects[m], dump.effects[m], 0}
    BY <1>4 DEF SchemaRestored, SchemaTorn
  <2>3. \A m \in MigrationSet :
          /\ leftBehind[m] <= leftBehind'[m]
          /\ db'.effects[m] > 0 /\ m \notin db'.local \cup db'.imported => leftBehind'[m] = leftBehind[m] + 1
    BY <1>1, <1>4, LeftAreCounted DEF SchemaRestored, SchemaTorn
  <2>4. \A m \in MigrationSet : /\ {db.effects[m], dump.effects[m], db'.effects[m]} \subseteq Nat
                                /\ db.effects[m] <= 1 + leftBehind[m] /\ dump.effects[m] <= 1 + leftBehind[m]
    BY <1>1, <2>1 DEF DbRecord, SchemaSound
  <2>5. \A m \in MigrationSet :
          /\ db'.effects[m] <= 1 + leftBehind'[m]
          /\ m \notin db'.local \cup db'.imported => db'.effects[m] <= leftBehind'[m]
    BY <1>1, <2>2, <2>3, <2>4
  <2>6. ASSUME ~failedRestore', NEW m \in db'.local PROVE db'.effects[m] > 0
    <3>1. SchemaRestored /\ ~failedRestore
      BY <1>1, <1>4, <2>6 DEF SchemaTorn
    <3>2. m \in dump.local /\ m \in MigrationSet
      BY <1>1, <2>6, <3>1 DEF SchemaRestored, DbRecord
    <3> QED BY <2>1, <3>1, <3>2 DEF SchemaRestored, SchemaSound
  <2> QED BY <2>5, <2>6 DEF SchemaSound
<1> QED BY <1>2, <1>3, <1>4, SchemaForms

\* The registry of Supabase is written by nobody.
LEMMA ImportsStay ==
  ASSUME ReleaseInv, [ReleaseNext]_releaseVars
  PROVE  ImportsTell'
<1>1. ReleaseTypeOK /\ ImportsTell /\ SchemaSound(db) /\ db \in DbRecord
  BY DEF ReleaseInv, ReleaseTypeOK
<1>2. db'.imported = db.imported
  BY SchemaForms
<1>3. dump' # NoDump => dump'.imported = db.imported /\ SchemaSound(dump)'
  <2>1. CASE dump' = dump
    <3>1. dump # NoDump => dump \in DbRecord
      BY <1>1 DEF ReleaseTypeOK
    <3>2. leftBehind \in [MigrationSet -> Nat] /\ leftBehind' \in [MigrationSet -> Nat]
      BY <1>1, HistoryOfRestores DEF ReleaseTypeOK
    <3> QED BY <1>1, <2>1, <3>1, <3>2, HistoryOfRestores DEF ImportsTell, SchemaSound, DbRecord
  <2>2. CASE dump' = db /\ UNCHANGED <<leftBehind, failedRestore>>
    BY <1>1, <2>2 DEF SchemaSound
  <2> QED
    BY <2>1, <2>2
       DEF ReleaseNext, releaseVars, Suppress, RunMigration, StartManualRunner, EndManualRunner, DeployBacksUp,
           DeployStopsWorker, DeployStartsServices, DeployRollsBack, RestoreStops, RestoreExports, RestoreMigrated,
           RestoreApplies, RestoreReplaces, RestoreTears, RestoreVerifies, RestoreResumes, RestoreFails
<1>4. ASSUME NEW q \in {"script", "manual"}, runners'[q].next > 0
      PROVE  runners'[q].imported = db.imported
  <2>1. runners[q].next > 0 => runners[q].imported = db.imported
    BY <1>1 DEF ImportsTell
  <2>2. CASE runners'[q] = runners[q]
    BY <1>4, <2>1, <2>2
  <2>3. CASE runners'[q] = StartedRunner \/ runners'[q] = NotRunning
    BY <1>4, <2>3 DEF StartedRunner, NotRunning
  <2>4. ASSUME NEW r \in {"script", "manual"}, RunMigration(r), r = q PROVE runners'[q].imported = db.imported
    BY <2>1, <2>4, MigrationForms
  <2>5. ASSUME NEW leadInBackup \in BOOLEAN, RestoreReplaces(leadInBackup)
        PROVE  runners'[q] = runners[q] \/ runners'[q].imported = db.imported
    <3>1. dump.imported = db.imported
      BY <2>5 DEF RestoreReplaces, ReleaseInv, RestoreTells, ImportsTell, At
    <3> QED BY <1>1, <2>5, <3>1 DEF RestoreReplaces, ReleaseTypeOK
  <2>6. ASSUME NEW r \in {"script", "manual"}, RunMigration(r), r # q PROVE runners'[q] = runners[q]
    BY <2>6, MigrationForms
  <2>7. ASSUME NEW type \in SuppressionTypes, Suppress(type) PROVE runners'[q] = runners[q]
    BY <2>7 DEF Suppress
  <2>8. CASE \/ StartManualRunner \/ EndManualRunner \/ DeployStopsWorker \/ DeployStartsServices \/ DeployRollsBack
             \/ RestoreMigrated \/ RestoreFails
    BY <1>1, <2>2, <2>3, <2>8
       DEF StartManualRunner, EndManualRunner, DeployStopsWorker, DeployStartsServices, DeployRollsBack,
           RestoreMigrated, RestoreFails, ReleaseTypeOK
  <2>9. CASE \/ DeployBacksUp \/ RestoreStops \/ RestoreExports \/ RestoreApplies \/ RestoreVerifies \/ RestoreResumes
             \/ RestoreTears \/ UNCHANGED releaseVars
    BY <2>2, <2>9 DEF DeployBacksUp, RestoreStops, RestoreExports, RestoreTears, RestoreApplies, RestoreVerifies, RestoreResumes, releaseVars
  <2> QED BY <2>2, <2>4, <2>5, <2>6, <2>7, <2>8, <2>9 DEF ReleaseNext
<1> QED BY <1>2, <1>3, <1>4 DEF ImportsTell

\* A script is at one of its own steps.
LEMMA ScriptStays ==
  ASSUME ReleaseInv, [ReleaseNext]_releaseVars
  PROVE  ScriptTells' /\ RestoreTells'
<1>1. /\ ScriptTells /\ RestoreTells /\ checkedOut \in {1, 2}
      /\ script \in [name : {"NONE", "deploy", "restore"},
                     step : {"NONE", "STOP", "MIGRATE", "EXPORT", "RESTORE", "APPLY", "VERIFY", "PREFLIGHT"}, from : 0 .. 2]
  BY DEF ReleaseInv, ReleaseTypeOK
<1>2. ASSUME UNCHANGED <<script, running, checkedOut, dump>> PROVE ScriptTells' /\ RestoreTells'
  BY <1>1, <1>2 DEF ScriptTells, RestoreTells, At
<1>3. CASE script' = NoScript
  BY <1>3 DEF ScriptTells, RestoreTells, NoScript, At
<1>4. CASE DeployBacksUp
  BY <1>1, <1>4 DEF DeployBacksUp, Starts, ScriptTells, RestoreTells, At
<1>5. CASE DeployStopsWorker
  BY <1>1, <1>5 DEF DeployStopsWorker, Go, ScriptTells, RestoreTells, At
<1>6. CASE RestoreStops
  BY <1>1, <1>6 DEF RestoreStops, Starts, ScriptTells, RestoreTells, At
<1>7. ASSUME script.name = "restore", UNCHANGED <<running, checkedOut, dump>>,
             NEW step \in {"RESTORE", "MIGRATE", "APPLY", "VERIFY", "PREFLIGHT"}, Go(step)
      PROVE  ScriptTells' /\ RestoreTells'
  BY <1>1, <1>7 DEF Go, ScriptTells, RestoreTells, At
<1>8. CASE RestoreExports \/ RestoreMigrated \/ RestoreApplies \/ RestoreVerifies
  BY <1>7, <1>8 DEF RestoreExports, RestoreMigrated, RestoreApplies, RestoreVerifies, At
<1>9. ASSUME NEW leadInBackup \in BOOLEAN, RestoreReplaces(leadInBackup) PROVE ScriptTells' /\ RestoreTells'
  BY <1>7, <1>9 DEF RestoreReplaces, At
<1> QED
  BY <1>2, <1>3, <1>4, <1>5, <1>6, <1>8, <1>9
     DEF ReleaseNext, releaseVars, Suppress, RunMigration, StartManualRunner, EndManualRunner,
         DeployStartsServices, DeployRollsBack, RestoreResumes, RestoreTears, RestoreFails, Ends

\* What the runner of a script has passed is in effect, whatever a manual runner does next
\* to it.
LEMMA ScriptRunnerStays ==
  ASSUME ReleaseInv, [ReleaseNext]_releaseVars
  PROVE  ScriptRunnerTells'
<1> DEFINE Passed == \A i \in 1 .. Len(Migrations) : i < runners["script"].next => InEffect(Migrations[i])
<1>1. /\ ReleaseTypeOK /\ ScriptRunnerTells /\ ScriptTells /\ db \in DbRecord
      /\ runners["script"] \in [next : Nat, local : SUBSET MigrationSet, imported : SUBSET MigrationSet]
  BY DEF ReleaseInv, ReleaseTypeOK
<1>2. \A i \in 1 .. Len(Migrations) : Migrations[i] \in MigrationSet
  BY ReleaseAssumption DEF MigrationSet, ToSet
<1>3. ASSUME UNCHANGED script, runners'["script"] = runners["script"]
      PROVE  ScriptRunnerTells'
  BY <1>1, <1>2, <1>3, EffectsStay, HistoryOfRestores DEF ScriptRunnerTells
<1>4. ASSUME UNCHANGED <<script, db, failedRestore>>, runners'["script"] = runners["script"]
      PROVE  ScriptRunnerTells'
  BY <1>1, <1>4 DEF ScriptRunnerTells, InEffect
<1>5. CASE RunMigration("script")
  <2>1. PICK n \in Nat, m \in MigrationSet : n = runners["script"].next /\ m = Migrations[n] /\ n \in 1 .. Len(Migrations)
    BY <1>1, <1>5, MigrationForms, FilesOfRelease DEF ReleaseTypeOK
  <2>2. script.step = "MIGRATE" /\ script' = script /\ UNCHANGED failedRestore
    BY <1>1, <1>5, <2>1 DEF ScriptRunnerTells, NotRunning, RunMigration
  <2>3. ~At("restore", "RESTORE")
    BY <2>2 DEF At
  <2>4. /\ runners'["script"].local \subseteq db'.local /\ runners'["script"].next = n + 1
        /\ ~failedRestore => InEffect(m)'
    <3>1. CASE db' = db /\ runners'["script"].local = runners["script"].local
      <4>1. m \in runners["script"].local \/ (m \in runners["script"].imported /\ db.effects[m] > 0)
        BY <1>5, <2>1, <3>1, MigrationForms
      <4>2. runners["script"].local \subseteq db.local /\ runners["script"].imported = db.imported
        BY <1>5, <2>1, <2>2, MigrationForms DEF ReleaseInv, ScriptRunnerTells, ImportsTell
      <4>3. ~failedRestore => InEffect(m)
        BY <4>1, <4>2 DEF ReleaseInv, SchemaSound, InEffect
      <4> QED BY <1>1, <1>5, <2>1, <3>1, <4>2, <4>3, MigrationForms DEF InEffect
    <3>2. CASE /\ runners'["script"].local = runners["script"].local \cup {m}
               /\ m \notin runners["script"].local \cup runners["script"].imported \cup db.local
               /\ db' = [db EXCEPT !.effects[m] = @ + 1, !.local = @ \cup {m}]
      <4>1. m \notin db.local \cup db.imported
        BY <1>5, <2>1, <3>2 DEF ReleaseInv, ImportsTell
      <4>2. db'.effects = [db.effects EXCEPT ![m] = db.effects[m] + 1] /\ db'.local = db.local \cup {m}
        BY <3>2, <4>1, MigrationChanges
      <4>3. db'.effects[m] > 0
        BY <1>1, <2>1, <4>2 DEF DbRecord
      <4> QED BY <1>1, <1>5, <2>1, <2>2, <3>2, <4>2, <4>3, MigrationForms DEF ScriptRunnerTells, InEffect
    <3> QED BY <1>5, <2>1, <3>1, <3>2, MigrationForms
  <2>5. ~failedRestore' => Passed'
    <3>1. ~failedRestore => \A i \in 1 .. Len(Migrations) : i < n => InEffect(Migrations[i])'
      BY <1>1, <1>2, <2>1, <2>2, <2>3, EffectsStay DEF ScriptRunnerTells
    <3> QED BY <2>1, <2>2, <2>4, <3>1
  <2> QED BY <2>2, <2>4, <2>5 DEF ScriptRunnerTells
<1>6. CASE RunMigration("manual")
  <2>1. runners'["script"] = runners["script"] /\ UNCHANGED script
    BY <1>6, MigrationForms DEF RunMigration
  <2> QED BY <1>3, <2>1
<1>7. ASSUME NEW type \in SuppressionTypes, Suppress(type) PROVE ScriptRunnerTells'
  <2>1. db'.effects = db.effects /\ db'.local = db.local /\ db'.imported = db.imported
    BY <1>1, <1>7 DEF Suppress, DbRecord
  <2> QED BY <1>1, <1>7, <2>1 DEF Suppress, ScriptRunnerTells, InEffect
<1>8. CASE StartManualRunner \/ EndManualRunner \/ UNCHANGED releaseVars
  BY <1>1, <1>4, <1>8 DEF StartManualRunner, EndManualRunner, releaseVars, ReleaseTypeOK
<1>9. CASE DeployStopsWorker
  <2>1. /\ runners'["script"].next = 1 /\ runners'["script"].local = db.local /\ db' = db
        /\ script'.step = "MIGRATE"
    BY <1>1, <1>9 DEF DeployStopsWorker, StartedRunner, Go, ReleaseTypeOK
  <2> QED BY <2>1 DEF ScriptRunnerTells
<1>10. ASSUME NEW leadInBackup \in BOOLEAN, RestoreReplaces(leadInBackup) PROVE ScriptRunnerTells'
  <2>1. /\ runners'["script"].next = 1 /\ runners'["script"].local = dump.local /\ db'.local = dump.local
        /\ script'.step = "MIGRATE"
    <3>1. dump \in DbRecord
      BY <1>1, <1>10 DEF RestoreReplaces, ReleaseInv, RestoreTells, ReleaseTypeOK, At
    <3>2. ~SchemaTorn /\ script'.step = "MIGRATE"
      BY <1>1, <1>10 DEF RestoreReplaces, Go, ReleaseTypeOK, SchemaTorn, NoScript
    <3>3. db'.local = dump.local
      BY <1>10, <3>1 DEF RestoreReplaces, DbRecord
    <3> QED BY <1>1, <1>10, <3>1, <3>2, <3>3 DEF RestoreReplaces, ReleaseTypeOK, DbRecord
  <2> QED BY <2>1 DEF ScriptRunnerTells
<1>11. CASE RestoreTears
  BY <1>1, <1>11 DEF RestoreTears, Ends, NoScript, At, ScriptRunnerTells
<1>12. CASE DeployStartsServices \/ DeployRollsBack \/ RestoreMigrated \/ RestoreFails
  <2>1. runners'["script"] = NotRunning /\ script'.step # "MIGRATE"
    BY <1>1, <1>12
       DEF DeployStartsServices, DeployRollsBack, RestoreMigrated, RestoreFails, Ends, Go, NoScript, ReleaseTypeOK
  <2> QED BY <2>1 DEF ScriptRunnerTells
<1>13. CASE \/ DeployBacksUp \/ RestoreStops \/ RestoreExports \/ RestoreApplies \/ RestoreVerifies \/ RestoreResumes
  <2>1. runners' = runners /\ script.step # "MIGRATE" /\ script'.step # "MIGRATE"
    BY <1>1, <1>13
       DEF DeployBacksUp, RestoreStops, RestoreExports, RestoreApplies, RestoreVerifies, RestoreResumes, Starts, At, Go,
           Ends, NoScript, ReleaseTypeOK
  <2> QED BY <1>1, <2>1 DEF ScriptRunnerTells
<1> QED BY <1>5, <1>6, <1>7, <1>8, <1>9, <1>10, <1>11, <1>12, <1>13 DEF ReleaseNext

\* The release that runs, or may run next, finds its schema.
LEMMA SchemaStays ==
  ASSUME ReleaseInv, [ReleaseNext]_releaseVars
  PROVE  SchemaTells'
<1>1. /\ ReleaseTypeOK /\ ScriptRunnerTells /\ ScriptTells /\ SchemaTells /\ db \in DbRecord
      /\ checkedOut \in {1, 2} /\ running \in [api : 0 .. 2, worker : 0 .. 2]
      /\ script \in [name : {"NONE", "deploy", "restore"},
                     step : {"NONE", "STOP", "MIGRATE", "EXPORT", "RESTORE", "APPLY", "VERIFY", "PREFLIGHT"}, from : 0 .. 2]
  BY DEF ReleaseInv, ReleaseTypeOK
<1>2. ~At("restore", "RESTORE") => \A release \in {1, 2} : Effective(release) => Effective(release)'
  BY EffectsStay
<1>3. ASSUME MigrationsDone("script"), script.step = "MIGRATE", ~failedRestore PROVE Effective(checkedOut)
  <2>1. runners["script"].next \in Nat /\ runners["script"].next > Files(checkedOut)
    BY <1>1, <1>3 DEF MigrationsDone, ReleaseTypeOK
  <2>2. Files(checkedOut) \in 0 .. Len(Migrations) /\ Len(Migrations) \in Nat
    BY <1>1, FilesOfRelease, ReleaseAssumption
  <2>3. \A i \in 1 .. Files(checkedOut) : InEffect(Migrations[i])
    BY <1>1, <1>3, <2>1, <2>2 DEF ScriptRunnerTells
  <2> QED BY <2>3 DEF Effective, FilesOf
<1>4. \A release \in {1, 2} : Both(release).api = release /\ Both(release).worker = release
  BY DEF Both
<1>5. ASSUME UNCHANGED <<script, running, checkedOut, failedRestore>> PROVE SchemaTells'
  <2>1. \A release \in {1, 2} : Effective(release) => Effective(release)'
    BY <1>5, EffectsStay
  <2>2. {running.api, running.worker} \ {0} \subseteq {1, 2}
    BY <1>1
  <2>3. At("deploy", "MIGRATE") => script.from \in {1, 2}
    BY <1>1 DEF ScriptTells, At
  <2> QED BY <1>1, <1>5, <2>1, <2>2, <2>3 DEF SchemaTells, At
<1>6. CASE DeployBacksUp \/ RestoreStops
  <2>1. \A release \in {1, 2} : Effective(release) => Effective(release)'
    BY <1>6 DEF DeployBacksUp, RestoreStops, Effective, InEffect
  <2>2. script' \in [name : {"deploy", "restore"}, step : {"STOP", "EXPORT"}, from : 0 .. 2]
    BY <1>1, <1>6 DEF DeployBacksUp, RestoreStops, Starts
  <2>3. script.step # "MIGRATE" /\ running'.api \in {0, running.api} /\ running'.worker \in {0, running.worker}
    BY <1>1, <1>6 DEF DeployBacksUp, RestoreStops, Starts, NoScript, Both
  <2> QED BY <1>1, <1>6, <2>1, <2>2, <2>3 DEF DeployBacksUp, RestoreStops, SchemaTells, At
<1>7. CASE DeployStopsWorker
  <2>1. script.step = "STOP" /\ script.from = checkedOut /\ script'.step = "MIGRATE" /\ script'.from = script.from
    BY <1>1, <1>7 DEF DeployStopsWorker, ScriptTells, At, Go
  <2>2. running'.worker = 0 /\ running'.api = running.api /\ db' = db /\ failedRestore' = failedRestore
    BY <1>1, <1>7 DEF DeployStopsWorker
  <2> QED BY <1>1, <2>1, <2>2 DEF SchemaTells, At, Effective, InEffect
<1>8. CASE DeployStartsServices
  <2>1. /\ ~failedRestore => Effective(checkedOut)
        /\ running' = Both(checkedOut) /\ script' = NoScript /\ UNCHANGED <<db, checkedOut, failedRestore>>
    BY <1>3, <1>8 DEF DeployStartsServices, At, Ends
  <2> QED BY <1>1, <1>4, <2>1 DEF SchemaTells, At, NoScript, Effective, InEffect
<1>9. CASE DeployRollsBack
  <2>1. PICK from \in {1, 2} : from = script.from
    BY <1>1, <1>9 DEF DeployRollsBack, ScriptTells, At
  <2>2. ~failedRestore => Effective(from)
    BY <1>1, <1>9, <2>1 DEF DeployRollsBack, SchemaTells
  <2>3. running' = Both(from) /\ checkedOut' = from /\ script' = NoScript /\ UNCHANGED <<db, failedRestore>>
    BY <1>9, <2>1 DEF DeployRollsBack, Ends
  <2> QED BY <1>4, <2>2, <2>3 DEF SchemaTells, At, NoScript, Effective, InEffect
<1>10. CASE RestoreExports \/ RestoreApplies \/ RestoreVerifies
  <2>1. /\ script.name = "restore" /\ script.step \notin {"MIGRATE", "RESTORE"} /\ script'.name = "restore"
        /\ UNCHANGED <<running, checkedOut, failedRestore>>
    BY <1>1, <1>10 DEF RestoreExports, RestoreApplies, RestoreVerifies, At, Go
  <2> QED BY <1>1, <1>2, <2>1 DEF SchemaTells, At
<1>11. ASSUME NEW leadInBackup \in BOOLEAN, RestoreReplaces(leadInBackup) PROVE SchemaTells'
  <2>1. /\ script.name = "restore" /\ script'.step = "MIGRATE" /\ script'.name = "restore" /\ running' = running
        /\ running = Both(0)
    BY <1>1, <1>11 DEF RestoreReplaces, At, Go, ScriptTells
  <2> QED BY <2>1 DEF SchemaTells, At, Both
<1>12. CASE RestoreMigrated
  <2>1. /\ ~failedRestore => Effective(checkedOut)
        /\ script.name = "restore" /\ script'.name = "restore" /\ UNCHANGED <<db, checkedOut, running, failedRestore>>
    BY <1>1, <1>3, <1>12 DEF RestoreMigrated, At, Go
  <2> QED BY <1>1, <2>1 DEF SchemaTells, ScriptTells, Both, At, Effective, InEffect
<1>13. CASE RestoreResumes
  <2>1. /\ script.step = "PREFLIGHT" /\ running' \in {running, Both(checkedOut)} /\ script' = NoScript
        /\ UNCHANGED <<db, checkedOut, failedRestore>>
    BY <1>13 DEF RestoreResumes, At, Ends
  <2> QED BY <1>1, <1>4, <2>1 DEF SchemaTells, At, NoScript, Effective, InEffect
<1>14. CASE RestoreFails \/ RestoreTears
  BY <1>14 DEF RestoreFails, RestoreTears, SchemaTells
<1>15. ASSUME NEW type \in SuppressionTypes, Suppress(type) PROVE SchemaTells'
  BY <1>5, <1>15 DEF Suppress
<1>16. ASSUME NEW r \in {"script", "manual"}, RunMigration(r) PROVE SchemaTells'
  BY <1>5, <1>16 DEF RunMigration
<1>17. CASE StartManualRunner \/ EndManualRunner \/ UNCHANGED releaseVars
  BY <1>5, <1>17 DEF StartManualRunner, EndManualRunner, releaseVars
<1> QED
  BY <1>6, <1>7, <1>8, <1>9, <1>10, <1>11, <1>12, <1>13, <1>14, <1>15, <1>16, <1>17 DEF ReleaseNext

\* A suppression stays in the database or in the manifest, and is enforced when a restore
\* resumes.
LEMMA SuppressionsStay ==
  ASSUME ReleaseInv, [ReleaseNext]_releaseVars
  PROVE  SuppressionsTell'
<1>1. /\ ReleaseTypeOK /\ ScriptTells /\ SuppressionsTell /\ db \in DbRecord
      /\ script \in [name : {"NONE", "deploy", "restore"},
                     step : {"NONE", "STOP", "MIGRATE", "EXPORT", "RESTORE", "APPLY", "VERIFY", "PREFLIGHT"}, from : 0 .. 2]
  BY DEF ReleaseInv, ReleaseTypeOK
<1>2. ASSUME UNCHANGED <<known, manifest, failedRestore>>,
             db'.facts = db.facts, db'.jobs = db.jobs, db'.evidence = db.evidence,
             \/ script' = script
             \/ ~RestoreAt({"RESTORE", "MIGRATE", "APPLY", "VERIFY"}) /\ ~RestoreAt({"RESTORE", "MIGRATE", "APPLY", "VERIFY", "PREFLIGHT"})'
             \/ RestoreAt({"MIGRATE"}) /\ RestoreAt({"APPLY"})'
      PROVE  SuppressionsTell'
  BY <1>1, <1>2 DEF SuppressionsTell, RestoreAt, Affected
<1>3. ASSUME NEW type \in SuppressionTypes, Suppress(type) PROVE SuppressionsTell'
  <2>1. running.api # 0 /\ type \in SuppressionKinds
    BY <1>3 DEF Suppress
  <2>2. script.name # "restore" /\ script' = script
    BY <1>1, <1>3, <2>1 DEF ScriptTells, Both, Suppress
  <2>3. /\ db'.facts = db.facts \cup {type} /\ db'.evidence = "NONE" /\ known' = known \cup {type}
        /\ failedRestore' = failedRestore
    BY <1>1, <1>3 DEF Suppress, DbRecord
  <2> QED BY <1>1, <2>2, <2>3 DEF SuppressionsTell, RestoreAt
<1>4. ASSUME NEW r \in {"script", "manual"}, RunMigration(r) PROVE SuppressionsTell'
  <2>1. /\ db'.facts = db.facts /\ db'.jobs = db.jobs /\ db'.evidence = db.evidence
    <3>1. CASE db' = db
      BY <3>1
    <3>2. CASE db' # db
      <4>1. runners[r].imported = db.imported
        BY <1>4, MigrationForms DEF ReleaseInv, ReleaseTypeOK, ImportsTell
      <4>2. PICK m \in MigrationSet :
              m \notin db.local \cup db.imported /\ db' = [db EXCEPT !.effects[m] = @ + 1, !.local = @ \cup {m}]
        BY <1>4, <3>2, <4>1, MigrationForms
      <4> QED BY <4>2, MigrationChanges
    <3> QED BY <3>1, <3>2
  <2> QED BY <1>2, <1>4, <2>1 DEF RunMigration
<1>5. CASE StartManualRunner \/ EndManualRunner \/ UNCHANGED releaseVars
  BY <1>2, <1>5 DEF StartManualRunner, EndManualRunner, releaseVars
<1>6. CASE DeployBacksUp \/ RestoreStops \/ DeployStopsWorker \/ DeployStartsServices \/ DeployRollsBack \/ RestoreResumes
  <2>1. UNCHANGED <<known, manifest, failedRestore, db>>
    BY <1>6 DEF DeployBacksUp, RestoreStops, DeployStopsWorker, DeployStartsServices, DeployRollsBack, RestoreResumes
  <2>2. ~RestoreAt({"RESTORE", "MIGRATE", "APPLY", "VERIFY"})
    BY <1>1, <1>6
       DEF DeployBacksUp, RestoreStops, DeployStopsWorker, DeployStartsServices, DeployRollsBack, RestoreResumes,
           Starts, NoScript, At, RestoreAt
  <2>3. ~RestoreAt({"RESTORE", "MIGRATE", "APPLY", "VERIFY", "PREFLIGHT"})'
    BY <1>1, <1>6
       DEF DeployBacksUp, RestoreStops, DeployStopsWorker, DeployStartsServices, DeployRollsBack, RestoreResumes,
           Starts, NoScript, At, RestoreAt, Ends, Go
  <2> QED BY <1>2, <2>1, <2>2, <2>3
<1>7. CASE RestoreExports
  <2>1. /\ RestoreAt({"EXPORT"}) /\ RestoreAt({"RESTORE"})' /\ manifest' = db.facts
        /\ UNCHANGED <<known, failedRestore>>
    BY <1>1, <1>7 DEF RestoreExports, At, Go, RestoreAt
  <2> QED BY <1>1, <2>1 DEF SuppressionsTell, RestoreAt
<1>8. ASSUME NEW leadInBackup \in BOOLEAN, RestoreReplaces(leadInBackup) PROVE SuppressionsTell'
  <2>1. RestoreAt({"RESTORE"}) /\ RestoreAt({"MIGRATE"})' /\ UNCHANGED <<known, manifest, failedRestore>>
    BY <1>1, <1>8 DEF RestoreReplaces, At, Go, RestoreAt
  <2> QED BY <1>1, <2>1 DEF SuppressionsTell, RestoreAt
<1>9. CASE RestoreMigrated
  <2>1. RestoreAt({"MIGRATE"}) /\ RestoreAt({"APPLY"})' /\ UNCHANGED <<known, manifest, failedRestore, db>>
    BY <1>1, <1>9 DEF RestoreMigrated, At, Go, RestoreAt
  <2> QED BY <1>2, <2>1
<1>10. CASE RestoreApplies
  <2>1. RestoreAt({"APPLY"}) /\ RestoreAt({"VERIFY"})' /\ UNCHANGED <<known, manifest, failedRestore>>
    BY <1>1, <1>10 DEF RestoreApplies, At, Go, RestoreAt
  <2>2. db'.facts = db.facts \cup manifest
    BY <1>1, <1>10 DEF RestoreApplies, Reconciled, DbRecord
  <2> QED BY <1>1, <2>1, <2>2 DEF SuppressionsTell, RestoreAt
<1>11. CASE RestoreVerifies
  <2>1. RestoreAt({"VERIFY"}) /\ RestoreAt({"PREFLIGHT"})' /\ UNCHANGED <<known, manifest, failedRestore>>
    BY <1>1, <1>11 DEF RestoreVerifies, At, Go, RestoreAt
  <2>2. db'.facts = db.facts /\ db'.jobs = db.jobs /\ db.jobs \cap Affected(manifest) = {}
    BY <1>1, <1>11 DEF RestoreVerifies, DbRecord
  <2>3. known \subseteq manifest => Affected(known) \subseteq Affected(manifest)
    BY DEF Affected
  <2>4. Affected(known)' = Affected(known)
    BY <2>1 DEF Affected
  <2> QED BY <1>1, <2>1, <2>2, <2>3, <2>4 DEF SuppressionsTell, RestoreAt
<1>12. CASE RestoreFails \/ RestoreTears
  BY <1>12 DEF RestoreFails, RestoreTears, SuppressionsTell
<1> QED
  BY <1>3, <1>4, <1>5, <1>6, <1>7, <1>8, <1>9, <1>10, <1>11, <1>12 DEF ReleaseNext

\* ReleaseInv is inductive.
LEMMA ReleaseInvariant == ReleaseSpec => []ReleaseInv
<1>1. ReleaseInit => ReleaseInv
  <2> SUFFICES ASSUME ReleaseInit PROVE ReleaseInv
    OBVIOUS
  <2>1. PICK imported \in {{}} \cup {{m} : m \in Validated}, complete \in BOOLEAN :
          db = [effects |-> [m \in ToSet(Migrations) |->
                               IF m \in FilesOf(1) \/ (m \in imported /\ complete) THEN 1 ELSE 0],
                local |-> FilesOf(1), imported |-> imported,
                lead |-> TRUE, facts |-> {}, jobs |-> {"EMAIL", "WHATSAPP"}, evidence |-> "NONE"]
    BY DEF ReleaseInit, DbInit
  <2>2. imported \subseteq MigrationSet /\ FilesOf(1) \subseteq MigrationSet
    BY ReleaseAssumption, FilesOfRelease DEF MigrationSet
  <2>3. db \in DbRecord /\ SchemaSound(db) /\ Effective(1) /\ leftBehind \in [MigrationSet -> Nat]
    BY <2>1, <2>2 DEF DbRecord, SchemaSound, Effective, InEffect, MigrationSet, ReleaseInit
  <2>4. /\ Both(1) \in [api : 0 .. 2, worker : 0 .. 2] /\ Both(1).api = 1 /\ Both(1).worker = 1
        /\ NoScript.step = "NONE" /\ NoScript.name = "NONE" /\ NotRunning.next = 0
        /\ NoScript \in [name : {"NONE", "deploy", "restore"},
                         step : {"NONE", "STOP", "MIGRATE", "EXPORT", "RESTORE", "APPLY", "VERIFY", "PREFLIGHT"}, from : 0 .. 2]
        /\ NotRunning \in [next : Nat, local : SUBSET MigrationSet, imported : SUBSET MigrationSet]
    BY DEF Both, NoScript, NotRunning
  <2>5. ReleaseTypeOK
    BY <2>3, <2>4 DEF ReleaseInit, ReleaseTypeOK
  <2>6. ImportsTell /\ ScriptTells /\ RestoreTells /\ ScriptRunnerTells
    BY <2>4 DEF ReleaseInit, ImportsTell, ScriptTells, RestoreTells, ScriptRunnerTells, At
  <2>7. SchemaTells
    BY <2>3, <2>4 DEF ReleaseInit, SchemaTells, At
  <2>8. SuppressionsTell
    BY <2>1, <2>4 DEF ReleaseInit, SuppressionsTell, RestoreAt
  <2> QED BY <2>3, <2>5, <2>6, <2>7, <2>8 DEF ReleaseInv
<1>2. ReleaseInv /\ [ReleaseNext]_releaseVars => ReleaseInv'
  BY ReleaseTypesStay, SchemaStaysSound, ImportsStay, ScriptStays, ScriptRunnerStays, SchemaStays, SuppressionsStay
     DEF ReleaseInv
<1> QED BY <1>1, <1>2, PTL DEF ReleaseSpec

------------------------------------------------------------------------------
(* Theorems.                                                               *)

\* What runs finds the schema of its release, every migration with its objects and its
\* registration, and no migration is committed twice but for once more after each restore
\* that left its objects unregistered (ReleaseRunsOnItsSchema), whatever runners race,
\* deployments fail and backups without the last migrations are restored.
THEOREM ReleasesFindTheirSchema == ReleaseSpec => []ReleaseRunsOnItsSchema
<1>1. ReleaseInv => ReleaseRunsOnItsSchema
  <2> SUFFICES ASSUME ReleaseInv PROVE ReleaseRunsOnItsSchema
    OBVIOUS
  <2>1. SchemaSound(db) /\ SchemaTells
    BY DEF ReleaseInv
  <2> QED BY <2>1 DEF ReleaseRunsOnItsSchema, SchemaTells, SchemaSound, Effective, InEffect, MigrationSet
<1> QED BY <1>1, ReleaseInvariant, PTL

\* Services that resume after a restore enforce every suppression acknowledged before it
\* (RestoreKeepsSuppressions), unless a restore stopped half way.
THEOREM RestoresKeepSuppressions == ReleaseSpec => []RestoreKeepsSuppressions
<1>1. ReleaseInv => RestoreKeepsSuppressions
  BY DEF ReleaseInv, ScriptTells, SuppressionsTell, RestoreAt, RestoreKeepsSuppressions
<1> QED BY <1>1, ReleaseInvariant, PTL

------------------------------------------------------------------------------
(***************************************************************************)
(* Prospecting.                                                            *)
(***************************************************************************)
Places == 1 .. LastCity

ProspectTypeOK ==
  /\ cityRuns \in Seq([fp : ProspectFingerprints, campaign : ProspectCampaigns, city : Places, metrics : ProspectMetrics])
  /\ cityState \in [ProspectCampaigns -> [city : 0 .. LastCity, low : 0 .. 2, version : Nat]]
  /\ cityTransitions \subseteq [campaign : ProspectCampaigns, from : Places, to : Places, reason : {EARNED, "MANUAL"}, run : Nat]
  /\ cityCalls \in [ProspectCallers ->
       [step : {"NONE", "READ", "LOCK", "DONE"}, fp : ProspectFingerprints \cup {"NONE"},
        campaign : ProspectCampaigns \cup {"NONE"}, city : 0 .. LastCity,
        answer : {"NONE", "REPLAYED", "SCOPE_MISMATCH", "CITY_MISMATCH", "RECORDED"}, at : Nat]]

\* What a call in progress asks for, and what was there when one was refused.
CallTells(call) ==
  /\ call.step \in {"READ", "LOCK"} =>
       call.fp \in ProspectFingerprints /\ call.campaign \in ProspectCampaigns /\ call.city \in Places
  /\ call.answer = "CITY_MISMATCH" =>
       call.at <= Len(cityRuns) /\ \A i \in 1 .. call.at : cityRuns[i].fp # call.fp

RecordedOnce == \A i, j \in DOMAIN cityRuns : cityRuns[i].fp = cityRuns[j].fp => i = j

Left(c, city) == \E t \in cityTransitions : t.campaign = c /\ t.from = city

\* A transition goes one city on, and an automatic one was earned; no run of the city or
\* of one before it follows.
TransitionTells(t) ==
  /\ t.to = t.from + 1 /\ t.run \in DOMAIN cityRuns
  /\ t.reason = EARNED =>
       /\ EarnedBy(t)
       /\ \A i \in DOMAIN cityRuns : i > t.run /\ cityRuns[i].campaign = t.campaign => cityRuns[i].city > t.from

MovesTell ==
  /\ \A c \in ProspectCampaigns, city \in Places : city < CityOf(c) <=> Left(c, city)
  /\ \A t, u \in cityTransitions : t.campaign = u.campaign /\ t.from = u.from => t = u
  /\ \A t \in cityTransitions : TransitionTells(t)

ProspectInv ==
  /\ ProspectTypeOK /\ \A k \in ProspectCallers : CallTells(cityCalls[k])
  /\ RecordedOnce /\ MovesTell

------------------------------------------------------------------------------
(* Lemmas.                                                                 *)

\* A set of positions has a last one: of the sets of those behind a position one is
\* minimal, and nothing is behind that position.
LEMMA LastPosition ==
  ASSUME NEW n \in Nat, NEW S \in SUBSET (1 .. n), S # {}
  PROVE  Max(S) \in S /\ \A i \in S : i <= Max(S)
<1> DEFINE Behind(i) == {j \in S : j > i}
<1> DEFINE Tails == {Behind(i) : i \in S}
<1>1. \A i \in S : Behind(i) \in FiniteSubsetsOf(S)
  <2> TAKE i \in S
  <2>1. IsFiniteSet(1 .. n)
    BY FS_Interval
  <2>2. IsFiniteSet(S)
    BY <2>1, FS_Subset
  <2>3. IsFiniteSet(Behind(i))
    BY <2>2, FS_Subset
  <2> QED BY <2>3 DEF FiniteSubsetsOf
<1>2. PICK tail \in Tails : \A other \in Tails : ~(<<other, tail>> \in StrictSubsetOrdering(S))
  <2>1. Tails \subseteq FiniteSubsetsOf(S) /\ Tails # {}
    BY <1>1
  <2> HIDE DEF Tails
  <2> QED BY <2>1, WFMin, FS_StrictSubsetOrderingWellFounded
<1>3. PICK i \in S : tail = Behind(i)
  OBVIOUS
<1>4. \A j \in S : j <= i
  <2> SUFFICES ASSUME NEW j \in S, ~(j <= i) PROVE FALSE
    OBVIOUS
  <2>1. Behind(j) \in Tails /\ Behind(j) \subseteq tail /\ j \in tail /\ j \notin Behind(j)
    <3>1. j > i /\ ~(j > j) /\ \A l \in S : l > j => l > i
      OBVIOUS
    <3>2. j \in Behind(i) /\ j \notin Behind(j) /\ \A l \in Behind(j) : l \in Behind(i)
      BY <3>1
    <3> QED BY <1>3, <3>2
  <2>2. <<Behind(j), tail>> \in StrictSubsetOrdering(S)
    BY <2>1, <1>3 DEF StrictSubsetOrdering
  <2> QED BY <1>2, <2>1, <2>2
<1> QED BY <1>4 DEF Max

\* What follows a run changes nothing of a transition: it stays earned.
LEMMA EarnedStays ==
  ASSUME NEW t, t.run \in DOMAIN cityRuns, EarnedBy(t), t.run \in Nat,
         \A i \in 1 .. t.run : cityRuns'[i] = cityRuns[i]
  PROVE  EarnedBy(t)'
<1> DEFINE here == {i \in 1 .. t.run : cityRuns[i].campaign = t.campaign /\ cityRuns[i].city = t.from}
<1> DEFINE before == here \ {t.run}
<1>1. {i \in 1 .. t.run : cityRuns'[i].campaign = t.campaign /\ cityRuns'[i].city = t.from} = here
  OBVIOUS
<1>2. /\ t.run \in here /\ before # {}
      /\ Saturates(cityRuns[t.run].metrics) /\ Saturates(cityRuns[Max(before)].metrics)
  BY DEF EarnedBy
<1>3. before \in SUBSET (1 .. t.run)
  OBVIOUS
<1>4. Max(before) \in 1 .. t.run
  <2> HIDE DEF before
  <2> QED BY <1>2, <1>3, LastPosition
<1>5. t.run \in 1 .. t.run
  BY <1>2
<1> QED BY <1>1, <1>2, <1>4, <1>5 DEF EarnedBy

\* One run more.
LEMMA RunAppended ==
  ASSUME ProspectInv,
         NEW r \in [fp : ProspectFingerprints, campaign : ProspectCampaigns, city : Places, metrics : ProspectMetrics],
         cityRuns' = Append(cityRuns, r)
  PROVE  /\ cityRuns' \in Seq([fp : ProspectFingerprints, campaign : ProspectCampaigns, city : Places,
                               metrics : ProspectMetrics])
         /\ Len(cityRuns) \in Nat /\ Len(cityRuns') = Len(cityRuns) + 1
         /\ DOMAIN cityRuns = 1 .. Len(cityRuns) /\ DOMAIN cityRuns' = 1 .. Len(cityRuns) + 1
         /\ cityRuns'[Len(cityRuns) + 1] = r
         /\ \A i \in 1 .. Len(cityRuns) : cityRuns'[i] = cityRuns[i]
BY DEF ProspectInv, ProspectTypeOK

\* Where a campaign is.
LEMMA CityOfCampaign ==
  ASSUME ProspectTypeOK, NEW c \in ProspectCampaigns
  PROVE  CityOf(c) \in Places
BY ProspectAssumption DEF ProspectTypeOK, CityOf, Places

\* The position of a campaign and its transitions stay in step when it moves on.
LEMMA MoveKeeps ==
  ASSUME ProspectInv, NEW c \in ProspectCampaigns, NEW version \in Nat, NEW run \in Nat,
         NEW reason \in {EARNED, "MANUAL"}, MovedOn(c, version, run, reason),
         \A t : t.campaign = c /\ t.from = CityOf(c) /\ t.run = run /\ t.reason = reason /\ t.to = CityOf(c) + 1
                  => TransitionTells(t)',
         \A t \in cityTransitions : TransitionTells(t)'
  PROVE  /\ MovesTell'
         /\ cityState' \in [ProspectCampaigns -> [city : 0 .. LastCity, low : 0 .. 2, version : Nat]]
         /\ cityTransitions' \subseteq
              [campaign : ProspectCampaigns, from : Places, to : Places, reason : {EARNED, "MANUAL"}, run : Nat]
<1> DEFINE new == [campaign |-> c, from |-> CityOf(c), to |-> CityOf(c) + 1, reason |-> reason, run |-> run]
<1>1. /\ CityOf(c) < LastCity
      /\ ~\E t \in cityTransitions : t.campaign = c /\ t.from = CityOf(c)
      /\ cityTransitions' = cityTransitions \cup {new}
      /\ cityState' = [cityState EXCEPT ![c] = [city |-> CityOf(c) + 1, low |-> 0, version |-> version + 1]]
  BY DEF MovedOn
<1>2. /\ CityOf(c) \in Places /\ LastCity \in Nat /\ ProspectTypeOK /\ MovesTell
  BY CityOfCampaign, ProspectAssumption DEF ProspectInv
<1>3. CityOf(c) + 1 \in Places
  BY <1>1, <1>2 DEF Places
<1>4. cityState' \in [ProspectCampaigns -> [city : 0 .. LastCity, low : 0 .. 2, version : Nat]]
  <2>1. [city |-> CityOf(c) + 1, low |-> 0, version |-> version + 1] \in [city : 0 .. LastCity, low : 0 .. 2, version : Nat]
    BY <1>2, <1>3 DEF Places
  <2> QED BY <1>1, <1>2, <2>1 DEF ProspectTypeOK
<1>5. new \in [campaign : ProspectCampaigns, from : Places, to : Places, reason : {EARNED, "MANUAL"}, run : Nat]
  BY <1>2, <1>3
<1>6. \A d \in ProspectCampaigns : cityState'[d].city = IF d = c THEN CityOf(c) + 1 ELSE cityState[d].city
  BY <1>1, <1>2 DEF ProspectTypeOK
<1>7. ASSUME NEW d \in ProspectCampaigns, NEW city \in Places
      PROVE  (city < CityOf(d))' <=> Left(d, city)'
  <2>1. Left(d, city)' <=> Left(d, city) \/ (d = c /\ city = CityOf(c))
    <3>1. new.campaign = c /\ new.from = CityOf(c)
      OBVIOUS
    <3> HIDE DEF new
    <3> QED BY <1>1, <3>1 DEF Left
  <2>2. city < CityOf(d) <=> Left(d, city)
    BY <1>2 DEF MovesTell
  <2>3. CityOf(d)' = IF d = c THEN CityOf(c) + 1 ELSE CityOf(d)
    BY <1>2, <1>6 DEF CityOf, Places
  <2> QED BY <1>2, <2>1, <2>2, <2>3 DEF Places
<1>8. ASSUME NEW t \in cityTransitions', NEW u \in cityTransitions', t.campaign = u.campaign, t.from = u.from
      PROVE  t = u
  BY <1>1, <1>2, <1>8 DEF MovesTell
<1>9. ASSUME NEW t \in cityTransitions' PROVE TransitionTells(t)'
  BY <1>1, <1>9
<1> QED BY <1>1, <1>2, <1>4, <1>5, <1>7, <1>8, <1>9 DEF MovesTell, ProspectTypeOK

\* A step that appends no run and moves nobody keeps what is known of the transitions.
LEMMA MovesStay ==
  ASSUME ProspectInv, UNCHANGED <<cityRuns, cityTransitions>>, \A c \in ProspectCampaigns : CityOf(c)' = CityOf(c)
  PROVE  MovesTell'
<1>1. \A c, city : Left(c, city)' <=> Left(c, city)
  BY DEF Left
<1>2. \A t \in cityTransitions : TransitionTells(t)'
  BY DEF ProspectInv, MovesTell, TransitionTells, EarnedBy
<1> QED BY <1>1, <1>2 DEF ProspectInv, MovesTell

------------------------------------------------------------------------------
(* Every step keeps the invariant.                                         *)

\* An answer to a call.
LEMMA AnswerTypes ==
  ASSUME ProspectInv, NEW k \in ProspectCallers, Len(cityRuns') \in Nat,
         NEW answer \in {"REPLAYED", "SCOPE_MISMATCH", "CITY_MISMATCH", "RECORDED"}, Answers(k, answer)
  PROVE  /\ cityCalls'[k].step = "DONE" /\ cityCalls'[k].answer = answer /\ cityCalls'[k].at = Len(cityRuns')
         /\ cityCalls'[k].fp = cityCalls[k].fp
         /\ \A q \in ProspectCallers \ {k} : cityCalls'[q] = cityCalls[q]
         /\ cityCalls' \in [ProspectCallers ->
              [step : {"NONE", "READ", "LOCK", "DONE"}, fp : ProspectFingerprints \cup {"NONE"},
               campaign : ProspectCampaigns \cup {"NONE"}, city : 0 .. LastCity,
               answer : {"NONE", "REPLAYED", "SCOPE_MISMATCH", "CITY_MISMATCH", "RECORDED"}, at : Nat]]
<1>1. cityCalls \in [ProspectCallers ->
        [step : {"NONE", "READ", "LOCK", "DONE"}, fp : ProspectFingerprints \cup {"NONE"},
         campaign : ProspectCampaigns \cup {"NONE"}, city : 0 .. LastCity,
         answer : {"NONE", "REPLAYED", "SCOPE_MISMATCH", "CITY_MISMATCH", "RECORDED"}, at : Nat]]
  BY DEF ProspectInv, ProspectTypeOK
<1>2. PICK n \in Nat : n = Len(cityRuns')
  OBVIOUS
<1>3. PICK call : call = [cityCalls[k] EXCEPT !.step = "DONE", !.answer = answer, !.at = n]
  OBVIOUS
<1>4. /\ call \in [step : {"NONE", "READ", "LOCK", "DONE"}, fp : ProspectFingerprints \cup {"NONE"},
                   campaign : ProspectCampaigns \cup {"NONE"}, city : 0 .. LastCity,
                   answer : {"NONE", "REPLAYED", "SCOPE_MISMATCH", "CITY_MISMATCH", "RECORDED"}, at : Nat]
      /\ call.step = "DONE" /\ call.answer = answer /\ call.at = n /\ call.fp = cityCalls[k].fp
  BY <1>1, <1>3
<1>5. cityCalls' = [cityCalls EXCEPT ![k] = call]
  BY <1>1, <1>2, <1>3 DEF Answers
<1> QED BY <1>1, <1>2, <1>4, <1>5

\* A call is made: it starts from nothing.
LEMMA AskKeeps ==
  ASSUME ProspectInv, NEW k \in ProspectCallers, NEW fp \in ProspectFingerprints, NEW c \in ProspectCampaigns,
         NEW city \in Places, Asks(k, fp, c, city)
  PROVE  ProspectInv'
<1> DEFINE Calls == [step : {"NONE", "READ", "LOCK", "DONE"}, fp : ProspectFingerprints \cup {"NONE"},
                     campaign : ProspectCampaigns \cup {"NONE"}, city : 0 .. LastCity,
                     answer : {"NONE", "REPLAYED", "SCOPE_MISMATCH", "CITY_MISMATCH", "RECORDED"}, at : Nat]
<1>1. PICK call : call = [NoCall EXCEPT !.step = "READ", !.fp = fp, !.campaign = c, !.city = city]
  OBVIOUS
<1>2. cityCalls' = [cityCalls EXCEPT ![k] = call] /\ UNCHANGED <<cityRuns, cityState, cityTransitions>>
  BY <1>1 DEF Asks
<1>3. NoCall \in Calls /\ NoCall.answer = "NONE"
  BY ProspectAssumption DEF NoCall
<1>4. /\ call \in Calls
      /\ call.step = "READ" /\ call.fp = fp /\ call.campaign = c /\ call.city = city /\ call.answer = "NONE"
  <2>1. PICK base \in Calls : base = NoCall
    BY <1>3
  <2>2. city \in 0 .. LastCity
    BY ProspectAssumption DEF Places
  <2>3. call = [base EXCEPT !.step = "READ", !.fp = fp, !.campaign = c, !.city = city]
    BY <1>1, <2>1
  <2>4. call \in Calls /\ call.step = "READ" /\ call.fp = fp /\ call.campaign = c /\ call.city = city
    BY <2>2, <2>3
  <2>5. call.answer = base.answer
    BY <2>3
  <2> QED BY <1>3, <2>1, <2>4, <2>5
<1>5. ProspectTypeOK'
  BY <1>2, <1>4 DEF ProspectInv, ProspectTypeOK
<1>6. \A q \in ProspectCallers : CallTells(cityCalls[q])'
  BY <1>2, <1>4 DEF ProspectInv, ProspectTypeOK, CallTells
<1>7. MovesTell'
  BY <1>2, MovesStay DEF CityOf
<1> QED BY <1>2, <1>5, <1>6, <1>7 DEF ProspectInv, RecordedOnce

\* An answer that records nothing; a refusal for the city is given to a fingerprint that
\* no run has.
LEMMA RefusalKeeps ==
  ASSUME ProspectInv, NEW k \in ProspectCallers, UNCHANGED <<cityRuns, cityState, cityTransitions>>,
         NEW answer \in {"REPLAYED", "SCOPE_MISMATCH", "CITY_MISMATCH"}, Answers(k, answer),
         answer = "CITY_MISMATCH" => Recorded(cityCalls[k].fp) = {}
  PROVE  ProspectInv'
<1>1. Len(cityRuns') \in Nat /\ DOMAIN cityRuns = 1 .. Len(cityRuns)
  BY DEF ProspectInv, ProspectTypeOK
<1>2. \A q \in ProspectCallers \ {k} : CallTells(cityCalls[q])'
  BY <1>1, AnswerTypes DEF ProspectInv, CallTells
<1>3. CallTells(cityCalls[k])'
  BY <1>1, AnswerTypes DEF CallTells, Recorded
<1>4. MovesTell'
  BY MovesStay DEF CityOf
<1> QED BY <1>1, <1>2, <1>3, <1>4, AnswerTypes DEF ProspectInv, ProspectTypeOK, RecordedOnce

\* The first read finds no run: the call goes on to the lock.
LEMMA ReadKeeps ==
  ASSUME ProspectInv, NEW k \in ProspectCallers, cityCalls[k].step = "READ",
         cityCalls' = [cityCalls EXCEPT ![k].step = "LOCK"], UNCHANGED <<cityRuns, cityState, cityTransitions>>
  PROVE  ProspectInv'
<1>1. ProspectTypeOK'
  BY DEF ProspectInv, ProspectTypeOK
<1>2. \A q \in ProspectCallers : CallTells(cityCalls[q])'
  BY DEF ProspectInv, ProspectTypeOK, CallTells
<1>3. MovesTell'
  BY MovesStay DEF CityOf
<1> QED BY <1>1, <1>2, <1>3 DEF ProspectInv, RecordedOnce

\* A campaign is moved on by hand, or its progress is corrected.
LEMMA StateKeeps ==
  ASSUME ProspectInv, NEW c \in ProspectCampaigns,
         \/ UpdateProspectingCityState(c, 0) \/ UpdateProspectingCityState(c, 2)
         \/ \E run \in DOMAIN cityRuns : AdvanceProspectingCityState(c, run)
  PROVE  ProspectInv'
<1>1. UNCHANGED <<cityRuns, cityCalls>> /\ cityState[c].version \in Nat /\ ProspectTypeOK
  BY DEF UpdateProspectingCityState, AdvanceProspectingCityState, ProspectInv, ProspectTypeOK
<1>2. \A q \in ProspectCallers : CallTells(cityCalls[q])'
  BY <1>1 DEF ProspectInv, CallTells
<1>3. ASSUME NEW low \in {0, 2}, UpdateProspectingCityState(c, low) PROVE ProspectInv'
  <2>1. cityState' = [cityState EXCEPT ![c].low = low, ![c].version = @ + 1] /\ UNCHANGED cityTransitions
    BY <1>3 DEF UpdateProspectingCityState
  <2>2. PICK n \in Nat : n = cityState[c].version + 1
    BY <1>1
  <2>3. PICK state : state = [cityState[c] EXCEPT !.low = low, !.version = n]
    OBVIOUS
  <2>4. state \in [city : 0 .. LastCity, low : 0 .. 2, version : Nat] /\ state.city = cityState[c].city
    <3>1. PICK base \in [city : 0 .. LastCity, low : 0 .. 2, version : Nat] : base = cityState[c]
      BY <1>1 DEF ProspectTypeOK
    <3>2. low \in 0 .. 2
      OBVIOUS
    <3>3. state = [base EXCEPT !.low = low, !.version = n]
      BY <2>3, <3>1
    <3>4. state \in [city : 0 .. LastCity, low : 0 .. 2, version : Nat] /\ state.city = base.city
      BY <3>2, <3>3
    <3> QED BY <3>1, <3>4
  <2>5. cityState' = [cityState EXCEPT ![c] = state]
    BY <1>1, <2>1, <2>2, <2>3 DEF ProspectTypeOK
  <2>6. \A d \in ProspectCampaigns : CityOf(d)' = CityOf(d)
    BY <1>1, <2>4, <2>5 DEF CityOf, ProspectTypeOK
  <2>7. ProspectTypeOK'
    BY <1>1, <2>1, <2>4, <2>5 DEF ProspectTypeOK
  <2> QED BY <1>1, <1>2, <2>1, <2>6, <2>7, MovesStay DEF ProspectInv, RecordedOnce
<1>4. ASSUME NEW run \in DOMAIN cityRuns, AdvanceProspectingCityState(c, run) PROVE ProspectInv'
  <2>1. PICK version \in Nat : version = cityState[c].version /\ MovedOn(c, version, run, "MANUAL")
    BY <1>1, <1>4 DEF AdvanceProspectingCityState
  <2>2. \A t \in cityTransitions : TransitionTells(t)'
    BY <1>1 DEF ProspectInv, MovesTell, TransitionTells, EarnedBy
  <2>3. \A t : t.campaign = c /\ t.from = CityOf(c) /\ t.run = run /\ t.reason = "MANUAL" /\ t.to = CityOf(c) + 1
                 => TransitionTells(t)'
    BY <1>1 DEF TransitionTells, EARNED
  <2>4. run \in Nat
    BY <1>1 DEF ProspectTypeOK
  <2>5. /\ MovesTell'
        /\ cityState' \in [ProspectCampaigns -> [city : 0 .. LastCity, low : 0 .. 2, version : Nat]]
        /\ cityTransitions' \subseteq
             [campaign : ProspectCampaigns, from : Places, to : Places, reason : {EARNED, "MANUAL"}, run : Nat]
    BY <1>1, <2>1, <2>2, <2>3, <2>4, MoveKeeps
  <2> QED BY <1>1, <1>2, <2>5 DEF ProspectInv, ProspectTypeOK, RecordedOnce
<1> QED BY <1>3, <1>4

\* A run is recorded in the city its campaign is in; it moves the campaign on exactly if
\* it and the run before it there saturate.
LEMMA RecordKeeps ==
  ASSUME ProspectInv, NEW k \in ProspectCallers, cityCalls[k].step = "LOCK", Recorded(cityCalls[k].fp) = {},
         CityOf(cityCalls[k].campaign) = cityCalls[k].city, NEW m \in ProspectMetrics, Records(k, m)
  PROVE  ProspectInv'
<1>1. ProspectTypeOK /\ CallTells(cityCalls[k])
  BY DEF ProspectInv
<1>2. PICK fp \in ProspectFingerprints, c \in ProspectCampaigns, city \in Places :
        fp = cityCalls[k].fp /\ c = cityCalls[k].campaign /\ city = cityCalls[k].city
  BY <1>1 DEF CallTells
<1>3. CityOf(c) = city /\ Recorded(fp) = {}
  BY <1>2
<1>4. PICK r \in [fp : ProspectFingerprints, campaign : ProspectCampaigns, city : Places, metrics : ProspectMetrics] :
        r = [fp |-> fp, campaign |-> c, city |-> city, metrics |-> m]
  OBVIOUS
<1>5. r.fp = fp /\ r.campaign = c /\ r.city = city /\ r.metrics = m
  BY <1>4
<1>6. cityRuns' = Append(cityRuns, r) /\ Answers(k, "RECORDED")
  BY <1>2, <1>4 DEF Records
<1>7. PICK n \in Nat : n = Len(cityRuns)
  BY <1>1 DEF ProspectTypeOK
<1>8. /\ cityRuns' \in Seq([fp : ProspectFingerprints, campaign : ProspectCampaigns, city : Places,
                            metrics : ProspectMetrics])
      /\ Len(cityRuns') = n + 1 /\ DOMAIN cityRuns = 1 .. n /\ DOMAIN cityRuns' = 1 .. n + 1
      /\ cityRuns'[n + 1] = r /\ \A i \in 1 .. n : cityRuns'[i] = cityRuns[i]
  BY <1>6, <1>7, RunAppended
<1>8a. /\ cityCalls' \in [ProspectCallers ->
            [step : {"NONE", "READ", "LOCK", "DONE"}, fp : ProspectFingerprints \cup {"NONE"},
             campaign : ProspectCampaigns \cup {"NONE"}, city : 0 .. LastCity,
             answer : {"NONE", "REPLAYED", "SCOPE_MISMATCH", "CITY_MISMATCH", "RECORDED"}, at : Nat]]
       /\ cityCalls'[k].step = "DONE" /\ cityCalls'[k].answer = "RECORDED"
       /\ \A q \in ProspectCallers \ {k} : cityCalls'[q] = cityCalls[q]
  <2>1. Len(cityRuns') \in Nat /\ "RECORDED" \in {"REPLAYED", "SCOPE_MISMATCH", "CITY_MISMATCH", "RECORDED"}
    BY <1>8
  <2> QED BY <1>6, <2>1, AnswerTypes
<1>9. \A q \in ProspectCallers : CallTells(cityCalls[q])'
  <2>1. \A q \in ProspectCallers \ {k} : CallTells(cityCalls[q])'
    <3> TAKE q \in ProspectCallers \ {k}
    <3>1. CallTells(cityCalls[q]) /\ cityCalls'[q] = cityCalls[q]
      BY <1>8a DEF ProspectInv
    <3>2. cityCalls[q].at \in Nat
      BY <1>1 DEF ProspectTypeOK
    <3> QED BY <1>7, <1>8, <3>1, <3>2 DEF CallTells
  <2>2. CallTells(cityCalls[k])'
    BY <1>8a DEF CallTells
  <2> QED BY <2>1, <2>2
<1>10. RecordedOnce'
  <2>1. \A i \in 1 .. n : cityRuns[i].fp # fp
    BY <1>3, <1>8 DEF Recorded
  <2> QED BY <1>5, <1>8, <2>1 DEF ProspectInv, RecordedOnce
<1>11. \A t \in cityTransitions : TransitionTells(t)'
  <2> TAKE t \in cityTransitions
  <2>1. TransitionTells(t) /\ t.run \in 1 .. n /\ t.campaign \in ProspectCampaigns /\ t.from \in Places
    BY <1>1, <1>8 DEF ProspectInv, MovesTell, TransitionTells, ProspectTypeOK
  <2>2. CASE t.reason # EARNED
    BY <1>8, <2>1, <2>2 DEF TransitionTells
  <2>3. CASE t.reason = EARNED
    <3>1. EarnedBy(t)'
      BY <1>8, <2>1, <2>3, EarnedStays DEF TransitionTells
    <3>2. t.campaign = c => city > t.from
      <4>1. Left(t.campaign, t.from)
        BY DEF Left
      <4> QED BY <1>1, <1>3, <2>1, <4>1 DEF ProspectInv, MovesTell
    <3> QED BY <1>5, <1>8, <2>1, <2>3, <3>1, <3>2 DEF TransitionTells
  <2> QED BY <2>2, <2>3
<1>12. PICK version \in Nat : version = IF cityState[c].city = 0 THEN 1 ELSE cityState[c].version
  BY <1>1 DEF ProspectTypeOK
<1>13. PICK here : here = RunsOf(cityRuns', c, city)
  OBVIOUS
<1>14. /\ here = {i \in 1 .. n + 1 : cityRuns'[i].campaign = c /\ cityRuns'[i].city = city}
       /\ n + 1 \in here /\ Max(here) = n + 1
  <2>1. here = {i \in 1 .. n + 1 : cityRuns'[i].campaign = c /\ cityRuns'[i].city = city}
    BY <1>8, <1>13 DEF RunsOf
  <2>2. n + 1 \in here
    BY <1>5, <1>8, <2>1
  <2>3. Max(here) \in here /\ \A i \in here : i <= Max(here)
    <3>1. n + 1 \in Nat /\ here \in SUBSET (1 .. n + 1) /\ here # {}
      BY <2>1, <2>2
    <3> QED BY <3>1, LastPosition
  <2> QED BY <2>1, <2>2, <2>3
<1>15. CASE Advances(cityRuns', here, city)
  <2>1. MovedOn(c, version, n + 1, EARNED)
    BY <1>2, <1>8, <1>12, <1>13, <1>15 DEF Records
  <2>2. ASSUME NEW t, t.campaign = c, t.from = city, t.run = n + 1, t.reason = EARNED, t.to = city + 1
        PROVE  TransitionTells(t)'
    <3>1. here \ {t.run} # {} /\ Saturates(cityRuns'[n + 1].metrics) /\ Saturates(cityRuns'[Max(here \ {t.run})].metrics)
      BY <1>14, <1>15, <2>2 DEF Advances, Before
    <3>2. EarnedBy(t)'
      BY <1>14, <2>2, <3>1 DEF EarnedBy
    <3> QED BY <1>8, <2>2, <3>2 DEF TransitionTells
  <2>3. /\ MovesTell'
        /\ cityState' \in [ProspectCampaigns -> [city : 0 .. LastCity, low : 0 .. 2, version : Nat]]
        /\ cityTransitions' \subseteq
             [campaign : ProspectCampaigns, from : Places, to : Places, reason : {EARNED, "MANUAL"}, run : Nat]
    <3>3. \A t : t.campaign = c /\ t.from = CityOf(c) /\ t.run = n + 1 /\ t.reason = EARNED /\ t.to = CityOf(c) + 1
                   => TransitionTells(t)'
      BY <1>3, <2>2
    <3>4. n + 1 \in Nat /\ EARNED \in {EARNED, "MANUAL"}
      OBVIOUS
    <3>5. PICK run \in Nat, reason \in {EARNED, "MANUAL"} : run = n + 1 /\ reason = EARNED
      BY <3>4
    <3>6. MovedOn(c, version, run, reason)
      BY <2>1, <3>5
    <3>7. \A t : t.campaign = c /\ t.from = CityOf(c) /\ t.run = run /\ t.reason = reason /\ t.to = CityOf(c) + 1
                   => TransitionTells(t)'
      BY <3>3, <3>5
    <3> QED BY <1>11, <3>6, <3>7, MoveKeeps
  <2>4. ProspectTypeOK'
    BY <1>8, <1>8a, <2>3 DEF ProspectTypeOK
  <2> QED BY <1>9, <1>10, <2>3, <2>4 DEF ProspectInv
<1>16. CASE ~Advances(cityRuns', here, city)
  <2>1. PICK low : low = ConsecutiveLowYield(cityRuns', here, city)
    OBVIOUS
  <2>2. low \in 0 .. 2
    BY <2>1 DEF ConsecutiveLowYield
  <2>3. PICK state : state = [city |-> city, version |-> version + 1, low |-> low]
    OBVIOUS
  <2>4. state \in [city : 0 .. LastCity, low : 0 .. 2, version : Nat] /\ state.city = city
    BY <2>2, <2>3, ProspectAssumption DEF Places
  <2>5. cityState' = [cityState EXCEPT ![c] = state] /\ UNCHANGED cityTransitions
    BY <1>2, <1>3, <1>12, <1>13, <1>16, <2>1, <2>3 DEF Records
  <2>6. cityState' \in [ProspectCampaigns -> [city : 0 .. LastCity, low : 0 .. 2, version : Nat]]
    BY <1>1, <2>4, <2>5 DEF ProspectTypeOK
  <2>7. \A d \in ProspectCampaigns : CityOf(d)' = CityOf(d)
    BY <1>1, <1>3, <2>4, <2>5, ProspectAssumption DEF CityOf, ProspectTypeOK, Places
  <2>8. MovesTell'
    <3>1. \A d, place : Left(d, place)' <=> Left(d, place)
      BY <2>5 DEF Left
    <3>2. \A d \in ProspectCampaigns, place \in Places : (place < CityOf(d))' <=> Left(d, place)'
      BY <2>7, <3>1 DEF ProspectInv, MovesTell
    <3>3. \A t, u \in cityTransitions' : t.campaign = u.campaign /\ t.from = u.from => t = u
      BY <2>5 DEF ProspectInv, MovesTell
    <3> QED BY <1>11, <2>5, <3>2, <3>3 DEF MovesTell
  <2>9. ProspectTypeOK'
    BY <1>1, <1>8, <1>8a, <2>5, <2>6 DEF ProspectTypeOK
  <2> QED BY <1>9, <1>10, <2>8, <2>9 DEF ProspectInv
<1> QED BY <1>15, <1>16

\* ProspectInv is inductive.
LEMMA ProspectInvariant == ProspectSpec => []ProspectInv
<1>1. ProspectInit => ProspectInv
  <2> SUFFICES ASSUME ProspectInit PROVE ProspectInv
    OBVIOUS
  <2>1. \A c \in ProspectCampaigns : CityOf(c) = 1
    BY DEF ProspectInit, CityOf
  <2>2. ProspectTypeOK
    BY ProspectAssumption DEF ProspectInit, ProspectTypeOK, NoCall
  <2>3. \A k \in ProspectCallers : CallTells(cityCalls[k])
    BY DEF ProspectInit, NoCall, CallTells
  <2>4. MovesTell
    BY <2>1, ProspectAssumption DEF ProspectInit, MovesTell, Left, Places
  <2> QED BY <2>2, <2>3, <2>4 DEF ProspectInit, ProspectInv, RecordedOnce
<1>2. ProspectInv /\ [ProspectNext]_prospectVars => ProspectInv'
  <2> SUFFICES ASSUME ProspectInv, [ProspectNext]_prospectVars PROVE ProspectInv'
    OBVIOUS
  <2>1. ASSUME NEW k \in ProspectCallers, AnswersRecorded(k) PROVE ProspectInv'
    BY <2>1, RefusalKeeps DEF AnswersRecorded
  <2>2. ASSUME NEW k \in ProspectCallers, ReadsFingerprint(k) PROVE ProspectInv'
    BY <2>1, <2>2, ReadKeeps DEF ReadsFingerprint
  <2>3. ASSUME NEW k \in ProspectCallers, RecordsUnderLock(k) PROVE ProspectInv'
    BY <2>1, <2>3, RefusalKeeps, RecordKeeps DEF RecordsUnderLock, Refuses
  <2>4. CASE UNCHANGED prospectVars
    <3>1. UNCHANGED <<cityRuns, cityState, cityTransitions, cityCalls>>
      BY <2>4 DEF prospectVars
    <3>2. MovesTell'
      BY <3>1, MovesStay DEF CityOf
    <3> QED BY <3>1, <3>2 DEF ProspectInv, ProspectTypeOK, CallTells, RecordedOnce
  <2> QED BY <2>2, <2>3, <2>4, AskKeeps, StateKeeps DEF ProspectNext, Places
<1> QED BY <1>1, <1>2, PTL DEF ProspectSpec

------------------------------------------------------------------------------
(* Theorem.                                                                *)

\* A campaign moves one city on at a time and automatically only when it was earned, no
\* execution is recorded twice, and a repeated call is not refused for the city its run
\* moved the campaign from (CampaignMovesWhenEarned).
THEOREM CampaignsMoveWhenEarned == ProspectSpec => []CampaignMovesWhenEarned
<1>1. ProspectInv => CampaignMovesWhenEarned
  <2> SUFFICES ASSUME ProspectInv PROVE CampaignMovesWhenEarned
    OBVIOUS
  <2>1. ProspectTypeOK /\ MovesTell /\ RecordedOnce
    BY DEF ProspectInv
  <2>2. ASSUME NEW c \in ProspectCampaigns, NEW city \in 1 .. LastCity,
               NEW left, left = {t \in cityTransitions : t.campaign = c /\ t.from = city}
        PROVE  /\ CityComplete(c, city) <=> left # {}
               /\ \A t \in left :
                    /\ left = {t} /\ t.to = city + 1
                    /\ t.reason = EARNED => EarnedBy(t) /\ ~\E i \in DOMAIN cityRuns :
                         i > t.run /\ cityRuns[i].campaign = c /\ cityRuns[i].city <= city
    <3>1. CityComplete(c, city) <=> left # {}
      BY <2>1, <2>2 DEF MovesTell, CityComplete, Left, Places
    <3>2. ASSUME NEW t \in left PROVE left = {t} /\ t.to = city + 1
      BY <2>1, <2>2 DEF MovesTell, TransitionTells
    <3>3. ASSUME NEW t \in left, t.reason = EARNED, NEW i \in DOMAIN cityRuns, i > t.run,
                 cityRuns[i].campaign = c, cityRuns[i].city <= city
          PROVE  FALSE
      <4>1. t \in cityTransitions /\ t.from = city /\ t.campaign = c
        BY <2>2
      <4>2. cityRuns[i].city > city
        BY <2>1, <3>3, <4>1 DEF MovesTell, TransitionTells
      <4>3. cityRuns[i].city \in Int /\ city \in Int
        <5> DEFINE Runs == [fp : ProspectFingerprints, campaign : ProspectCampaigns, city : Places,
                            metrics : ProspectMetrics]
        <5>1. cityRuns[i] \in Runs
          <6>1. cityRuns \in Seq(Runs)
            BY <2>1 DEF ProspectTypeOK
          <6> HIDE DEF Runs
          <6> QED BY <3>3, <6>1
        <5>2. cityRuns[i].city \in Places
          BY <5>1
        <5> QED BY <5>2 DEF Places
      <4> QED BY <3>3, <4>2, <4>3
    <3>4. ASSUME NEW t \in left, t.reason = EARNED PROVE EarnedBy(t)
      BY <2>1, <2>2, <3>4 DEF MovesTell, TransitionTells
    <3> QED BY <3>1, <3>2, <3>3, <3>4
  <2>3. ASSUME NEW fp \in ProspectFingerprints PROVE Cardinality(Recorded(fp)) <= 1
    <3>1. Recorded(fp) = {} \/ \E i : Recorded(fp) = {i}
      <4>1. \A i, j \in Recorded(fp) : i = j
        BY <2>1 DEF RecordedOnce, Recorded
      <4> QED BY <4>1
    <3>2. Cardinality(Recorded(fp)) \in {0, 1}
      BY <3>1, FS_EmptySet, FS_Singleton
    <3> QED BY <3>2
  <2>4. ASSUME NEW k \in ProspectCallers, cityCalls[k].answer = "CITY_MISMATCH"
        PROVE  ~\E i \in 1 .. cityCalls[k].at : cityRuns[i].fp = cityCalls[k].fp /\ InScope(cityCalls[k], i)
    BY <2>4 DEF ProspectInv, CallTells
  <2> QED BY <2>2, <2>3, <2>4 DEF CampaignMovesWhenEarned
<1> QED BY <1>1, ProspectInvariant, PTL

(***************************************************************************)
(* The evaluation of a lead: any signals, any evidence, and a resolver     *)
(* that answers, fails or is late.                                         *)
(***************************************************************************)
SignalValues == [ToSet(EmailSignals) -> {"YES", "NO", "UNKNOWN"}]

Verified(input, answered) ==
  /\ answered /\ input.syntax = "VALID" /\ input.provenance = "CONFIRMED"
  /\ \A s \in ToSet(EmailSignals) : input.suppression[s] = "NO"

\* An e-mail that was classified is BLOCKED exactly for a suppressed address, and VALID
\* only if a resolver answered and everything is known.
ClassifiedAsItIs ==
  check.input # NoInput /\ check.step # "EMAIL" =>
    /\ check.result # NoResult
    /\ check.result.state = "BLOCKED" <=> "YES" \in Range(check.input.suppression)
    /\ check.result.state = "VALID" => Verified(check.input, check.answered)

EligibleForItsResult ==
  check.eligible =>
    /\ LeadQualityScore(check.evidence) >= 80 /\ check.requested = {}
    /\ check.result # NoResult =>
         /\ check.result.state = "VALID" /\ check.result.blockedBy = {}
         /\ check.result.domainExists = "YES" /\ check.result.mx = "PRESENT"

QualityInv ==
  /\ check.input # NoInput => check.input.syntax \in Syntaxes /\ check.input.suppression \in SignalValues
  /\ check.step = "EMAIL" => check.input # NoInput
  /\ check.result # NoResult => check.result.state \in States
  /\ check.step # "DONE" => ~check.eligible
  /\ check.step \in {"EMAIL", "LEAD", "DONE"}
  /\ DOMAIN check = {"step", "result", "answered", "resolver", "eligible", "input", "evidence", "requested"}
  /\ ClassifiedAsItIs /\ EligibleForItsResult

\* Where there is no blocking signal, the state is that of the first rule that applies;
\* the last rule always applies, and VALID is its state only.
LEMMA RulesDecide ==
  ASSUME NEW input, NEW dns, NEW issue,
         NEW i, i = CHOOSE k \in DOMAIN Rules(input, dns, issue) :
                      /\ Rules(input, dns, issue)[k].if
                      /\ \A j \in 1 .. k - 1 : ~Rules(input, dns, issue)[j].if
  PROVE  LET rule == Rules(input, dns, issue)[i]
         IN /\ rule.state \in States \ {"BLOCKED"}
            /\ rule.state = "VALID" =>
                 /\ input.syntax \notin {"INVALID_INPUT", "INVALID_SYNTAX"} /\ issue = "NONE"
                 /\ SuppressionKnown(input.suppression) /\ input.provenance = "CONFIRMED"
<1> DEFINE R == Rules(input, dns, issue)
           First(k) == R[k].if /\ \A j \in 1 .. k - 1 : ~R[j].if
<1>1. /\ DOMAIN R = 1 .. 10 /\ R[10].if /\ R[10].state = "VALID"
      /\ \A k \in 1 .. 9 : R[k].state \in {"UNCERTAIN", "INVALID"}
      /\ R[1].if <=> input.syntax = "INVALID_INPUT"
      /\ R[2].if <=> input.syntax = "INVALID_SYNTAX"
      /\ R[5].if <=> issue # "NONE"
      /\ R[8].if <=> ~SuppressionKnown(input.suppression)
      /\ R[9].if <=> input.provenance # "CONFIRMED"
  <2>1. DOMAIN R = 1 .. 10 BY DEF Rules
  <2>2. R[1].if <=> input.syntax = "INVALID_INPUT" BY DEF Rules
  <2>3. R[2].if <=> input.syntax = "INVALID_SYNTAX" BY DEF Rules
  <2>4. R[5].if <=> issue # "NONE" BY DEF Rules
  <2>5. R[8].if <=> ~SuppressionKnown(input.suppression) BY DEF Rules
  <2>6. R[9].if <=> input.provenance # "CONFIRMED" BY DEF Rules
  <2>7. R[10].if /\ R[10].state = "VALID" BY DEF Rules
  <2>8. /\ R[1].state = "UNCERTAIN" /\ R[2].state = "INVALID" /\ R[3].state = "INVALID" /\ R[4].state = "INVALID"
        /\ R[5].state = "UNCERTAIN" /\ R[6].state = "UNCERTAIN" /\ R[7].state = "UNCERTAIN"
        /\ R[8].state = "UNCERTAIN" /\ R[9].state = "UNCERTAIN"
    BY DEF Rules
  <2> HIDE DEF R
  <2>9. \A k \in 1 .. 9 : R[k].state \in {"UNCERTAIN", "INVALID"}
    BY <2>8
  <2> QED BY <2>1, <2>2, <2>3, <2>4, <2>5, <2>6, <2>7, <2>9
<1> HIDE DEF R
<1>2. \E k \in 1 .. 10 : First(k)
  <2>1. \/ First(1) \/ First(2) \/ First(3) \/ First(4) \/ First(5)
        \/ First(6) \/ First(7) \/ First(8) \/ First(9) \/ First(10)
    <3>1. /\ 1 .. 1 - 1 = {} /\ 1 .. 2 - 1 = {1} /\ 1 .. 3 - 1 = {1, 2} /\ 1 .. 4 - 1 = {1, 2, 3}
          /\ 1 .. 5 - 1 = {1, 2, 3, 4} /\ 1 .. 6 - 1 = {1, 2, 3, 4, 5} /\ 1 .. 7 - 1 = {1, 2, 3, 4, 5, 6}
          /\ 1 .. 8 - 1 = {1, 2, 3, 4, 5, 6, 7} /\ 1 .. 9 - 1 = {1, 2, 3, 4, 5, 6, 7, 8}
          /\ 1 .. 10 - 1 = {1, 2, 3, 4, 5, 6, 7, 8, 9}
      OBVIOUS
    <3> QED BY <1>1, <3>1, Zenon
  <2> QED BY <2>1
<1>3. i \in 1 .. 10 /\ First(i)
  BY <1>1, <1>2 DEF R
<1> HIDE DEF First
<1>4. i \in 1 .. 9 \/ i = 10
  <2>1. i \in 1 .. 10 BY <1>3
  <2>2. \A n \in 1 .. 10 : n \in 1 .. 9 \/ n = 10 OBVIOUS
  <2> QED BY <2>1, <2>2
<1>5. R[10].state = "VALID" /\ \A k \in 1 .. 9 : R[k].state \in {"UNCERTAIN", "INVALID"}
  BY <1>1
<1>6. R[i].state \in States \ {"BLOCKED"}
  BY <1>4, <1>5, Zenon DEF States
<1>7. ASSUME R[i].state = "VALID"
      PROVE  /\ input.syntax \notin {"INVALID_INPUT", "INVALID_SYNTAX"} /\ issue = "NONE"
             /\ SuppressionKnown(input.suppression) /\ input.provenance = "CONFIRMED"
  <2>1. i = 10
    BY <1>4, <1>5, <1>7
  <2>2. ~R[1].if /\ ~R[2].if /\ ~R[5].if /\ ~R[8].if /\ ~R[9].if
    BY <1>3, <2>1 DEF First
  <2> QED BY <1>1, <2>2
<1> QED BY <1>6, <1>7 DEF R

\* What classifyTechnicalEmail decides.
LEMMA Classification ==
  ASSUME NEW input, input.syntax \in Syntaxes, input.suppression \in SignalValues, NEW dns, NEW issue
  PROVE  LET r == ClassifyTechnicalEmail(input, dns, issue)
         IN /\ r # NoResult /\ r.state \in States
            /\ r.state = "BLOCKED" <=> "YES" \in Range(input.suppression)
            /\ r.state = "VALID" => issue = "NONE" /\ Verified(input, TRUE)
<1> DEFINE r == ClassifyTechnicalEmail(input, dns, issue)
           blocked == BlockedBy(input.suppression)
           R == Rules(input, dns, issue)
           i == CHOOSE k \in DOMAIN R : R[k].if /\ \A j \in 1 .. k - 1 : ~R[j].if
<1>1. blocked # {} <=> "YES" \in Range(input.suppression)
  BY DEF BlockedBy, Range, SignalValues
<1>2. r.state = IF blocked # {} THEN "BLOCKED" ELSE R[i].state
  BY DEF ClassifyTechnicalEmail
<1>3. /\ R[i].state \in States \ {"BLOCKED"}
      /\ R[i].state = "VALID" => Verified(input, TRUE) /\ issue = "NONE"
  <2>1. /\ R[i].state \in States \ {"BLOCKED"}
        /\ R[i].state = "VALID" =>
             /\ input.syntax \notin {"INVALID_INPUT", "INVALID_SYNTAX"} /\ issue = "NONE"
             /\ SuppressionKnown(input.suppression) /\ input.provenance = "CONFIRMED"
    BY RulesDecide, Zenon
  <2> QED BY <2>1, Zenon DEF Verified, Syntaxes, SuppressionKnown
<1>4. r # NoResult
  BY DEF ClassifyTechnicalEmail, NoResult
<1> HIDE DEF r, blocked, R, i
<1>5. r.state \in States
  BY <1>2, <1>3 DEF States
<1>6. r.state = "BLOCKED" <=> "YES" \in Range(input.suppression)
  BY <1>1, <1>2, <1>3
<1>7. r.state = "VALID" => issue = "NONE" /\ Verified(input, TRUE)
  BY <1>2, <1>3
<1> QED BY <1>4, <1>5, <1>6, <1>7 DEF r

\* What evaluateLeadQualification lets through.
LEMMA Eligibility ==
  ASSUME NEW facts, NEW requested \in Requested, NEW r, r # NoResult => r.state \in States,
         LeadEligible(facts, requested, r)
  PROVE  /\ LeadQualityScore(facts) >= 80 /\ requested = {}
         /\ r # NoResult => /\ r.state = "VALID" /\ r.blockedBy = {}
                            /\ r.domainExists = "YES" /\ r.mx = "PRESENT"
<1>1. /\ LeadQualityScore(facts) >= 80 /\ EmailBlocks(r) = {}
      /\ requested \cap {"DUPLICATE_FOUND"} = {} /\ "NOT_A_REASON" \notin requested
  BY DEF LeadEligible, BlockingReasons
<1>2. requested = {}
  BY <1>1 DEF Requested
<1>3. ASSUME r # NoResult
      PROVE  r.state = "VALID" /\ r.blockedBy = {} /\ r.domainExists = "YES" /\ r.mx = "PRESENT"
  <2>1. Consistent(r)
    <3>1. CASE ~Consistent(r)
      <4>1. EmailBlocks(r) = {"AMBIGUOUS_RESULT"}
        BY <1>3, <3>1, Zenon DEF EmailBlocks
      <4> QED BY <1>1, <4>1
    <3> QED BY <3>1
  <2>2. r.state = "BLOCKED" => r.blockedBy # {}
    BY <2>1 DEF Consistent
  <2>3. EmailBlocks(r) = CASE r.state = "BLOCKED"   -> r.blockedBy
                           [] r.state = "VALID"     -> {}
                           [] r.state = "INVALID"   -> {"BUSINESS_EMAIL_NOT_CONFIRMED"}
                           [] r.state = "UNCERTAIN" -> {"AMBIGUOUS_RESULT"}
    BY <1>3, <2>1 DEF EmailBlocks
  <2>4. r.state = "VALID"
    BY <1>1, <1>3, <2>2, <2>3 DEF States
  <2> QED BY <2>1, <2>4 DEF Consistent
<1> QED BY <1>1, <1>2, <1>3

LEMMA QualityStarts == QualityInit => QualityInv
<1> SUFFICES ASSUME QualityInit PROVE QualityInv
  OBVIOUS
<1>1. CASE \E syntax \in Syntaxes, prov \in Provenances, supp \in SignalValues,
              given \in Resolutions \cup {MalformedResolution}, resolver \in {"NONE", "BAD_TIMEOUT", "USED"} :
             check = [step |-> "EMAIL", result |-> NoResult, answered |-> FALSE, resolver |-> resolver, eligible |-> FALSE,
                      input |-> [syntax |-> syntax, provenance |-> prov, suppression |-> supp, given |-> given],
                      evidence |-> {}, requested |-> {}]
  BY <1>1 DEF QualityInv, ClassifiedAsItIs, EligibleForItsResult, NoInput, Syntaxes
<1>2. ASSUME NEW r \in {NoResult} \cup [state : States, reason : Reasons, blockedBy : SUBSET ToSet(EmailSignals), domain : BOOLEAN,
                                        syntax : {"VALID", "INVALID"}, domainExists : {"YES", "UNKNOWN"},
                                        mx : {"PRESENT", "UNKNOWN"}, provenance : {"CONFIRMED", "UNKNOWN"}],
             check = [step |-> "LEAD", result |-> r, answered |-> FALSE, resolver |-> "NONE", eligible |-> FALSE,
                      input |-> NoInput, evidence |-> {}, requested |-> {}]
      PROVE  QualityInv
  BY <1>2 DEF QualityInv, ClassifiedAsItIs, EligibleForItsResult
<1> QED BY <1>1, <1>2 DEF QualityInit, SignalValues

\* The classification of an e-mail, whoever asked for it.
LEMMA ClassifiedKeeps ==
  ASSUME QualityInv, check.step = "EMAIL", NEW dns, NEW issue, NEW answered,
         Classified(dns, issue, answered),
         check.input.syntax = "VALID" /\ issue = "NONE" => answered
  PROVE  QualityInv'
<1> DEFINE r == ClassifyTechnicalEmail(check.input, dns, issue)
<1>1. check.input # NoInput /\ check.input.syntax \in Syntaxes /\ check.input.suppression \in SignalValues
  BY DEF QualityInv
<1>2. /\ r # NoResult /\ r.state \in States
      /\ r.state = "BLOCKED" <=> "YES" \in Range(check.input.suppression)
      /\ r.state = "VALID" => issue = "NONE" /\ Verified(check.input, TRUE)
  BY <1>1, Classification
<1> HIDE DEF r
<1>3. /\ check'.step = "LEAD" /\ check'.answered = answered /\ check'.result = r
      /\ check'.input = check.input /\ check'.eligible = check.eligible /\ DOMAIN check' = DOMAIN check
  BY DEF Classified, QualityInv, r
<1>4. ~check.eligible
  BY DEF QualityInv
<1>5. r.state = "VALID" => Verified(check.input, answered)
  BY <1>2 DEF Verified
<1>6. ClassifiedAsItIs'
  BY <1>2, <1>3, <1>5 DEF ClassifiedAsItIs
<1>7. EligibleForItsResult'
  BY <1>3, <1>4 DEF EligibleForItsResult
<1> QED BY <1>1, <1>2, <1>3, <1>4, <1>6, <1>7 DEF QualityInv

LEMMA EvaluatedKeeps ==
  ASSUME QualityInv, NEW facts \in Evidences, NEW requested \in Requested, EvaluateLead(facts, requested)
  PROVE  QualityInv'
<1>1. /\ check'.step = "DONE" /\ check'.evidence = facts /\ check'.requested = requested
      /\ check'.eligible = LeadEligible(facts, requested, check.result)
      /\ check'.input = check.input /\ check'.result = check.result /\ check'.answered = check.answered
      /\ DOMAIN check' = DOMAIN check
  BY DEF EvaluateLead, QualityInv
<1>2. ClassifiedAsItIs'
  BY <1>1 DEF QualityInv, ClassifiedAsItIs, EvaluateLead
<1>3. EligibleForItsResult'
  <2> SUFFICES ASSUME check'.eligible PROVE EligibleForItsResult'
    BY DEF EligibleForItsResult
  <2>1. LeadEligible(facts, requested, check.result) /\ (check.result # NoResult => check.result.state \in States)
    BY <1>1 DEF QualityInv
  <2>2. /\ LeadQualityScore(facts) >= 80 /\ requested = {}
        /\ check.result # NoResult =>
             /\ check.result.state = "VALID" /\ check.result.blockedBy = {}
             /\ check.result.domainExists = "YES" /\ check.result.mx = "PRESENT"
    BY <2>1, Eligibility
  <2> QED BY <1>1, <2>2 DEF EligibleForItsResult
<1> QED BY <1>1, <1>2, <1>3 DEF QualityInv

LEMMA QualityStep == QualityInv /\ [QualityNext]_check => QualityInv'
<1> SUFFICES ASSUME QualityInv, [QualityNext]_check PROVE QualityInv'
  OBVIOUS
<1>1. CASE EvaluateWithoutResolver
  BY <1>1, ClassifiedKeeps DEF EvaluateWithoutResolver
<1>2. CASE ResolverFails
  BY <1>2, ClassifiedKeeps DEF ResolverFails, Resolving
<1>3. CASE TimerFires
  BY <1>3, ClassifiedKeeps DEF TimerFires, Resolving
<1>4. ASSUME NEW dns \in Resolutions \cup {MalformedResolution}, ResolverAnswers(dns) PROVE QualityInv'
  BY <1>4, ClassifiedKeeps DEF ResolverAnswers, Resolving
<1>5. ASSUME NEW facts \in Evidences, NEW requested \in Requested, EvaluateLead(facts, requested) PROVE QualityInv'
  BY <1>5, EvaluatedKeeps
<1>6. CASE UNCHANGED check
  BY <1>6 DEF QualityInv, ClassifiedAsItIs, EligibleForItsResult
<1> QED BY <1>1, <1>2, <1>3, <1>4, <1>5, <1>6 DEF QualityNext

LEMMA QualityIsVerified == QualityInv => EligibleLeadIsVerified
<1> SUFFICES ASSUME QualityInv PROVE EligibleLeadIsVerified
  OBVIOUS
<1>1. check.input # NoInput /\ check.step # "EMAIL" =>
        (check.result.state = "BLOCKED" <=> "YES" \in Range(check.input.suppression))
  BY DEF QualityInv, ClassifiedAsItIs
<1>2. ASSUME check.eligible, check.input # NoInput
      PROVE  Verified(check.input, check.answered)
  BY <1>2 DEF QualityInv, ClassifiedAsItIs, EligibleForItsResult
<1>3. check.eligible =>
        /\ LeadQualityScore(check.evidence) >= 80 /\ check.requested = {}
        /\ check.result # NoResult =>
             /\ check.result.state = "VALID" /\ check.result.blockedBy = {}
             /\ check.result.domainExists = "YES" /\ check.result.mx = "PRESENT"
  BY DEF QualityInv, EligibleForItsResult
<1> QED BY <1>1, <1>2, <1>3 DEF EligibleLeadIsVerified, Verified

\* Whatever the resolver does and whatever a result from elsewhere claims, only a lead
\* with the points, no blocking reason and a verified e-mail is eligible.
THEOREM EligibleLeadsAreVerified == QualitySpec => []EligibleLeadIsVerified
BY QualityIsVerified, QualityStarts, QualityStep, PTL DEF QualitySpec

(***************************************************************************)
(* CommunicationLab: any sequence of niches. Three recommendations are     *)
(* always there, and they are the best there are.                          *)
(***************************************************************************)
\* A finite set of evaluations whose variants differ in their index, which is what makes
\* the ranking strict.
Ranked(S) ==
  /\ IsFiniteSet(S) /\ \A e \in S : e.score \in Int /\ e.variant.index \in Int
  /\ \A e, f \in S : e.variant.index = f.variant.index => e = f

\* The ranking is a strict total order.
LEMMA RankingIsTotal ==
  ASSUME NEW S, Ranked(S)
  PROVE  /\ \A e \in S : ~Outranks(e, e)
         /\ \A e, f \in S : e = f \/ Outranks(e, f) \/ Outranks(f, e)
         /\ \A e, f \in S : ~(Outranks(e, f) /\ Outranks(f, e))
         /\ \A e, f, g \in S : Outranks(e, f) /\ Outranks(f, g) => Outranks(e, g)
<1>1. \A e, f \in S : e = f \/ e.variant.index # f.variant.index
  BY DEF Ranked
<1>2. \A e \in S : e.score \in Int /\ e.variant.index \in Int
  BY DEF Ranked
<1> QED BY <1>1, <1>2 DEF Outranks

\* Who is outranked has more before it.
LEMMA RankGrows ==
  ASSUME NEW S, Ranked(S), NEW a \in S, NEW b \in S
  PROVE  /\ Rank(a, S) \in Nat
         /\ Outranks(a, b) => Rank(a, S) < Rank(b, S)
<1> DEFINE Ahead(e) == {f \in S : Outranks(f, e)}
<1>1. \A e \in S : IsFiniteSet(Ahead(e)) /\ Cardinality(Ahead(e)) \in Nat
  BY FS_Subset, FS_CardinalityType DEF Ranked
<1>2. ASSUME Outranks(a, b) PROVE Cardinality(Ahead(a)) < Cardinality(Ahead(b))
  <2>1. Ahead(a) \subseteq Ahead(b) /\ a \in Ahead(b) /\ a \notin Ahead(a)
    BY <1>2, RankingIsTotal
  <2>2. Ahead(a) # Ahead(b)
    BY <2>1
  <2>3. Cardinality(Ahead(a)) <= Cardinality(Ahead(b)) /\ Cardinality(Ahead(a)) # Cardinality(Ahead(b))
    <3> HIDE DEF Ahead
    <3> QED BY <1>1, <2>1, <2>2, FS_Subset
  <2> QED BY <1>1, <2>3
<1> QED BY <1>1, <1>2 DEF Rank

\* Of some, one is best.
LEMMA OneIsBest ==
  ASSUME NEW S, Ranked(S), NEW T \in SUBSET S, T # {}
  PROVE  \E e \in T : \A f \in T \ {e} : Outranks(e, f)
<1> DEFINE Ranks == {Rank(e, S) : e \in T}
<1>1. Ranks \subseteq Nat /\ Ranks # {}
  BY RankGrows
<1>2. PICK r \in Ranks : \A q \in Ranks : ~(<<q, r>> \in OpToRel(<, Nat))
  <2> HIDE DEF Ranks
  <2> QED BY <1>1, WFMin, NatLessThanWellFounded
<1>3. \A q \in Ranks : ~(q < r)
  BY <1>1, <1>2 DEF OpToRel
<1>4. PICK e \in T : r = Rank(e, S)
  OBVIOUS
<1>5. \A f \in T \ {e} : Outranks(e, f)
  BY <1>3, <1>4, RankGrows, RankingIsTotal
<1> QED BY <1>5

\* Where there are three or more, the first three are of them, and nothing that is left out
\* comes before any of the three.
LEMMA TopIsBest ==
  ASSUME NEW S, Ranked(S), NEW x \in S, NEW y \in S, NEW z \in S, x # y, x # z, y # z
  PROVE  /\ Top(S, 3) \in Seq(S) /\ Len(Top(S, 3)) = 3 /\ IsInjective(Top(S, 3))
         /\ \A k \in 1 .. 3 : \A e \in S \ ToSet(Top(S, 3)) : Outranks(Top(S, 3)[k], e)
<1> DEFINE Place(k) == CHOOSE e \in S : Rank(e, S) = k - 1
<1>1. Cardinality(S) >= 3
  <2>1. IsFiniteSet({x, y, z}) /\ Cardinality({x, y, z}) = 3
    <3>1. IsFiniteSet({x}) /\ Cardinality({x}) = 1
      BY FS_Singleton
    <3>2. IsFiniteSet({x} \cup {y}) /\ Cardinality({x} \cup {y}) = 2
      BY <3>1, FS_AddElement
    <3>3. IsFiniteSet(({x} \cup {y}) \cup {z}) /\ Cardinality(({x} \cup {y}) \cup {z}) = 3
      BY <3>2, FS_AddElement
    <3>4. ({x} \cup {y}) \cup {z} = {x, y, z}
      OBVIOUS
    <3> QED BY <3>3, <3>4
  <2>2. {x, y, z} \subseteq S
    OBVIOUS
  <2> QED BY <2>1, <2>2, FS_Subset, FS_CardinalityType DEF Ranked
<1>2. \A k \in 1 .. 3 : \E e \in S : Rank(e, S) = k - 1
  <2>1. PICK a \in S : \A f \in S \ {a} : Outranks(a, f)
    BY OneIsBest
  <2>2. PICK b \in S \ {a} : \A f \in (S \ {a}) \ {b} : Outranks(b, f)
    <3>1. S \ {a} \in SUBSET S /\ S \ {a} # {}
      OBVIOUS
    <3> QED BY <3>1, OneIsBest
  <2>3. PICK c \in S \ {a, b} : \A f \in (S \ {a, b}) \ {c} : Outranks(c, f)
    <3> DEFINE T == S \ {a, b}
    <3>1. T \in SUBSET S /\ T # {}
      OBVIOUS
    <3>2. \E e \in T : \A f \in T \ {e} : Outranks(e, f)
      <4> HIDE DEF T
      <4> QED BY <3>1, OneIsBest
    <3> QED BY <3>2
  <2>4. {f \in S : Outranks(f, a)} = {} /\ {f \in S : Outranks(f, b)} = {a} /\ {f \in S : Outranks(f, c)} = {a} \cup {b}
    BY <2>1, <2>2, <2>3, RankingIsTotal
  <2>5. Cardinality({a}) = 1 /\ Cardinality({a} \cup {b}) = 2 /\ Cardinality({}) = 0
    <3>1. IsFiniteSet({a}) /\ Cardinality({a}) = 1 /\ b \notin {a}
      BY <2>2, FS_Singleton
    <3>2. Cardinality({a} \cup {b}) = 2
      BY <3>1, FS_AddElement
    <3> QED BY <3>1, <3>2, FS_EmptySet
  <2>6. Rank(a, S) = 1 - 1 /\ Rank(b, S) = 2 - 1 /\ Rank(c, S) = 3 - 1
    BY <2>4, <2>5 DEF Rank
  <2>7. \A k \in 1 .. 3 : k = 1 \/ k = 2 \/ k = 3
    OBVIOUS
  <2> QED BY <2>6, <2>7
<1>3. \A k \in 1 .. 3 : Place(k) \in S /\ Rank(Place(k), S) = k - 1
  BY <1>2
<1>4. Top(S, 3) = [k \in 1 .. 3 |-> Place(k)]
  <2>1. (IF Cardinality(S) < 3 THEN Cardinality(S) ELSE 3) = 3
    BY <1>1, FS_CardinalityType DEF Ranked
  <2> QED BY <2>1 DEF Top
<1> HIDE DEF Place
<1>5. Top(S, 3) \in Seq(S) /\ Len(Top(S, 3)) = 3 /\ IsInjective(Top(S, 3))
  <2>1. Top(S, 3) \in [1 .. 3 -> S]
    BY <1>3, <1>4
  <2>2. Top(S, 3) \in Seq(S)
    BY <2>1, SeqDef, Zenon, 3 \in Nat
  <2>3. DOMAIN Top(S, 3) = 1 .. 3 /\ DOMAIN Top(S, 3) = 1 .. Len(Top(S, 3)) /\ Len(Top(S, 3)) \in Nat
    BY <2>1, <2>2
  <2>4. \A k, j \in 1 .. 3 : Place(k) = Place(j) => k = j
    BY <1>3
  <2>5. IsInjective(Top(S, 3))
    BY <1>4, <2>3, <2>4 DEF IsInjective
  <2> QED BY <2>2, <2>3, <2>5
<1>6. ASSUME NEW k \in 1 .. 3, NEW e \in S \ ToSet(Top(S, 3)) PROVE Outranks(Top(S, 3)[k], e)
  <2>1. \A j \in 1 .. 3 : Place(j) # e
    BY <1>4, <1>6 DEF ToSet
  <2>2. ASSUME Outranks(e, Place(k)) PROVE FALSE
    <3>1. Rank(e, S) \in Nat /\ Rank(e, S) < k - 1
      BY <1>3, <2>2, RankGrows
    <3>2. PICK j \in 1 .. 3 : j - 1 = Rank(e, S)
      <4>1. Rank(e, S) + 1 \in 1 .. 3 /\ (Rank(e, S) + 1) - 1 = Rank(e, S)
        BY <3>1
      <4> QED BY <4>1
    <3>3. Place(j) \in S /\ Rank(Place(j), S) = Rank(e, S) /\ Place(j) # e
      BY <1>3, <2>1, <3>2
    <3>4. Outranks(Place(j), e) \/ Outranks(e, Place(j))
      BY <3>3, RankingIsTotal
    <3> QED BY <3>1, <3>3, <3>4, RankGrows
  <2>3. Place(k) \in S /\ Place(k) # e
    BY <1>3, <2>1
  <2> QED BY <1>4, <2>2, <2>3, RankingIsTotal
<1> QED BY <1>5, <1>6

------------------------------------------------------------------------------
(* The variants of the two matrices and what their evaluation tells.       *)

NicheSet == {"BEAUTY", "AUTOMOTIVE", "FOOD", "HOME_SERVICES", "LOCAL_RETAIL", "PET", "FITNESS_EDUCATION",
             "CREATIVE_EVENTS", "LOCAL_B2B"}
OpportunitySet == {"NO_SITE", "THIRD_PARTY_ONLY", "WEAK_SITE", "BROKEN_SITE", "WEAK_CONVERSION"}
ChannelSet == {"EMAIL", "CONTACT_FORM", "BUSINESS_DM", "WHATSAPP_OPT_IN"}
OpeningSet == {"PERMISSION_FIRST", "DIAGNOSIS_FIRST", "BENEFIT_FIRST", "CREDIBILITY_FIRST"}

\* The variants of the two matrices: source and authorization are those of the channel.
VariantTells(v) ==
  /\ v.index \in Nat /\ v.niche \in NicheSet /\ v.opportunity \in OpportunitySet /\ v.channel \in ChannelSet
  /\ v.opening \in OpeningSet /\ v.tone \in {"DIRECT", "CONSULTATIVE", "FRIENDLY"}
  /\ v.cta \in {"ASK_PERMISSION", "ASK_BEST_CHANNEL", "ASK_INTEREST"}
  /\ v.personalization \in {"BASIC", "SEGMENT", "DIAGNOSIS"} /\ v.optOut \in {"EXPLICIT", "SHORT", "MISSING"}
  /\ v.linkPolicy \in {"NONE", "OWN_DOMAIN", "THIRD_PARTY"}
  /\ v.authorization = AuthorizationForChannel(v.channel) /\ v.sourceType = SourceForChannel[v.channel]

LEMMA CellTells ==
  ASSUME NEW i \in Nat
  PROVE  NicheAt(i) \in NicheSet /\ OpportunityAt(i) \in OpportunitySet
<1>1. Len(LabNiches) \in Nat \ {0} /\ LabNiches \in Seq(NicheSet)
  <2>1. DOMAIN NicheLength = NicheSet
    BY DEF NicheLength, NicheSet
  <2> QED BY <2>1, LabNichesAssumption
<1>2. (i \div 5) \in Nat
  OBVIOUS
<1>3. 1 + ((i \div 5) % Len(LabNiches)) \in 1 .. Len(LabNiches)
  BY <1>1, <1>2
<1>4. NicheAt(i) \in NicheSet
  <2>1. Len(Opportunities) = 5
    BY DEF Opportunities
  <2> QED BY <1>1, <1>3, <2>1 DEF NicheAt, Digit
<1>5. OpportunityAt(i) \in OpportunitySet
  BY DEF OpportunityAt, Digit, Opportunities, OpportunitySet
<1> QED BY <1>4, <1>5

LEMMA DigitsTell ==
  ASSUME NEW n \in Nat, NEW k \in Nat \ {0}
  PROVE  /\ Digit(n, k, Channels) \in ChannelSet
         /\ Digit(n, k, Openings) \in OpeningSet
         /\ Digit(n, k, Tones) \in {"DIRECT", "CONSULTATIVE", "FRIENDLY"}
         /\ Digit(n, k, CallsToAction) \in {"ASK_PERMISSION", "ASK_BEST_CHANNEL", "ASK_INTEREST"}
         /\ Digit(n, k, SubSeq(CallsToAction, 1, 2)) \in {"ASK_PERMISSION", "ASK_BEST_CHANNEL"}
         /\ Digit(n, k, Personalizations) \in {"BASIC", "SEGMENT", "DIAGNOSIS"}
         /\ Digit(n, k, OptOuts) \in {"EXPLICIT", "SHORT", "MISSING"}
         /\ Digit(n, k, LinkPolicies) \in {"NONE", "OWN_DOMAIN", "THIRD_PARTY"}
<1> DEFINE m == n \div k
<1>1. m \in Nat
  OBVIOUS
<1>2. 1 + (m % 4) \in 1 .. 4 /\ 1 + (m % 3) \in 1 .. 3 /\ 1 + (m % 2) \in 1 .. 2
  BY <1>1
<1> HIDE DEF m
<1>3. Digit(n, k, Channels) \in ChannelSet
  BY <1>2 DEF Digit, Channels, ChannelSet, m
<1>4. Digit(n, k, Openings) \in OpeningSet
  BY <1>2 DEF Digit, Openings, OpeningSet, m
<1>5. Digit(n, k, Tones) \in {"DIRECT", "CONSULTATIVE", "FRIENDLY"}
  BY <1>2 DEF Digit, Tones, m
<1>6. Digit(n, k, CallsToAction) \in {"ASK_PERMISSION", "ASK_BEST_CHANNEL", "ASK_INTEREST"}
  BY <1>2 DEF Digit, CallsToAction, m
<1>7. Digit(n, k, SubSeq(CallsToAction, 1, 2)) \in {"ASK_PERMISSION", "ASK_BEST_CHANNEL"}
  <2>1. SubSeq(CallsToAction, 1, 2) = <<"ASK_PERMISSION", "ASK_BEST_CHANNEL">>
    <3> DEFINE s == SubSeq(CallsToAction, 1, 2)
    <3> DEFINE S == {"ASK_PERMISSION", "ASK_BEST_CHANNEL"}
    <3>1. CallsToAction[1] = "ASK_PERMISSION" /\ CallsToAction[2] = "ASK_BEST_CHANNEL"
      BY DEF CallsToAction
    <3>2. \A i \in 1 .. 2 : CallsToAction[i] \in S
      <4>1. \A i \in 1 .. 2 : i = 1 \/ i = 2
        OBVIOUS
      <4> QED BY <3>1, <4>1
    <3>3. /\ s \in Seq(S) /\ Len(s) = IF 1 <= 2 THEN 2 - 1 + 1 ELSE 0
          /\ \A i \in 1 .. 2 - 1 + 1 : s[i] = CallsToAction[1 + i - 1]
      <4> HIDE DEF S
      <4> QED BY <3>2, SubSeqProperties
    <3> HIDE DEF s
    <3>4. Len(s) = 2 /\ s[1] = CallsToAction[1] /\ s[2] = CallsToAction[2]
      BY <3>3
    <3>5. s = <<"ASK_PERMISSION", "ASK_BEST_CHANNEL">>
      BY <3>1, <3>3, <3>4
    <3> QED BY <3>5 DEF s
  <2>2. Digit(n, k, SubSeq(CallsToAction, 1, 2)) = <<"ASK_PERMISSION", "ASK_BEST_CHANNEL">>[1 + (m % 2)]
    BY <2>1 DEF Digit, m
  <2> QED BY <1>2, <2>2
<1>8. Digit(n, k, Personalizations) \in {"BASIC", "SEGMENT", "DIAGNOSIS"}
  BY <1>2 DEF Digit, Personalizations, m
<1>9. Digit(n, k, OptOuts) \in {"EXPLICIT", "SHORT", "MISSING"}
  BY <1>2 DEF Digit, OptOuts, m
<1>10. Digit(n, k, LinkPolicies) \in {"NONE", "OWN_DOMAIN", "THIRD_PARTY"}
  BY <1>2 DEF Digit, LinkPolicies, m
<1> QED BY <1>3, <1>4, <1>5, <1>6, <1>7, <1>8, <1>9, <1>10

LEMMA VariantsTell ==
  ASSUME NEW niche \in NicheSet, NEW opportunity \in OpportunitySet, NEW n \in Nat
  PROVE  /\ VariantTells(ExtendedCase(niche, opportunity, n)) /\ ExtendedCase(niche, opportunity, n).index = n
         /\ VariantTells(CoreCase(niche, opportunity, n))
<1>1. VariantTells(ExtendedCase(niche, opportunity, n)) /\ ExtendedCase(niche, opportunity, n).index = n
  <2> DEFINE v == ExtendedCase(niche, opportunity, n)
  <2>1. /\ v.index = n /\ v.niche = niche /\ v.opportunity = opportunity /\ v.channel = Digit(n, 1, Channels)
        /\ v.opening = Digit(n, 81, Openings) /\ v.tone = Digit(n, 27, Tones) /\ v.cta = Digit(n, 9, CallsToAction)
        /\ v.personalization = Digit(n, 3, Personalizations) /\ v.optOut = Digit(n, 1, OptOuts)
        /\ v.linkPolicy = Digit(n, 1, LinkPolicies)
        /\ v.authorization = AuthorizationForChannel(v.channel) /\ v.sourceType = SourceForChannel[v.channel]
    BY DEF ExtendedCase
  <2> HIDE DEF v
  <2>2. {1, 3, 9, 27, 81} \subseteq Nat \ {0}
    OBVIOUS
  <2>3. /\ v.channel \in ChannelSet /\ v.opening \in OpeningSet /\ v.tone \in {"DIRECT", "CONSULTATIVE", "FRIENDLY"}
        /\ v.cta \in {"ASK_PERMISSION", "ASK_BEST_CHANNEL", "ASK_INTEREST"}
        /\ v.personalization \in {"BASIC", "SEGMENT", "DIAGNOSIS"} /\ v.optOut \in {"EXPLICIT", "SHORT", "MISSING"}
        /\ v.linkPolicy \in {"NONE", "OWN_DOMAIN", "THIRD_PARTY"}
    <3>1. Digit(n, 1, Channels) \in ChannelSet
      BY <2>2, DigitsTell
    <3>2. Digit(n, 81, Openings) \in OpeningSet
      BY <2>2, DigitsTell
    <3>3. Digit(n, 27, Tones) \in {"DIRECT", "CONSULTATIVE", "FRIENDLY"}
      BY <2>2, DigitsTell
    <3>4. Digit(n, 9, CallsToAction) \in {"ASK_PERMISSION", "ASK_BEST_CHANNEL", "ASK_INTEREST"}
      BY <2>2, DigitsTell
    <3>5. Digit(n, 3, Personalizations) \in {"BASIC", "SEGMENT", "DIAGNOSIS"}
      BY <2>2, DigitsTell
    <3>6. Digit(n, 1, OptOuts) \in {"EXPLICIT", "SHORT", "MISSING"}
      BY <2>2, DigitsTell
    <3>7. Digit(n, 1, LinkPolicies) \in {"NONE", "OWN_DOMAIN", "THIRD_PARTY"}
      BY <2>2, DigitsTell
    <3> QED BY <2>1, <3>1, <3>2, <3>3, <3>4, <3>5, <3>6, <3>7
  <2>4. VariantTells(v)
    BY <2>1, <2>3 DEF VariantTells
  <2> QED BY <2>1, <2>4 DEF v
<1>2. VariantTells(CoreCase(niche, opportunity, n))
  <2> DEFINE v == CoreCase(niche, opportunity, n)
  <2>1. /\ v.index = n /\ v.niche = niche /\ v.opportunity = opportunity /\ v.channel = Digit(n, 1, Channels)
        /\ v.opening = Digit(n, 6, Openings) /\ v.tone = Digit(n, 2, Tones)
        /\ v.cta = Digit(n, 1, SubSeq(CallsToAction, 1, 2))
        /\ v.personalization \in {"SEGMENT", "DIAGNOSIS"} /\ v.optOut = "EXPLICIT"
        /\ v.linkPolicy \in {"NONE", "OWN_DOMAIN"}
        /\ v.authorization = AuthorizationForChannel(v.channel) /\ v.sourceType = SourceForChannel[v.channel]
    BY DEF CoreCase
  <2> HIDE DEF v
  <2>2. {1, 2, 6} \subseteq Nat \ {0}
    OBVIOUS
  <2>3. /\ v.channel \in ChannelSet /\ v.opening \in OpeningSet /\ v.tone \in {"DIRECT", "CONSULTATIVE", "FRIENDLY"}
        /\ v.cta \in {"ASK_PERMISSION", "ASK_BEST_CHANNEL"}
    <3>1. Digit(n, 1, Channels) \in ChannelSet
      BY <2>2, DigitsTell
    <3>2. Digit(n, 6, Openings) \in OpeningSet
      BY <2>2, DigitsTell
    <3>3. Digit(n, 2, Tones) \in {"DIRECT", "CONSULTATIVE", "FRIENDLY"}
      BY <2>2, DigitsTell
    <3>4. Digit(n, 1, SubSeq(CallsToAction, 1, 2)) \in {"ASK_PERMISSION", "ASK_BEST_CHANNEL"}
      BY <2>2, DigitsTell
    <3> QED BY <2>1, <3>1, <3>2, <3>3, <3>4
  <2>4. VariantTells(v)
    BY <2>1, <2>3 DEF VariantTells
  <2> QED BY <2>4 DEF v
<1> QED BY <1>1, <1>2

\* A score is a number from 0 to 100, and what a core case scores is at least 35.
LEMMA ScoresTell ==
  ASSUME NEW v, VariantTells(v)
  PROVE  /\ RawScore(v) \in Int
         /\ v.optOut = "EXPLICIT" /\ v.linkPolicy \in {"NONE", "OWN_DOMAIN"} => RawScore(v) >= 35
<1> DEFINE opp == [NO_SITE |-> 8, THIRD_PARTY_ONLY |-> 7, WEAK_SITE |-> 9, BROKEN_SITE |-> 12, WEAK_CONVERSION |-> 11][v.opportunity]
           cha == [EMAIL |-> 8, CONTACT_FORM |-> 7, BUSINESS_DM |-> 6, WHATSAPP_OPT_IN |-> 10][v.channel]
           ope == [PERMISSION_FIRST |-> 9, DIAGNOSIS_FIRST |-> IF v.opportunity \in Diagnosable THEN 12 ELSE 6,
                   BENEFIT_FIRST |-> 6, CREDIBILITY_FIRST |-> 5][v.opening]
           ton == [DIRECT |-> 4, CONSULTATIVE |-> 8, FRIENDLY |-> 6][v.tone]
           cta == [ASK_PERMISSION |-> 10, ASK_BEST_CHANNEL |-> 8, ASK_INTEREST |-> 6][v.cta]
           per == [BASIC |-> 3, SEGMENT |-> 8, DIAGNOSIS |-> 12][v.personalization]
           out == [EXPLICIT |-> 5, SHORT |-> 3, MISSING |-> -20][v.optOut]
           lin == [NONE |-> 3, OWN_DOMAIN |-> 1, THIRD_PARTY |-> -20][v.linkPolicy]
           app == IF Approved(v) THEN 3 ELSE 0
           src == IF v.sourceType \in {"OFFICIAL_WEBSITE", "DIRECTLY_PROVIDED"} THEN 3 ELSE 0
           dia == IF v.personalization = "DIAGNOSIS" /\ v.opening = "DIAGNOSIS_FIRST" THEN 3 ELSE 0
<1>1. RawScore(v) = 10 + opp + cha + ope + ton + cta + per + out + lin + app + src + dia
  BY DEF RawScore
<1>2. opp \in 7 .. 12
  BY DEF VariantTells, OpportunitySet
<1>3. cha \in 6 .. 10
  BY DEF VariantTells, ChannelSet
<1>4. ope \in 5 .. 12
  BY DEF VariantTells, OpeningSet
<1>5. ton \in 4 .. 8 /\ cta \in 6 .. 10 /\ per \in 3 .. 12
  BY DEF VariantTells
<1>6. out \in Int /\ lin \in Int /\ (v.optOut = "EXPLICIT" => out = 5) /\ (v.linkPolicy \in {"NONE", "OWN_DOMAIN"} => lin >= 1)
  BY DEF VariantTells
<1>7. app \in 0 .. 3 /\ src \in 0 .. 3 /\ dia \in 0 .. 3
  OBVIOUS
<1> HIDE DEF opp, cha, ope, ton, cta, per, out, lin, app, src, dia
<1> QED BY <1>1, <1>2, <1>3, <1>4, <1>5, <1>6, <1>7

LEMMA EvaluationTells ==
  ASSUME NEW v, VariantTells(v), NEW found
  PROVE  LET e == Evaluated(v, found)
             codes == Codes(v) \cup EvidenceCodes(v, found)
         IN /\ e.variant = v /\ (e.eligible <=> codes = {})
            /\ e.score \in 0 .. 100
            /\ (e.eligible /\ RawScore(v) >= 35 => e.score >= 35)
<1> DEFINE e == Evaluated(v, found)
           codes == Codes(v) \cup EvidenceCodes(v, found)
           clamped == Clamp(RawScore(v))
<1>1. clamped \in 0 .. 100 /\ (RawScore(v) >= 35 => clamped >= 35)
  BY ScoresTell DEF Clamp
<1>2. e = [variant |-> v, codes |-> codes, eligible |-> codes = {}, score |-> IF codes = {} THEN clamped ELSE 0]
  BY DEF Evaluated
<1> HIDE DEF e, codes, clamped
<1>3. e.variant = v
  BY <1>2
<1>4. e.eligible <=> codes = {}
  BY <1>2
<1>5. e.score = IF codes = {} THEN clamped ELSE 0
  BY <1>2
<1>6. e.score \in 0 .. 100
  BY <1>1, <1>5
<1>7. e.eligible /\ RawScore(v) >= 35 => e.score >= 35
  BY <1>1, <1>4, <1>5
<1> QED BY <1>3, <1>4, <1>6, <1>7 DEF e, codes

\* Whether a text is too long is decided by its parts.
LEMMA LengthsTell ==
  ASSUME NEW v, VariantTells(v)
  PROVE  /\ BodyLength(v) \in Nat
         /\ v.channel \in {"EMAIL", "WHATSAPP_OPT_IN"} => BodyLength(v) <= 900
         /\ (v.personalization = "DIAGNOSIS" => v.opportunity \in Diagnosable)
              => (v.linkPolicy = "NONE" => BodyLength(v) <= 650)
<1> DEFINE warm == v.channel = "WHATSAPP_OPT_IN"
           p1 == Spaced(IF warm THEN 76 ELSE 25)
           p3 == Spaced(IF warm THEN 0 ELSE 32 + SourceLength[v.sourceType])
           p4 == Spaced(ToneLength[v.tone])
           p5 == Spaced(OpeningLength(v))
           p6 == Spaced(CASE v.personalization = "DIAGNOSIS" -> 38 + OpportunityLength[v.opportunity]
                          [] v.personalization = "SEGMENT"   -> 38 + NicheLength[v.niche]
                          [] v.personalization = "BASIC"     -> 54)
           p7 == Spaced(LinkLength[v.linkPolicy])
           p8 == Spaced(CtaLength[v.cta])
           p9 == Spaced(OptOutLength[v.optOut])
<1>0. BodyLength(v) = p1 + Spaced(47) + p3 + p4 + p5 + p6 + p7 + p8 + p9 - 1
  BY DEF BodyLength
<1>1. p1 \in 26 .. 77 /\ (~warm => p1 = 26) /\ Spaced(47) = 48
  BY DEF Spaced
<1>2. p3 \in 0 .. 65 /\ (v.channel = "BUSINESS_DM" => p3 = 62) /\ (warm => p3 = 0)
  BY DEF Spaced, VariantTells, ChannelSet, SourceForChannel, SourceLength
<1>3. p4 \in 16 .. 80
  BY DEF Spaced, VariantTells, ToneLength
<1>4. OpportunityLength[v.opportunity] \in 67 .. 84 /\ (v.opportunity \in Diagnosable => OpportunityLength[v.opportunity] <= 74)
  BY DEF VariantTells, OpportunitySet, OpportunityLength, Diagnosable
<1>5. p5 \in 58 .. 151 /\ (v.opportunity \in Diagnosable => p5 <= 141)
  BY <1>4 DEF Spaced, VariantTells, OpeningSet, OpeningLength
<1>6. NicheLength[v.niche] \in 18 .. 35
  BY DEF VariantTells, NicheSet, NicheLength
<1>7. p6 \in 55 .. 123 /\ (v.personalization = "DIAGNOSIS" /\ v.opportunity \in Diagnosable => p6 <= 113)
                        /\ (v.personalization # "DIAGNOSIS" => p6 <= 74)
  BY <1>4, <1>6 DEF Spaced, VariantTells
<1>8. p7 \in 0 .. 48 /\ (v.linkPolicy = "NONE" => p7 = 0)
  BY DEF Spaced, VariantTells, LinkLength
<1>9. p8 \in 57 .. 74 /\ p9 \in 0 .. 94
  BY DEF Spaced, VariantTells, CtaLength, OptOutLength
<1>10. v.channel \in {"EMAIL", "CONTACT_FORM", "BUSINESS_DM", "WHATSAPP_OPT_IN"}
  BY DEF VariantTells, ChannelSet
<1> HIDE DEF p1, p3, p4, p5, p6, p7, p8, p9
<1> QED BY <1>0, <1>1, <1>2, <1>3, <1>5, <1>7, <1>8, <1>9, <1>10

\* The n-th variant of the i-th intersection, evaluated with the evidence it needs.
CaseAt(i, n) == ExtendedCase(NicheAt(i), OpportunityAt(i), ExtendedSize * i + n)
ItemAt(i, n) == Evaluated(CaseAt(i, n), IF RequiresDiagnosis(CaseAt(i, n)) THEN "VERIFIED" ELSE "NOT_APPLICABLE")

\* With the evidence it needs, a variant of the matrices is blocked for its way out, its
\* link or its length, and for nothing else.
LEMMA CodesTell ==
  ASSUME NEW v, VariantTells(v), NEW found, RequiresDiagnosis(v) => found = "VERIFIED"
  PROVE  Codes(v) \cup EvidenceCodes(v, found) = {}
           <=> v.optOut # "MISSING" /\ v.linkPolicy # "THIRD_PARTY" /\ BodyLength(v) <= MessageLimit[v.channel]
<1>1. v.sourceType = SourceForChannel[v.channel] /\ v.channel \in ChannelSet /\ v.authorization = AuthorizationForChannel(v.channel)
  BY DEF VariantTells
<1>2. v.sourceType \notin {"PURCHASED_LIST", "LEAKED_DATA"} /\ v.sourceType \in AllowedSources[v.channel]
  BY <1>1 DEF SourceForChannel, ChannelSet, AllowedSources
<1>3. v.channel = "WHATSAPP_OPT_IN" => Approved(v)
  BY <1>1 DEF Approved, AuthorizationForChannel, ApprovedWhatsAppAuthorization
<1>4. EvidenceCodes(v, found) = {}
  BY <1>2 DEF EvidenceCodes
<1>5. BodyLength(v) \in Nat /\ MessageLimit[v.channel] \in Nat
  BY <1>1, LengthsTell DEF MessageLimit, ChannelSet
<1>6. /\ "SOURCE_REJECTED" \notin Codes(v) /\ "WHATSAPP_OPT_IN_REQUIRED" \notin Codes(v)
      /\ "OPT_OUT_REQUIRED" \in Codes(v) <=> v.optOut = "MISSING"
      /\ "THIRD_PARTY_LINK_BLOCKED" \in Codes(v) <=> v.linkPolicy = "THIRD_PARTY"
      /\ "MESSAGE_TOO_LONG" \in Codes(v) <=> BodyLength(v) > MessageLimit[v.channel]
  BY <1>2, <1>3 DEF Codes
<1>7. Codes(v) \subseteq {"SOURCE_REJECTED", "WHATSAPP_OPT_IN_REQUIRED", "OPT_OUT_REQUIRED", "THIRD_PARTY_LINK_BLOCKED",
                          "MESSAGE_TOO_LONG"}
  BY DEF Codes
<1>8. Codes(v) = {} <=> v.optOut # "MISSING" /\ v.linkPolicy # "THIRD_PARTY" /\ ~(BodyLength(v) > MessageLimit[v.channel])
  BY <1>6, <1>7
<1> QED BY <1>4, <1>5, <1>8

\* The variants of an intersection are about it, and one that is eligible holds what a
\* recommendation must.
LEMMA ItemTells ==
  ASSUME NEW i \in Nat, NEW n \in Nat
  PROVE  /\ VariantTells(CaseAt(i, n)) /\ ItemAt(i, n).variant = CaseAt(i, n)
         /\ CaseAt(i, n).index = ExtendedSize * i + n
         /\ CaseAt(i, n).niche = NicheAt(i) /\ CaseAt(i, n).opportunity = OpportunityAt(i)
         /\ ItemAt(i, n).score \in 0 .. 100
         /\ ItemAt(i, n).eligible <=> /\ CaseAt(i, n).optOut # "MISSING" /\ CaseAt(i, n).linkPolicy # "THIRD_PARTY"
                                      /\ BodyLength(CaseAt(i, n)) <= MessageLimit[CaseAt(i, n).channel]
<1> DEFINE v == CaseAt(i, n)
           found == IF RequiresDiagnosis(v) THEN "VERIFIED" ELSE "NOT_APPLICABLE"
<1>1. ExtendedSize * i + n \in Nat
  BY DEF ExtendedSize
<1>2. VariantTells(v) /\ v.index = ExtendedSize * i + n
  BY <1>1, CellTells, VariantsTell DEF CaseAt
<1>3. v.niche = NicheAt(i) /\ v.opportunity = OpportunityAt(i)
  BY DEF CaseAt, ExtendedCase
<1>4. ItemAt(i, n) = Evaluated(v, found) /\ (RequiresDiagnosis(v) => found = "VERIFIED")
  BY DEF ItemAt
<1> HIDE DEF v, found
<1>5. /\ Evaluated(v, found).variant = v /\ Evaluated(v, found).score \in 0 .. 100
      /\ Evaluated(v, found).eligible <=> Codes(v) \cup EvidenceCodes(v, found) = {}
  BY <1>2, EvaluationTells
<1>6. Codes(v) \cup EvidenceCodes(v, found) = {}
        <=> v.optOut # "MISSING" /\ v.linkPolicy # "THIRD_PARTY" /\ BodyLength(v) <= MessageLimit[v.channel]
  BY <1>2, <1>4, CodesTell
<1> QED BY <1>2, <1>3, <1>4, <1>5, <1>6 DEF v

LEMMA ItemsTell ==
  ASSUME NEW stage, NEW i \in Nat
  PROVE  /\ ItemsOf(stage, i) = {e \in {ItemAt(i, n) : n \in 0 .. ExtendedSize - 1} : e.variant.channel \in StageChannels[stage]}
         /\ Ranked(ItemsOf(stage, i)) /\ Ranked(EligibleOf(ItemsOf(stage, i)))
<1> DEFINE All == {ItemAt(i, n) : n \in 0 .. ExtendedSize - 1}
<1>1. ItemsOf(stage, i) = {e \in All : e.variant.channel \in StageChannels[stage]}
  <2> DEFINE Cases == {CaseAt(i, n) : n \in 0 .. ExtendedSize - 1}
             Of(v) == Evaluated(v, IF RequiresDiagnosis(v) THEN "VERIFIED" ELSE "NOT_APPLICABLE")
  <2>1. ItemsOf(stage, i) = {e \in {Of(v) : v \in Cases} : e.variant.channel \in StageChannels[stage]}
    BY DEF ItemsOf, CaseAt
  <2>2. \A n : ItemAt(i, n) = Of(CaseAt(i, n))
    BY DEF ItemAt
  <2> HIDE DEF Of
  <2>3. {Of(v) : v \in Cases} = All
    BY <2>2, Zenon
  <2> QED BY <2>1, <2>3
<1>2. IsFiniteSet(All)
  <2> DEFINE f == [n \in 0 .. ExtendedSize - 1 |-> ItemAt(i, n)]
  <2>1. IsFiniteSet(0 .. ExtendedSize - 1)
    <3>1. 0 \in Int /\ ExtendedSize - 1 \in Int
      BY DEF ExtendedSize
    <3> QED BY <3>1, FS_Interval
  <2>2. f \in Surjection(0 .. ExtendedSize - 1, All)
    BY DEF Surjection
  <2> HIDE DEF f, All
  <2> QED BY <2>1, <2>2, FS_Surjection
<1>3. \A e \in All : e.score \in Int /\ e.variant.index \in Int
  <2> SUFFICES ASSUME NEW n \in 0 .. ExtendedSize - 1 PROVE ItemAt(i, n).score \in Int /\ ItemAt(i, n).variant.index \in Int
    OBVIOUS
  <2>1. n \in Nat
    BY DEF ExtendedSize
  <2>2. ItemAt(i, n).score \in 0 .. 100 /\ ItemAt(i, n).variant.index = ExtendedSize * i + n
    BY <2>1, ItemTells
  <2> QED BY <2>1, <2>2 DEF ExtendedSize
<1>4. \A e, f \in All : e.variant.index = f.variant.index => e = f
  <2> SUFFICES ASSUME NEW n \in 0 .. ExtendedSize - 1, NEW m \in 0 .. ExtendedSize - 1,
                      ItemAt(i, n).variant.index = ItemAt(i, m).variant.index
               PROVE  ItemAt(i, n) = ItemAt(i, m)
    OBVIOUS
  <2>1. n \in Nat /\ m \in Nat
    BY DEF ExtendedSize
  <2>2. ExtendedSize * i + n = ExtendedSize * i + m
    BY <2>1, ItemTells
  <2>3. n = m
    BY <2>1, <2>2 DEF ExtendedSize
  <2> QED BY <2>3
<1> HIDE DEF All
<1>5. \A S \in SUBSET All : Ranked(S)
  BY <1>2, <1>3, <1>4, FS_Subset DEF Ranked
<1>6. ItemsOf(stage, i) \in SUBSET All /\ EligibleOf(ItemsOf(stage, i)) \in SUBSET All
  BY <1>1 DEF EligibleOf
<1> QED BY <1>1, <1>5, <1>6 DEF All

------------------------------------------------------------------------------
(* Recommendations.                                                        *)

\* Channel, link and way out follow the index of a variant, and still every channel of e-mail
\* and of WhatsApp has three variants of an intersection that are eligible: 0, 4 and 12 go by
\* e-mail and 3, 7 and 15 by WhatsApp, none of them the third of three.
LEMMA ThreeAreEligible ==
  ASSUME NEW i \in Nat
  PROVE  /\ \A n \in {0, 4, 12} : ItemAt(i, n).eligible /\ CaseAt(i, n).channel = "EMAIL"
         /\ \A n \in {3, 7, 15} : ItemAt(i, n).eligible /\ CaseAt(i, n).channel = "WHATSAPP_OPT_IN"
<1>1. ASSUME NEW n \in Nat, n % 3 # 2
      PROVE  CaseAt(i, n).optOut # "MISSING" /\ CaseAt(i, n).linkPolicy # "THIRD_PARTY"
  <2> DEFINE at == ExtendedSize * i + n
  <2>1. at \div 1 = at /\ at % 3 \in {0, 1}
    BY <1>1 DEF ExtendedSize
  <2>2. CaseAt(i, n).optOut = OptOuts[1 + (at % 3)] /\ CaseAt(i, n).linkPolicy = LinkPolicies[1 + (at % 3)]
    <3>1. Len(OptOuts) = 3 /\ Len(LinkPolicies) = 3
      BY DEF OptOuts, LinkPolicies
    <3>2. CaseAt(i, n).optOut = Digit(at, 1, OptOuts) /\ CaseAt(i, n).linkPolicy = Digit(at, 1, LinkPolicies)
      BY DEF CaseAt, ExtendedCase
    <3> HIDE DEF at
    <3> QED BY <2>1, <3>1, <3>2 DEF Digit
  <2> HIDE DEF at
  <2> QED BY <2>1, <2>2 DEF OptOuts, LinkPolicies
<1>2. ASSUME NEW n \in Nat PROVE CaseAt(i, n).channel = Channels[1 + (n % 4)]
  <2> DEFINE at == ExtendedSize * i + n
  <2>1. at \div 1 = at /\ at % 4 = n % 4
    BY DEF ExtendedSize
  <2>2. CaseAt(i, n).channel = Digit(at, 1, Channels) /\ Len(Channels) = 4
    BY DEF CaseAt, ExtendedCase, Channels
  <2> HIDE DEF at
  <2> QED BY <2>1, <2>2 DEF Digit
<1>3. ASSUME NEW n \in Nat, n % 3 # 2, CaseAt(i, n).channel \in {"EMAIL", "WHATSAPP_OPT_IN"}
      PROVE  ItemAt(i, n).eligible
  <2>1. VariantTells(CaseAt(i, n))
    BY ItemTells
  <2>2. BodyLength(CaseAt(i, n)) \in Nat /\ BodyLength(CaseAt(i, n)) <= 900
    BY <1>3, <2>1, LengthsTell
  <2>3. MessageLimit[CaseAt(i, n).channel] \in 900 .. 1200
    BY <1>3 DEF MessageLimit
  <2>4. ItemAt(i, n).eligible <=> /\ CaseAt(i, n).optOut # "MISSING" /\ CaseAt(i, n).linkPolicy # "THIRD_PARTY"
                                  /\ BodyLength(CaseAt(i, n)) <= MessageLimit[CaseAt(i, n).channel]
    BY ItemTells
  <2>5. CaseAt(i, n).optOut # "MISSING" /\ CaseAt(i, n).linkPolicy # "THIRD_PARTY"
    BY <1>1, <1>3
  <2>6. BodyLength(CaseAt(i, n)) <= MessageLimit[CaseAt(i, n).channel]
    BY <2>2, <2>3
  <2> QED BY <2>4, <2>5, <2>6
<1>4. Channels[1] = "EMAIL" /\ Channels[4] = "WHATSAPP_OPT_IN"
  BY DEF Channels
<1>5. ASSUME NEW n \in {0, 4, 12} PROVE ItemAt(i, n).eligible /\ CaseAt(i, n).channel = "EMAIL"
  <2>1. n \in Nat /\ n % 3 # 2 /\ n % 4 = 0
    OBVIOUS
  <2> QED BY <1>2, <1>3, <1>4, <2>1
<1>6. ASSUME NEW n \in {3, 7, 15} PROVE ItemAt(i, n).eligible /\ CaseAt(i, n).channel = "WHATSAPP_OPT_IN"
  <2>1. n \in Nat /\ n % 3 # 2 /\ n % 4 = 3
    OBVIOUS
  <2> QED BY <1>2, <1>3, <1>4, <2>1
<1> QED BY <1>5, <1>6

\* A stage has three eligible variants of every intersection.
LEMMA StagesHaveThree ==
  ASSUME NEW stage \in {"COLD_ACQUISITION", "POST_OPT_IN", "ALL_GUARDED"}, NEW i \in Nat
  PROVE  \E x, y, z \in EligibleOf(ItemsOf(stage, i)) : x # y /\ x # z /\ y # z
<1>1. ASSUME NEW n \in 0 .. 15, NEW m \in 0 .. 15, n # m PROVE ItemAt(i, n) # ItemAt(i, m)
  <2>1. n \in Nat /\ m \in Nat /\ ExtendedSize * i + n # ExtendedSize * i + m
    BY <1>1 DEF ExtendedSize
  <2>2. ItemAt(i, n).variant.index = ExtendedSize * i + n /\ ItemAt(i, m).variant.index = ExtendedSize * i + m
    BY <2>1, ItemTells
  <2> QED BY <2>1, <2>2
<1>2. ASSUME NEW n \in 0 .. 15, ItemAt(i, n).eligible, CaseAt(i, n).channel \in StageChannels[stage]
      PROVE  ItemAt(i, n) \in EligibleOf(ItemsOf(stage, i))
  <2>1. n \in Nat /\ n \in 0 .. ExtendedSize - 1
    BY DEF ExtendedSize
  <2>2. ItemAt(i, n) \in {ItemAt(i, m) : m \in 0 .. ExtendedSize - 1}
    BY <2>1
  <2>3. ItemAt(i, n).variant = CaseAt(i, n)
    BY <2>1, ItemTells
  <2>4. ItemAt(i, n) \in ItemsOf(stage, i)
    BY <1>2, <2>2, <2>3, ItemsTell, Zenon
  <2> QED BY <1>2, <2>4 DEF EligibleOf
<1>3. CASE stage = "POST_OPT_IN"
  <2>1. StageChannels[stage] = {"WHATSAPP_OPT_IN"}
    BY <1>3 DEF StageChannels
  <2>2. \A n \in {3, 7, 15} : ItemAt(i, n) \in EligibleOf(ItemsOf(stage, i))
    BY <1>2, <2>1, ThreeAreEligible
  <2> QED BY <1>1, <2>2
<1>4. CASE stage # "POST_OPT_IN"
  <2>1. "EMAIL" \in StageChannels[stage]
    <3>1. "EMAIL" \in ToSet(Channels)
      BY DEF Channels, ToSet
    <3> QED BY <1>4, <3>1 DEF StageChannels
  <2>2. \A n \in {0, 4, 12} : ItemAt(i, n) \in EligibleOf(ItemsOf(stage, i))
    BY <1>2, <2>1, ThreeAreEligible
  <2> QED BY <1>1, <2>2
<1> QED BY <1>3, <1>4

\* What the report holds of an intersection.
LEMMA SummaryTells ==
  ASSUME NEW stage \in {"COLD_ACQUISITION", "POST_OPT_IN", "ALL_GUARDED"}, NEW i \in Nat
  PROVE  LET summary == SummaryOf(stage, i)
             eligible == EligibleOf(ItemsOf(stage, i))
         IN /\ summary.top \in Seq(eligible) /\ Len(summary.top) = 3 /\ IsInjective(summary.top)
            /\ \A k \in 1 .. 3 : \A e \in eligible \ ToSet(summary.top) : Outranks(summary.top[k], e)
            /\ summary.total = Cardinality(ItemsOf(stage, i)) /\ summary.eligible = Cardinality(eligible)
            /\ summary.total = summary.eligible + summary.blocked /\ summary.total # 0
<1> DEFINE items == ItemsOf(stage, i)
           eligible == EligibleOf(items)
           summary == SummaryOf(stage, i)
<1>1. Ranked(items) /\ Ranked(eligible) /\ eligible \subseteq items
  BY ItemsTell DEF EligibleOf
<1>2. PICK x \in eligible, y \in eligible, z \in eligible : x # y /\ x # z /\ y # z
  BY StagesHaveThree
<1>3. /\ summary.total = Cardinality(items) /\ summary.eligible = Cardinality(eligible)
      /\ summary.blocked = Cardinality(items \ eligible) /\ summary.top = Top(eligible, 3)
  BY DEF SummaryOf, PerGroup
<1> HIDE DEF items, eligible, summary
<1>4. /\ Top(eligible, 3) \in Seq(eligible) /\ Len(Top(eligible, 3)) = 3 /\ IsInjective(Top(eligible, 3))
      /\ \A k \in 1 .. 3 : \A e \in eligible \ ToSet(Top(eligible, 3)) : Outranks(Top(eligible, 3)[k], e)
  BY <1>1, <1>2, TopIsBest
<1>5. /\ IsFiniteSet(items) /\ IsFiniteSet(eligible) /\ Cardinality(items) \in Nat /\ Cardinality(eligible) \in Nat
      /\ Cardinality(items \ eligible) = Cardinality(items) - Cardinality(eligible)
  <2>1. IsFiniteSet(items) /\ IsFiniteSet(eligible) /\ items \cap eligible = eligible
    BY <1>1 DEF Ranked
  <2> QED BY <2>1, FS_Difference, FS_CardinalityType
<1>6. Cardinality(items) # 0
  BY <1>1, <1>2, <1>5, FS_EmptySet
<1>7. summary.total = summary.eligible + summary.blocked
  BY <1>3, <1>5
<1> QED BY <1>3, <1>4, <1>6, <1>7 DEF items, eligible, summary

\* What a recommendation is: of the intersection, of the stage, and fit to be sent.
LEMMA RecommendationTells ==
  ASSUME NEW stage \in {"COLD_ACQUISITION", "POST_OPT_IN", "ALL_GUARDED"}, NEW i \in Nat, NEW e \in EligibleOf(ItemsOf(stage, i))
  PROVE  /\ e.eligible /\ e.variant.channel \in StageChannels[stage]
         /\ e.variant.niche = NicheAt(i) /\ e.variant.opportunity = OpportunityAt(i)
         /\ e.variant.optOut # "MISSING" /\ e.variant.linkPolicy # "THIRD_PARTY"
         /\ e.variant.channel = "WHATSAPP_OPT_IN" => e.variant.authorization \in ApprovedWhatsAppAuthorization
<1>0. e \in ItemsOf(stage, i) /\ e.eligible
  BY DEF EligibleOf
<1>1. e \in {ItemAt(i, n) : n \in 0 .. ExtendedSize - 1} /\ e.variant.channel \in StageChannels[stage]
  BY <1>0, ItemsTell, Zenon
<1>2. PICK n \in 0 .. ExtendedSize - 1 : e = ItemAt(i, n)
  BY <1>1
<1>3. n \in Nat
  BY DEF ExtendedSize
<1>4. e.variant = CaseAt(i, n)
  BY <1>2, <1>3, ItemTells
<1>5. /\ e.variant.niche = NicheAt(i) /\ e.variant.opportunity = OpportunityAt(i)
      /\ e.variant.optOut # "MISSING" /\ e.variant.linkPolicy # "THIRD_PARTY"
  BY <1>0, <1>2, <1>3, <1>4, ItemTells
<1>6. e.variant.channel = "WHATSAPP_OPT_IN" => e.variant.authorization \in ApprovedWhatsAppAuthorization
  <2>1. VariantTells(e.variant)
    BY <1>3, <1>4, ItemTells
  <2> QED BY <2>1 DEF VariantTells, AuthorizationForChannel, ApprovedWhatsAppAuthorization
<1> QED BY <1>0, <1>1, <1>5, <1>6

\* A core case is never too long, has a way out and no link of others, and its parts add up
\* to 35 or more.
LEMMA CoreTells ==
  ASSUME NEW i \in Nat, NEW n \in Nat
  PROVE  LET e == Evaluated(CoreCase(NicheAt(i), OpportunityAt(i), n), "VERIFIED") IN e.eligible /\ e.score \in 35 .. 100
<1> DEFINE v == CoreCase(NicheAt(i), OpportunityAt(i), n)
<1>1. VariantTells(v)
  BY CellTells, VariantsTell
<1>2. /\ v.optOut = "EXPLICIT" /\ v.linkPolicy \in {"NONE", "OWN_DOMAIN"}
      /\ v.linkPolicy = "OWN_DOMAIN" => v.channel = "EMAIL"
      /\ v.personalization = "DIAGNOSIS" => v.opportunity \in Diagnosable
  BY DEF CoreCase
<1> HIDE DEF v
<1>3. BodyLength(v) \in Nat /\ BodyLength(v) <= MessageLimit[v.channel]
  <2>1. v.channel \in ChannelSet
    BY <1>1 DEF VariantTells
  <2>2. CASE v.channel \in {"EMAIL", "WHATSAPP_OPT_IN"}
    <3>1. MessageLimit[v.channel] \in 900 .. 1200
      BY <2>2 DEF MessageLimit
    <3> QED BY <1>1, <2>2, <3>1, LengthsTell
  <2>3. CASE v.channel \in {"CONTACT_FORM", "BUSINESS_DM"}
    <3>1. MessageLimit[v.channel] \in 650 .. 700 /\ v.linkPolicy = "NONE"
      BY <1>2, <2>3 DEF MessageLimit
    <3> QED BY <1>1, <1>2, <3>1, LengthsTell
  <2> QED BY <2>1, <2>2, <2>3 DEF ChannelSet
<1>4. Codes(v) \cup EvidenceCodes(v, "VERIFIED") = {}
  BY <1>1, <1>2, <1>3, CodesTell
<1>5. RawScore(v) \in Int /\ RawScore(v) >= 35
  BY <1>1, <1>2, ScoresTell
<1>6. LET e == Evaluated(v, "VERIFIED") IN e.eligible /\ e.score \in 0 .. 100 /\ e.score >= 35
  BY <1>1, <1>4, <1>5, EvaluationTells
<1> QED BY <1>6 DEF v

------------------------------------------------------------------------------
(* The report.                                                             *)

\* A report holds the summaries of its stage up to where it is, and no validation failed.
ReportOf(stage, n) == [i \in 1 .. n |-> SummaryOf(stage, i - 1)]

LabInv ==
  /\ lab = [stage |-> lab.stage, done |-> lab.done, error |-> "NONE"]
  /\ lab.stage \in 1 .. 4
  /\ \E n \in 0 .. Intersections : lab.done = ReportOf(StageNow, n) /\ (lab.stage = 4 => n = 0)

LEMMA IntersectionsAreMany == Intersections \in Nat \ {0}
<1>1. Len(LabNiches) \in Nat \ {0} /\ Len(Opportunities) = 5
  BY LabNichesAssumption DEF Opportunities
<1> QED BY <1>1 DEF Intersections

LEMMA StagesAreThree ==
  /\ Len(Stages) = 3
  /\ \A k \in 1 .. 3 : Stages[k] \in {"COLD_ACQUISITION", "POST_OPT_IN", "ALL_GUARDED"}
<1>1. Len(Stages) = 3 /\ Stages[1] = "COLD_ACQUISITION" /\ Stages[2] = "POST_OPT_IN" /\ Stages[3] = "ALL_GUARDED"
  BY DEF Stages
<1>2. \A k \in 1 .. 3 : k = 1 \/ k = 2 \/ k = 3
  OBVIOUS
<1> QED BY <1>1, <1>2

LEMMA ReportsGrow ==
  ASSUME NEW stage, NEW n \in Nat
  PROVE  /\ Len(ReportOf(stage, n)) = n /\ \A i \in 1 .. n : ReportOf(stage, n)[i] = SummaryOf(stage, i - 1)
         /\ Append(ReportOf(stage, n), SummaryOf(stage, n)) = ReportOf(stage, n + 1)
<1> DEFINE S == {SummaryOf(stage, j) : j \in Nat}
           r == ReportOf(stage, n)
           q == ReportOf(stage, n + 1)
<1>1. r \in [1 .. n -> S] /\ q \in [1 .. n + 1 -> S]
  BY DEF ReportOf
<1>2. \A i \in 1 .. n + 1 : i \in 1 .. n \/ i = n + 1
  OBVIOUS
<1>3. (\A i \in 1 .. n : r[i] = SummaryOf(stage, i - 1)) /\ (\A i \in 1 .. n + 1 : q[i] = SummaryOf(stage, i - 1))
  BY DEF ReportOf
<1>4. SummaryOf(stage, n) \in S
  OBVIOUS
<1> HIDE DEF S, r, q
<1>5. r \in Seq(S) /\ q \in Seq(S)
  <2>1. n \in Nat /\ n + 1 \in Nat
    OBVIOUS
  <2>2. r \in Seq(S)
    BY <1>1, <2>1, SeqDef, Zenon
  <2>3. q \in Seq(S)
    <3>1. \E m \in Nat : q \in [1 .. m -> S]
      BY <1>1, <2>1
    <3> QED BY <3>1, SeqDef, Zenon
  <2> QED BY <2>2, <2>3
<1>6. Len(r) = n /\ Len(q) = n + 1
  <2>1. DOMAIN r = 1 .. n /\ DOMAIN q = 1 .. n + 1
    BY <1>1
  <2>2. DOMAIN r = 1 .. Len(r) /\ DOMAIN q = 1 .. Len(q) /\ Len(r) \in Nat /\ Len(q) \in Nat
    BY <1>5
  <2> QED BY <2>1, <2>2
<1>7. Append(r, SummaryOf(stage, n)) = q
  <2> DEFINE a == Append(r, SummaryOf(stage, n))
  <2>1. a \in Seq(S) /\ Len(a) = n + 1 /\ (\A i \in 1 .. n : a[i] = r[i]) /\ a[n + 1] = SummaryOf(stage, n)
    BY <1>4, <1>5, <1>6
  <2>2. \A i \in 1 .. n + 1 : a[i] = q[i]
    <3>1. \A i \in 1 .. n : i \in 1 .. n + 1
      OBVIOUS
    <3>2. n + 1 \in 1 .. n + 1 /\ (n + 1) - 1 = n
      OBVIOUS
    <3> HIDE DEF a
    <3> QED BY <1>2, <1>3, <2>1, <3>1, <3>2
  <2> HIDE DEF a
  <2>3. a = q
    BY <1>5, <1>6, <2>1, <2>2
  <2> QED BY <2>3 DEF a
<1> QED BY <1>3, <1>6, <1>7 DEF r, q

\* The validations of a whole stage find nothing.
LEMMA ValidationsPass ==
  ASSUME LabInv, lab.stage \in 1 .. 3, lab.done = ReportOf(StageNow, Intersections)
  PROVE  StageError = "NONE"
<1>1. StageNow \in {"COLD_ACQUISITION", "POST_OPT_IN", "ALL_GUARDED"}
  BY StagesAreThree DEF StageNow
<1>2. \A i \in Cells : lab.done[i] = SummaryOf(StageNow, i - 1) /\ i - 1 \in Nat
  BY IntersectionsAreMany, ReportsGrow DEF Cells
<1>3. \A i \in Cells : /\ Len(lab.done[i].top) = 3 /\ IsInjective(lab.done[i].top)
                       /\ lab.done[i].top \in Seq(EligibleOf(ItemsOf(StageNow, i - 1)))
                       /\ lab.done[i].total = Cardinality(ItemsOf(StageNow, i - 1))
                       /\ lab.done[i].eligible = Cardinality(EligibleOf(ItemsOf(StageNow, i - 1)))
                       /\ lab.done[i].total = lab.done[i].eligible + lab.done[i].blocked /\ lab.done[i].total # 0
  BY <1>1, <1>2, SummaryTells
<1>4. \A i \in Cells : \A k \in 1 .. 3 : /\ lab.done[i].top[k].variant.niche = NicheAt(i - 1)
                                         /\ lab.done[i].top[k].variant.opportunity = OpportunityAt(i - 1)
  <2> SUFFICES ASSUME NEW i \in Cells, NEW k \in 1 .. 3
               PROVE  /\ lab.done[i].top[k].variant.niche = NicheAt(i - 1)
                      /\ lab.done[i].top[k].variant.opportunity = OpportunityAt(i - 1)
    OBVIOUS
  <2> DEFINE s == lab.done[i].top
  <2>1. s \in Seq(EligibleOf(ItemsOf(StageNow, i - 1))) /\ Len(s) = 3
    BY <1>3
  <2> DEFINE E == EligibleOf(ItemsOf(StageNow, i - 1))
  <2>2. s[k] \in E
    <3>1. s \in Seq(E) /\ k \in 1 .. Len(s)
      BY <2>1
    <3> HIDE DEF s, E
    <3> QED BY <3>1
  <2>3. s[k].variant.niche = NicheAt(i - 1) /\ s[k].variant.opportunity = OpportunityAt(i - 1)
    <3> HIDE DEF s
    <3> QED BY <1>1, <1>2, <2>2, RecommendationTells DEF E
  <2> QED BY <2>3 DEF s
<1>5. ASSUME NEW cells \in SUBSET Cells PROVE Reconciles(cells)
  <2>1. /\ [i \in cells |-> lab.done[i].total] = [i \in cells |-> Cardinality(ItemsOf(StageNow, i - 1))]
        /\ [i \in cells |-> lab.done[i].eligible] = [i \in cells |-> Cardinality(EligibleOf(ItemsOf(StageNow, i - 1)))]
    BY <1>3
  <2>2. /\ StageSummary(cells).total = SumFunction([i \in cells |-> Cardinality(ItemsOf(StageNow, i - 1))])
        /\ StageSummary(cells).eligible = SumFunction([i \in cells |-> Cardinality(EligibleOf(ItemsOf(StageNow, i - 1)))])
    BY DEF StageSummary
  <2> QED BY <2>1, <2>2, Zenon DEF Reconciles
<1> DEFINE missing == \E i \in Cells : Len(lab.done[i].top) # PerGroup
           double == \E i \in Cells : ~IsInjective(lab.done[i].top)
           mismatch == \E i \in Cells, k \in 1 .. PerGroup :
                         \/ lab.done[i].top[k].variant.niche # NicheAt(i - 1)
                         \/ lab.done[i].top[k].variant.opportunity # OpportunityAt(i - 1)
           invalid == \E i \in Cells : lab.done[i].total # lab.done[i].eligible + lab.done[i].blocked \/ lab.done[i].total = 0
           byNiche == \E n \in ToSet(LabNiches) : ~Reconciles(CellsOfNiche(n))
           byOpportunity == \E o \in ToSet(Opportunities) : ~Reconciles(CellsOfOpportunity(o))
           byStage == ~Reconciles(Cells)
<1>6. ~missing /\ ~double /\ ~mismatch /\ ~invalid
  BY <1>3, <1>4 DEF PerGroup
<1>7. ~byNiche /\ ~byOpportunity /\ ~byStage
  <2>1. Cells \in SUBSET Cells /\ \A n : CellsOfNiche(n) \in SUBSET Cells /\ CellsOfOpportunity(n) \in SUBSET Cells
    BY DEF CellsOfNiche, CellsOfOpportunity
  <2> QED BY <1>5, <2>1
<1>8. StageError = CASE missing -> "CROSS_RECOMMENDATIONS_MISSING"
                     [] double -> "CROSS_RECOMMENDATION_DUPLICATE"
                     [] mismatch -> "CROSS_RECOMMENDATION_MISMATCH"
                     [] invalid -> "CROSS_SUMMARY_INVALID"
                     [] byNiche -> "CROSS_SUMMARY_NICHE_RECONCILIATION_FAILED"
                     [] byOpportunity -> "CROSS_SUMMARY_OPPORTUNITY_RECONCILIATION_FAILED"
                     [] byStage -> "CROSS_SUMMARY_STAGE_RECONCILIATION_FAILED"
                     [] OTHER -> "NONE"
  BY DEF StageError
<1> HIDE DEF missing, double, mismatch, invalid, byNiche, byOpportunity, byStage
<1> QED BY <1>6, <1>7, <1>8

LEMMA LabStarts == LabInit => LabInv
<1> SUFFICES ASSUME LabInit PROVE LabInv
  OBVIOUS
<1>1. lab = [stage |-> 1, done |-> <<>>, error |-> "NONE"]
  BY DEF LabInit
<1>2. ReportOf(StageNow, 0) = <<>>
  BY DEF ReportOf
<1>3. 0 \in 0 .. Intersections
  BY IntersectionsAreMany
<1> QED BY <1>1, <1>2, <1>3 DEF LabInv

LEMMA LabStep == LabInv /\ [LabNext]_lab => LabInv'
<1> SUFFICES ASSUME LabInv, [LabNext]_lab PROVE LabInv'
  OBVIOUS
<1>1. PICK n \in 0 .. Intersections : lab.done = ReportOf(StageNow, n) /\ (lab.stage = 4 => n = 0)
  BY DEF LabInv
<1>2. /\ lab = [stage |-> lab.stage, done |-> lab.done, error |-> "NONE"]
      /\ lab.stage \in 1 .. 4 /\ n \in Nat /\ Len(lab.done) = n
  BY <1>1, IntersectionsAreMany, ReportsGrow DEF LabInv
<1>3. CASE SummariseIntersection
  <2>1. lab.stage \in 1 .. 3 /\ n < Intersections
    BY <1>2, <1>3, StagesAreThree DEF SummariseIntersection
  <2>2. lab' = [lab EXCEPT !.done = Append(@, SummaryOf(StageNow, n))]
    BY <1>2, <1>3 DEF SummariseIntersection
  <2>3. lab'.stage = lab.stage /\ lab'.done = Append(lab.done, SummaryOf(StageNow, n))
        /\ lab' = [stage |-> lab'.stage, done |-> lab'.done, error |-> "NONE"]
    BY <1>2, <2>2
  <2>4. lab'.done = ReportOf(StageNow, n + 1) /\ StageNow' = StageNow
    BY <1>1, <1>2, <2>3, ReportsGrow DEF StageNow
  <2>5. n + 1 \in 0 .. Intersections /\ lab'.stage \in 1 .. 4 /\ lab'.stage # 4
    BY <1>2, <2>1, <2>3, IntersectionsAreMany
  <2> QED BY <2>3, <2>4, <2>5 DEF LabInv
<1>4. CASE FinishStage
  <2>1. lab.stage \in 1 .. 3 /\ n = Intersections
    BY <1>2, <1>4, StagesAreThree DEF FinishStage
  <2>2. StageError = "NONE"
    BY <1>1, <2>1, ValidationsPass
  <2>3. lab' = [lab EXCEPT !.stage = @ + 1, !.done = <<>>]
    BY <1>4, <2>2 DEF FinishStage
  <2> DEFINE s == lab.stage
             d == lab.done
  <2>4. lab = [stage |-> s, done |-> d, error |-> "NONE"]
    BY <1>2
  <2> HIDE DEF s, d
  <2>5. lab' = [stage |-> s + 1, done |-> <<>>, error |-> "NONE"]
    BY <2>3, <2>4
  <2>6. lab'.stage = lab.stage + 1 /\ lab'.done = <<>> /\ lab' = [stage |-> lab'.stage, done |-> lab'.done, error |-> "NONE"]
    BY <2>5 DEF s
  <2>7. ReportOf(StageNow', 0) = <<>> /\ 0 \in 0 .. Intersections /\ lab'.stage \in 1 .. 4
    BY <2>1, <2>6, IntersectionsAreMany DEF ReportOf
  <2> QED BY <2>6, <2>7 DEF LabInv
<1>5. CASE UNCHANGED lab
  BY <1>5 DEF LabInv, StageNow
<1> QED BY <1>3, <1>4, <1>5 DEF LabNext

LEMMA ReportIsSound == LabInv => RecommendationsAreSound
<1> SUFFICES ASSUME LabInv PROVE RecommendationsAreSound
  OBVIOUS
<1>1. PICK n \in 0 .. Intersections : lab.done = ReportOf(StageNow, n) /\ (lab.stage = 4 => n = 0)
  BY DEF LabInv
<1>2. lab.error = "NONE" /\ lab.stage \in 1 .. 4 /\ n \in Nat /\ Len(lab.done) = n
  BY <1>1, IntersectionsAreMany, ReportsGrow DEF LabInv
<1> DEFINE top == lab.done[n].top
           rest == EligibleOf(ItemsOf(StageNow, n - 1)) \ ToSet(top)
<1>3. ASSUME lab.done # <<>>
      PROVE  /\ Len(top) = PerGroup /\ IsInjective(top)
             /\ \A k \in 1 .. PerGroup :
                  /\ top[k].eligible /\ top[k].variant.channel \in StageChannels[StageNow]
                  /\ top[k].variant.optOut # "MISSING" /\ top[k].variant.linkPolicy # "THIRD_PARTY"
                  /\ top[k].variant.channel = "WHATSAPP_OPT_IN" => top[k].variant.authorization \in ApprovedWhatsAppAuthorization
                  /\ \A e \in rest : Outranks(top[k], e)
  <2>1. n # 0
    BY <1>1, <1>3 DEF ReportOf
  <2>2. n \in 1 .. n /\ n - 1 \in Nat /\ lab.stage \in 1 .. 3
    BY <1>1, <1>2, <2>1
  <2>3. StageNow \in {"COLD_ACQUISITION", "POST_OPT_IN", "ALL_GUARDED"} /\ lab.done[n] = SummaryOf(StageNow, n - 1)
    <3>1. StageNow \in {"COLD_ACQUISITION", "POST_OPT_IN", "ALL_GUARDED"}
      BY <2>2, StagesAreThree DEF StageNow
    <3>2. lab.done[n] = SummaryOf(StageNow, n - 1)
      BY <1>1, <1>2, <2>2, ReportsGrow
    <3> QED BY <3>1, <3>2
  <2> DEFINE eligible == EligibleOf(ItemsOf(StageNow, n - 1))
  <2>4. /\ top \in Seq(eligible) /\ Len(top) = 3 /\ IsInjective(top)
        /\ \A k \in 1 .. 3 : \A e \in eligible \ ToSet(top) : Outranks(top[k], e)
    BY <2>2, <2>3, SummaryTells
  <2> HIDE DEF top, eligible
  <2>5. \A k \in 1 .. 3 : top[k] \in eligible
    <3>1. top \in Seq(eligible) /\ Len(top) = 3
      BY <2>4
    <3> QED BY <3>1
  <2>6. \A k \in 1 .. 3 :
          /\ top[k].eligible /\ top[k].variant.channel \in StageChannels[StageNow]
          /\ top[k].variant.optOut # "MISSING" /\ top[k].variant.linkPolicy # "THIRD_PARTY"
          /\ top[k].variant.channel = "WHATSAPP_OPT_IN" => top[k].variant.authorization \in ApprovedWhatsAppAuthorization
    BY <2>2, <2>3, <2>5, RecommendationTells DEF eligible
  <2> QED BY <2>4, <2>6 DEF PerGroup, eligible
<1>4. \A k \in 0 .. CoreSize - 1 :
        LET e == Evaluated(CoreCase(NicheAt(n), OpportunityAt(n), CoreSize * n + k), "VERIFIED")
        IN e.eligible /\ e.score \in 35 .. 100
  <2> SUFFICES ASSUME NEW k \in 0 .. CoreSize - 1
               PROVE  LET e == Evaluated(CoreCase(NicheAt(n), OpportunityAt(n), CoreSize * n + k), "VERIFIED")
                      IN e.eligible /\ e.score \in 35 .. 100
    OBVIOUS
  <2>1. CoreSize * n + k \in Nat
    BY <1>2 DEF CoreSize
  <2> QED BY <1>2, <2>1, CoreTells
<1> QED BY <1>2, <1>3, <1>4 DEF RecommendationsAreSound

(***************************************************************************)
(* MCPlatform: the evaluation of leads and the report on messages, of a    *)
(* behaviour that is about any of the parts.                               *)
(***************************************************************************)
DecisionsInv == QualityInv /\ LabInv

LEMMA DecisionsStart == Init => DecisionsInv
<1> SUFFICES ASSUME Init PROVE DecisionsInv
  OBVIOUS
<1>1. LabInv
  BY LabStarts DEF Init
<1>2. CASE scene = "quality"
  BY <1>1, <1>2, QualityStarts DEF Init, DecisionsInv
<1>3. CASE scene # "quality"
  <2>1. check = NoCheck
    BY <1>3 DEF Init
  <2>2. QualityInv
    BY <2>1 DEF QualityInv, NoCheck, NoInput, ClassifiedAsItIs, EligibleForItsResult
  <2> QED BY <1>1, <2>2 DEF DecisionsInv
<1> QED BY <1>2, <1>3

LEMMA DecisionsStep == DecisionsInv /\ [Next]_mcVars => DecisionsInv'
<1> SUFFICES ASSUME DecisionsInv, [Next]_mcVars PROVE DecisionsInv'
  OBVIOUS
<1>1. [QualityNext]_check /\ [LabNext]_lab
  BY DEF Next, mcVars
<1> QED BY <1>1, QualityStep, LabStep DEF DecisionsInv

\* Whatever the lookup answers and whatever the evidence is, a lead is eligible only on what
\* is known of it, and every stage of the report has three sound recommendations for every
\* niche and opportunity (MCPlatform; contact-qualification.ts, communication-lab.ts,
\* guarded-communication-recommendations.ts).
THEOREM PlatformDecisionsFailClosed == Spec => []DecisionsFailClosed
<1>1. DecisionsInv => DecisionsFailClosed
  BY QualityIsVerified, ReportIsSound DEF DecisionsInv, DecisionsFailClosed
<1> QED BY <1>1, DecisionsStart, DecisionsStep, PTL DEF Spec

\* A behaviour of the platform is one of each part, seen on the part's own variables: the
\* scenes choose among the initial states and take turns at nothing.
LEMMA PlatformIsItsParts == Spec => CollectSpec /\ OpSpec /\ ReleaseSpec /\ ProspectSpec
<1>1. Init => CollectInit /\ OpInit /\ ReleaseInit /\ ProspectInit
  BY DEF Init
<1>2. [Next]_mcVars => [CollectNext]_collectVars /\ [OpNext]_opVars /\ [ReleaseNext]_releaseVars /\ [ProspectNext]_prospectVars
  BY DEF Next, mcVars
<1> QED BY <1>1, <1>2, PTL DEF Spec, CollectSpec, OpSpec, ReleaseSpec, ProspectSpec

LEMMA PlatformIsControlled == Spec => []ControlInv
<1>1. Init => ControlInv
  <2> SUFFICES ASSUME Init PROVE ControlInv
    OBVIOUS
  <2>1. CASE scene = "configuration"
    <3>1. PICK e \in Environments, kill \in BOOLEAN :
            /\ envFile = With(e, kill)
            /\ process = [p \in Processes |-> [step |-> "DOWN", env |-> With(e, kill)]]
      BY <2>1 DEF Init, ConfigurationInit
    <3>2. With(e, kill) \in EnvRecord
      BY EnvironmentsAssumption DEF With, EnvRecord
    <3> QED BY <2>1, <3>1, <3>2, ControlStarts DEF Init, ConfigurationInit
  <2>2. CASE scene # "configuration"
    <3>1. \A e \in EnvironmentFiles : With(e, FALSE) \in EnvRecord
      BY DEF EnvironmentFiles, Environment, With, EnvRecord, Settings, Profiles, OperatorTests
    <3>2. EnvironmentFiles # {}
      BY DEF EnvironmentFiles
    <3>3. IdleFile \in EnvRecord
      BY <3>1, <3>2 DEF IdleFile
    <3> QED BY <2>2, <3>3, ControlStarts DEF Init
  <2> QED BY <2>1, <2>2
<1>2. [Next]_mcVars => [ConfigurationNext]_confVars
  BY DEF Next, mcVars
<1> QED BY <1>1, <1>2, ControlStep, PTL DEF Spec

\* All that the platform run checks, for any values of its parts' constants: operator links
\* are authorised, releases find their schema, restores keep suppressions, campaigns move
\* when they earned it, a job is collected once, the pilot stays under control and decisions
\* fail closed.
THEOREM PlatformCorrect ==
  Spec => [](/\ OperatorLinkIsAuthorised /\ ReleaseRunsOnItsSchema /\ RestoreKeepsSuppressions
             /\ CampaignMovesWhenEarned /\ JobCollectedOnce /\ PilotUnderControl /\ DecisionsFailClosed)
BY PlatformIsItsParts, PlatformIsControlled, ControlHolds, OperatorLinksAreAuthorised, ReleasesFindTheirSchema,
   RestoresKeepSuppressions, CampaignsMoveWhenEarned, JobsCollectedOnce, PlatformDecisionsFailClosed, PTL
=============================================================================
