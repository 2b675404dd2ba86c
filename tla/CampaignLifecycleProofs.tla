----------------------- MODULE CampaignLifecycleProofs -----------------------
(***************************************************************************)
(* Proofs about CampaignLifecycle, for any number of requests, keys,       *)
(* leads, pages and versions.                                              *)
(***************************************************************************)
EXTENDS CampaignLifecycle, SequenceTheorems, TLAPS

------------------------------------------------------------------------------
(* Commands and where they come from.                                      *)

\* What a command of each kind is about.
LEMMA Shape ==
    ASSUME NEW c \in Command
    PROVE  /\ Kind(c) = "campaign" =>
                /\ c.scope = <<"campaign", <<>>>>
                /\ c.key = CreationKey
           /\ Kind(c) = "campaign-version" =>
                c.scope = <<"campaign-version", <<>>>>
           /\ Kind(c) = "campaign-version-state" =>
                /\ \E n \in Version : Target(c) = <<n>>
                /\ c.body.state \in VersionState
                /\ c.scope = <<"campaign-version-state", Target(c)>>
           /\ Kind(c) = "campaign-state" =>
                /\ c.scope = <<"campaign-state", <<>>>>
                /\ c.body.state \in CampaignState
                /\ c.body.expected \in Nat
           /\ Kind(c) = "recipient" =>
                /\ c.body.version \in Version
                /\ c.body.lead \in Leads
                /\ c.scope = <<"recipient", <<>>>>
           /\ Kind(c) = "attempt" =>
                /\ Target(c) \in Recipient
                /\ c.scope = <<"attempt", Target(c)>>
           /\ Kind(c) = "recipient-state" =>
                /\ Target(c) \in Recipient
                /\ c.scope = <<"recipient-state", Target(c)>>
                /\ c.body.state \in RecipientState
                /\ c.body.expected \in Nat
  BY DEF Command, Scope, Change, Kind, Target

\* Clients send commands.
LEMMA SentAreCommands == Sent \subseteq Command
<1> SUFFICES ASSUME NEW c \in Sent PROVE c \in Command
  OBVIOUS
<1>1. CASE \E content \in Contents : c = CreateCampaign(content)
  BY <1>1 DEF CreateCampaign, Command, Scope
<1>2. CASE \E k \in Keys, content \in Contents : c = CreateVersion(k, content)
  BY <1>2 DEF CreateVersion, Command, Scope
<1>3. CASE \E k \in Keys, n \in Version, s \in VersionState, a \in {"undefined", "given"} :
             c = ChangeVersion(k, n, s, a)
  BY <1>3 DEF ChangeVersion, Command, Scope
<1>4. CASE \E k \in Keys, s \in CampaignState, v \in 1 .. MaxQuoted :
             c = ChangeCampaign(k, s, v)
  <2>1. 1 .. MaxQuoted \subseteq Nat
    BY CampaignAssumption
  <2> QED BY <1>4, <2>1 DEF ChangeCampaign, Command, Scope, Change
<1>5. CASE \E k \in Keys, rec \in Recipient, s \in RecipientState,
             v \in 1 .. MaxQuoted : c = ChangeRecipient(k, rec, s, v)
  <2>1. 1 .. MaxQuoted \subseteq Nat
    BY CampaignAssumption
  <2> QED BY <1>5, <2>1 DEF ChangeRecipient, Command, Scope, Change
<1>6. "APROVADA" \in VersionState
  BY DEF VersionState
<1>7. \/ \E content \in Contents : c = CreateCampaign(content)
      \/ \E k \in Keys, content \in Contents : c = CreateVersion(k, content)
      \/ \E k \in Keys, n \in Version, s \in VersionState :
            c = ChangeVersion(k, n, s, "undefined")
      \/ \E k \in Keys, n \in Version : c = ChangeVersion(k, n, "APROVADA", "given")
      \/ \E k \in Keys, s \in CampaignState, v \in 1 .. MaxQuoted :
            c = ChangeCampaign(k, s, v)
      \/ \E k \in Keys, rec \in Recipient, s \in RecipientState,
            v \in 1 .. MaxQuoted : c = ChangeRecipient(k, rec, s, v)
  BY DEF Sent
<1> QED BY <1>1, <1>2, <1>3, <1>4, <1>5, <1>6, <1>7

\* A simulation is a sequence of commands.
LEMMA SimulationsAreCommands ==
    ASSUME NEW k \in Keys, NEW n \in Version, NEW leads \in Seq(Leads),
           leads # <<>>
    PROVE  /\ SimulationOf(k, n, leads) \in Seq(Command)
           /\ SimulationOf(k, n, leads) # <<>>
<1> DEFINE m == 2 * Len(leads)
<1>1. m \in Nat /\ m > 0
  BY EmptySeq
<1>2. ASSUME NEW i \in 1 .. m
      PROVE  SimulationOf(k, n, leads)[i] \in Command
  <2>1. CASE i % 2 = 1
    <3>1. (i + 1) \div 2 \in 1 .. Len(leads)
      BY <2>1
    <3>2. leads[(i + 1) \div 2] \in Leads
      BY <3>1
    <3>3. \A l \in Leads : Reserve(k, n, l) \in Command
      BY DEF Reserve, Command, Scope
    <3> QED BY <1>2, <2>1, <3>2, <3>3 DEF SimulationOf
  <2>2. CASE i % 2 # 1
    <3>1. i \div 2 \in 1 .. Len(leads)
      BY <2>2
    <3>2. leads[i \div 2] \in Leads
      BY <3>1
    <3>3. \A l \in Leads : Attempt(k, n, l) \in Command
      <4> SUFFICES ASSUME NEW l \in Leads PROVE Attempt(k, n, l) \in Command
        OBVIOUS
      <4>1. <<n, l>> \in Recipient
        BY DEF Recipient
      <4>2. <<"attempt", <<n, l>>>> \in Scope("attempt", Recipient)
        BY <4>1 DEF Scope
      <4> QED BY <4>2 DEF Attempt, Command
    <3> QED BY <1>2, <2>2, <3>2, <3>3 DEF SimulationOf
  <2> QED BY <2>1, <2>2
<1>3. SimulationOf(k, n, leads) \in [1 .. m -> Command]
  BY <1>2 DEF SimulationOf
<1>4. /\ SimulationOf(k, n, leads) \in Seq(Command)
      /\ Len(SimulationOf(k, n, leads)) = m
  BY <1>1, <1>3
<1> QED BY <1>1, <1>4

------------------------------------------------------------------------------
(* Types.                                                                  *)

\* The open transactions execute commands.
LEMMA OpenCommands ==
    ASSUME TypeOK, NEW r \in Requests, todo[r] # <<>>
    PROVE  Current(r) \in Command /\ Tail(todo[r]) \in Seq(Command)
<1>1. todo[r] \in Seq(Command)
  BY DEF TypeOK
<1> QED BY <1>1, HeadTailProperties DEF Current

\* A transaction that begins or ends keeps the types of the requests.
LEMMA RequestTypes ==
    ASSUME TypeOK, NEW r \in Requests, NEW q \in Seq(Command), q # <<>>,
           \/ Proceed(r, q)
           \/ Refuse(r)
           \/ Throw(r)
           \/ /\ phase' = [phase EXCEPT ![r] = "entered"]
              /\ todo' = [todo EXCEPT ![r] = q]
              /\ UNCHANGED read
    PROVE  /\ phase' \in [Requests -> Phase]
           /\ todo' \in [Requests -> Seq(Command)]
           /\ read' \in [Requests -> Nat]
           /\ \A p \in Requests : phase'[p] \in Open => todo'[p] # <<>>
<1>1. /\ phase \in [Requests -> Phase]
      /\ todo \in [Requests -> Seq(Command)]
      /\ read \in [Requests -> Nat]
      /\ \A p \in Requests : phase[p] \in Open => todo[p] # <<>>
      /\ Tail(q) \in Seq(Command)
      /\ <<>> \in Seq(Command)
  BY HeadTailProperties DEF TypeOK
<1>2. CASE Proceed(r, q)
  BY <1>1, <1>2 DEF Proceed, Unread, Phase, Open
<1>3. CASE Refuse(r)
  BY <1>1, <1>3 DEF Refuse, Unread, Phase, Open
<1>4. CASE Throw(r)
  BY <1>1, <1>4 DEF Throw, Unread, Phase, Open
<1>5. CASE /\ phase' = [phase EXCEPT ![r] = "entered"]
           /\ todo' = [todo EXCEPT ![r] = q]
           /\ UNCHANGED read
  BY <1>1, <1>5 DEF Phase, Open
<1> QED BY <1>2, <1>3, <1>4, <1>5

LEMMA EnterTypes ==
    ASSUME TypeOK, NEW r \in Requests, NEW q \in Seq(Command), q # <<>>,
           Enter(r, q)
    PROVE  TypeOK'
<1>1. \/ Proceed(r, q)
      \/ Refuse(r)
      \/ Throw(r)
      \/ /\ phase' = [phase EXCEPT ![r] = "entered"]
         /\ todo' = [todo EXCEPT ![r] = q]
         /\ UNCHANGED read
  BY DEF Enter
<1>2. UNCHANGED tables
  BY DEF Enter
<1> HIDE DEF TypeOK
<1>3. /\ phase' \in [Requests -> Phase]
      /\ todo' \in [Requests -> Seq(Command)]
      /\ read' \in [Requests -> Nat]
      /\ \A p \in Requests : phase'[p] \in Open => todo'[p] # <<>>
  BY <1>1, RequestTypes
<1> QED BY <1>2, <1>3 DEF TypeOK, tables

LEMMA CommitTypes ==
    ASSUME TypeOK, NEW r \in Requests, phase[r] \in Open, Commit(r)
    PROVE  /\ events' \subseteq Command
           /\ early' \subseteq Command
           /\ phase' \in [Requests -> Phase]
           /\ todo' \in [Requests -> Seq(Command)]
           /\ read' \in [Requests -> Nat]
           /\ \A p \in Requests : phase'[p] \in Open => todo'[p] # <<>>
<1>1. /\ todo[r] # <<>> /\ todo[r] \in Seq(Command)
      /\ events \subseteq Command /\ early \subseteq Command
  BY DEF TypeOK
<1>2. /\ Proceed(r, todo[r]) /\ events' = events \cup {Current(r)}
      /\ early' \subseteq early \cup {Current(r)}
  BY DEF Commit
<1>3. /\ phase' \in [Requests -> Phase]
      /\ todo' \in [Requests -> Seq(Command)]
      /\ read' \in [Requests -> Nat]
      /\ \A p \in Requests : phase'[p] \in Open => todo'[p] # <<>>
  BY <1>1, <1>2, RequestTypes
<1>4. Current(r) \in Command
  BY <1>1, OpenCommands
<1> QED BY <1>1, <1>2, <1>3, <1>4

LEMMA RefuseTypes ==
    ASSUME TypeOK, NEW r \in Requests, Refuse(r)
    PROVE  /\ phase' \in [Requests -> Phase]
           /\ todo' \in [Requests -> Seq(Command)]
           /\ read' \in [Requests -> Nat]
           /\ \A p \in Requests : phase'[p] \in Open => todo'[p] # <<>>
  BY DEF Refuse, Unread, TypeOK, Phase, Open

\* Every step keeps the types of the tables and of the requests.
LEMMA TypeInvariant == TypeOK /\ [Next]_vars => TypeOK'
<1> SUFFICES ASSUME TypeOK, [Next]_vars PROVE TypeOK'
  OBVIOUS
<1>1. ASSUME NEW r \in Requests, NEW c \in Sent, ClientCommand(r, c)
      PROVE  TypeOK'
  <2>1. c \in Command
    BY SentAreCommands
  <2>2. <<c>> \in Seq(Command) /\ <<c>> # <<>>
    BY <2>1
  <2> QED BY <1>1, <2>2, EnterTypes DEF ClientCommand, Arrives
<1>2. ASSUME NEW r \in Requests, NEW k \in Keys, NEW n \in Version,
             NEW leads \in Pages, Simulation(r, k, n, leads)
      PROVE  TypeOK'
  <2>1. leads \in Seq(Leads) /\ leads # <<>>
    BY <1>2, CampaignAssumption DEF Simulation
  <2>2. /\ SimulationOf(k, n, leads) \in Seq(Command)
        /\ SimulationOf(k, n, leads) # <<>>
    BY <2>1, SimulationsAreCommands
  <2> QED BY <1>2, <2>2, EnterTypes DEF Simulation, Arrives
<1>3. ASSUME NEW r \in Requests, NextCommand(r) PROVE TypeOK'
  <2>1. todo[r] \in Seq(Command) /\ todo[r] # <<>>
    BY <1>3 DEF NextCommand, TypeOK
  <2> QED BY <1>3, <2>1, EnterTypes DEF NextCommand
<1>4. ASSUME NEW r \in Requests, Check(r) PROVE TypeOK'
  <2>1. CASE Refuse(r)
    BY <1>4, <2>1, RefuseTypes DEF Check, tables, TypeOK
  <2>2. CASE Goto(r, "checked") /\ read' = [read EXCEPT ![r] = campaign.version]
    BY <1>4, <2>2 DEF Check, Goto, tables, TypeOK, Phase, Open
  <2> QED BY <1>4, <2>1, <2>2 DEF Check
<1>5. ASSUME NEW r \in Requests, Verify(r) PROVE TypeOK'
  <2>1. CASE Refuse(r)
    BY <1>5, <2>1, RefuseTypes DEF Verify, tables, TypeOK
  <2>2. CASE Goto(r, "verified") /\ UNCHANGED read
    BY <1>5, <2>2 DEF Verify, Goto, tables, TypeOK, Phase, Open
  <2> QED BY <1>5, <2>1, <2>2 DEF Verify
<1>6. ASSUME NEW r \in Requests, CreateCampaignWithVersion(r) PROVE TypeOK'
  <2>1. phase[r] \in Open /\ Commit(r)
    BY <1>6 DEF CreateCampaignWithVersion, Writes, Open
  <2>2. /\ campaign' \in [state : CampaignState \cup {Absent}, version : Nat]
        /\ versions' \in Seq(VersionState)
        /\ recipients' = recipients
    BY <1>6 DEF CreateCampaignWithVersion, CampaignState, VersionState
  <2> QED BY <2>1, <2>2, CommitTypes DEF TypeOK
<1>7. ASSUME NEW r \in Requests, CreateCampaignVersion(r) PROVE TypeOK'
  <2>1. phase[r] \in Open /\ Commit(r)
    BY <1>7 DEF CreateCampaignVersion, Writes, Open
  <2>2. versions \in Seq(VersionState) /\ "RASCUNHO" \in VersionState
    BY DEF TypeOK, VersionState
  <2>3. versions' \in Seq(VersionState)
    BY <1>7, <2>2 DEF CreateCampaignVersion
  <2>4. UNCHANGED <<campaign, recipients>>
    BY <1>7 DEF CreateCampaignVersion
  <2> QED BY <2>1, <2>3, <2>4, CommitTypes DEF TypeOK
<1>8. ASSUME NEW r \in Requests, TransitionCampaignVersion(r) PROVE TypeOK'
  <2>1. phase[r] \in Open /\ Commit(r)
    BY <1>8 DEF TransitionCampaignVersion, Writes, Open
  <2>2. Current(r) \in Command /\ Kind(Current(r)) = "campaign-version-state"
    BY <1>8, <2>1, OpenCommands
       DEF TransitionCampaignVersion, Writes, TypeOK
  <2>3. PICK n \in Version : Target(Current(r)) = <<n>>
    BY <2>2, Shape
  <2>4. Current(r).body.state \in VersionState
    BY <2>2, Shape
  <2>5. versions' = [versions EXCEPT ![n] = Current(r).body.state]
    BY <1>8, <2>3 DEF TransitionCampaignVersion
  <2>6. versions \in Seq(VersionState)
    BY DEF TypeOK
  <2>7. versions' \in Seq(VersionState)
    <3>1. Len(versions) \in Nat /\ versions \in [1 .. Len(versions) -> VersionState]
      BY <2>6
    <3>2. versions' \in [1 .. Len(versions) -> VersionState]
      BY <2>4, <2>5, <3>1
    <3> QED BY <3>1, <3>2
  <2>8. UNCHANGED <<campaign, recipients>>
    BY <1>8 DEF TransitionCampaignVersion
  <2> QED BY <2>1, <2>7, <2>8, CommitTypes DEF TypeOK
<1>9. ASSUME NEW r \in Requests, TransitionCampaign(r) PROVE TypeOK'
  <2>1. phase[r] \in Open
    BY <1>9 DEF TransitionCampaign, Writes, Open
  <2>2. UNCHANGED <<versions, recipients>>
    BY <1>9 DEF TransitionCampaign
  <2>3. CASE Commit(r) /\ campaign' = [state |-> Current(r).body.state,
                                       version |-> campaign.version + 1]
    <3>1. Current(r) \in Command /\ Kind(Current(r)) = "campaign-state"
      BY <1>9, <2>1, OpenCommands DEF TransitionCampaign, Writes, TypeOK
    <3>2. Current(r).body.state \in CampaignState
      BY <3>1, Shape
    <3>3. campaign' \in [state : CampaignState \cup {Absent}, version : Nat]
      BY <2>3, <3>2 DEF TypeOK
    <3> QED BY <2>1, <2>2, <2>3, <3>3, CommitTypes DEF TypeOK
  <2>4. CASE Refuse(r) /\ UNCHANGED <<campaign, events, early>>
    BY <2>2, <2>4, RefuseTypes DEF TypeOK
  <2> QED BY <1>9, <2>3, <2>4 DEF TransitionCampaign
<1>10. ASSUME NEW r \in Requests, CreateRecipient(r) PROVE TypeOK'
  <2> DEFINE rec == <<Current(r).body.version, Current(r).body.lead>>
  <2>1. phase[r] \in Open
    BY <1>10 DEF CreateRecipient, Writes, Open
  <2>2. UNCHANGED <<campaign, versions>>
    BY <1>10 DEF CreateRecipient
  <2>3. CASE Commit(r) /\ recipients' = [recipients EXCEPT ![rec] =
                                [state |-> "PENDENTE", version |-> 1]]
    <3>1. "PENDENTE" \in RecipientState
      BY DEF RecipientState
    <3>2. recipients' \in [Recipient ->
                 [state : RecipientState \cup {Absent}, version : Nat]]
      BY <2>3, <3>1 DEF TypeOK
    <3> QED BY <2>1, <2>2, <2>3, <3>2, CommitTypes DEF TypeOK
  <2>4. CASE Refuse(r) /\ UNCHANGED <<recipients, events, early>>
    BY <2>2, <2>4, RefuseTypes DEF TypeOK
  <2> QED BY <1>10, <2>3, <2>4 DEF CreateRecipient
<1>11. ASSUME NEW r \in Requests, CreateAttempt(r) PROVE TypeOK'
  <2>1. phase[r] \in Open /\ Commit(r)
    BY <1>11 DEF CreateAttempt, Writes, Open
  <2>2. UNCHANGED <<campaign, versions, recipients>>
    BY <1>11 DEF CreateAttempt
  <2> QED BY <2>1, <2>2, CommitTypes DEF TypeOK
<1>12. ASSUME NEW r \in Requests, UpdateRecipientState(r) PROVE TypeOK'
  <2>1. phase[r] \in Open /\ Commit(r)
    BY <1>12 DEF UpdateRecipientState, Writes, Open
  <2>2. Current(r) \in Command /\ Kind(Current(r)) = "recipient-state"
    BY <1>12, <2>1, OpenCommands DEF UpdateRecipientState, Writes, TypeOK
  <2>3. /\ Target(Current(r)) \in Recipient
        /\ Current(r).body.state \in RecipientState
    BY <2>2, Shape
  <2>4. recipients' \in [Recipient ->
               [state : RecipientState \cup {Absent}, version : Nat]]
    BY <1>12, <2>3 DEF UpdateRecipientState, TypeOK
  <2>5. UNCHANGED <<campaign, versions>>
    BY <1>12 DEF UpdateRecipientState
  <2> QED BY <2>1, <2>4, <2>5, CommitTypes DEF TypeOK
<1>13. ASSUME NEW r \in Requests, Stop(r) PROVE TypeOK'
  BY <1>13, RefuseTypes DEF Stop, tables, TypeOK
<1>14. CASE UNCHANGED vars
  BY <1>14 DEF vars, tables, TypeOK
<1> QED BY <1>1, <1>2, <1>3, <1>4, <1>5, <1>6, <1>7, <1>8, <1>9, <1>10,
           <1>11, <1>12, <1>13, <1>14 DEF Next

\* Type correctness of the campaign tables and of the requests.
THEOREM TypeCorrect == Spec => []TypeOK
<1>1. Init => TypeOK
  <2>1. Absent \notin {} /\ <<>> \in Seq(VersionState)
    OBVIOUS
  <2> QED BY <2>1 DEF Init, TypeOK, NoRow, Phase, Open
<1> QED BY <1>1, TypeInvariant, PTL DEF Spec

------------------------------------------------------------------------------
(* Steps, seen from the requests.                                          *)

Written == {"checked", "verified"}  \* the phases after the check

Others(r) ==
    \A q \in Requests \ {r} :
        phase'[q] = phase[q] /\ todo'[q] = todo[q] /\ read'[q] = read[q]

Begins(r) ==
    /\ phase[r] = "idle"
    /\ phase'[r] = "entered"
    /\ Recorded(Head(todo'[r])) = {}
    /\ KeyFree(Head(todo'[r]))
    /\ UNCHANGED tables

Ends(r) == phase'[r] \notin Open /\ UNCHANGED tables

Advances(r) ==
    /\ phase[r] \in Open
    /\ phase'[r] \in Written
    /\ todo'[r] = todo[r]
    /\ \/ phase[r] \in Written /\ read'[r] = read[r]
       \/ /\ phase[r] \notin Written
          /\ Acceptable(Current(r)) /\ read'[r] = campaign.version
    /\ UNCHANGED tables

Commits(r) ==
    /\ phase[r] \in Written
    /\ phase'[r] \notin Open
    /\ events' = events \cup {Current(r)}

\* A step of Enter begins a transaction or ends the request's turn.
LEMMA EnterSteps ==
    ASSUME TypeOK, NEW r \in Requests, NEW q, Enter(r, q)
    PROVE  Others(r) /\ (Begins(r) \/ Ends(r))
<1>1. /\ phase \in [Requests -> Phase]
      /\ todo \in [Requests -> Seq(Command)]
      /\ read \in [Requests -> Nat]
      /\ UNCHANGED tables
      /\ phase[r] = "idle"
      /\ KeyFree(Head(q))
  BY DEF TypeOK, Enter
<1>2. CASE /\ Recorded(Head(q)) = {}
           /\ phase' = [phase EXCEPT ![r] = "entered"]
           /\ todo' = [todo EXCEPT ![r] = q]
           /\ UNCHANGED read
  BY <1>1, <1>2 DEF Others, Begins
<1>3. CASE Proceed(r, q)
  BY <1>1, <1>3 DEF Others, Ends, Proceed, Unread, Open
<1>4. CASE Refuse(r)
  BY <1>1, <1>4 DEF Others, Ends, Refuse, Unread, Open
<1>5. CASE Throw(r)
  BY <1>1, <1>5 DEF Others, Ends, Throw, Unread, Open
<1> QED BY <1>2, <1>3, <1>4, <1>5 DEF Enter

LEMMA RefuseSteps ==
    ASSUME TypeOK, NEW r \in Requests, Refuse(r)
    PROVE  Others(r) /\ phase'[r] \notin Open
  BY DEF TypeOK, Refuse, Unread, Others, Open

LEMMA CommitSteps ==
    ASSUME TypeOK, NEW r \in Requests, NEW kind, Writes(r, kind), Commit(r)
    PROVE  Others(r) /\ Commits(r)
  BY DEF TypeOK, Writes, Commit, Proceed, Unread, Others, Commits, Written, Open

\* Every step is taken by one request, in one of four ways.
LEMMA Steps ==
    ASSUME TypeOK, Next
    PROVE  \E r \in Requests :
              Others(r) /\ (Begins(r) \/ Ends(r) \/ Advances(r) \/ Commits(r))
<1>1. ASSUME NEW r \in Requests, NEW q, Enter(r, q)
      PROVE  Others(r) /\ (Begins(r) \/ Ends(r))
  BY <1>1, EnterSteps
<1>2. ASSUME NEW r \in Requests, Check(r) \/ Verify(r) \/ Stop(r)
      PROVE  Others(r) /\ (Ends(r) \/ Advances(r))
  <2>1. UNCHANGED tables
    BY <1>2 DEF Check, Verify, Stop
  <2>2. CASE Refuse(r)
    BY <2>1, <2>2, RefuseSteps DEF Ends
  <2>3. CASE /\ Check(r) /\ Goto(r, "checked") /\ Acceptable(Current(r))
             /\ read' = [read EXCEPT ![r] = campaign.version]
    BY <2>1, <2>3 DEF Check, Goto, Others, Advances, TypeOK, Open, Written
  <2>4. CASE Verify(r) /\ Goto(r, "verified") /\ UNCHANGED read
    BY <2>1, <2>4 DEF Verify, Goto, Others, Advances, TypeOK, Open, Written
  <2> QED BY <1>2, <2>2, <2>3, <2>4 DEF Check, Verify, Stop
<1>3. ASSUME NEW r \in Requests,
             \/ CreateCampaignWithVersion(r) \/ CreateCampaignVersion(r)
             \/ TransitionCampaignVersion(r) \/ CreateAttempt(r)
             \/ UpdateRecipientState(r)
      PROVE  Others(r) /\ Commits(r)
  BY <1>3, CommitSteps
     DEF CreateCampaignWithVersion, CreateCampaignVersion,
         TransitionCampaignVersion, CreateAttempt, UpdateRecipientState
<1>4. ASSUME NEW r \in Requests, TransitionCampaign(r) \/ CreateRecipient(r)
      PROVE  Others(r) /\ (Commits(r) \/ Ends(r))
  <2>1. CASE TransitionCampaign(r)
    <3>1. CASE Commit(r)
      BY <2>1, <3>1, CommitSteps DEF TransitionCampaign
    <3>2. CASE Refuse(r) /\ UNCHANGED tables
      BY <3>2, RefuseSteps DEF Ends
    <3> QED BY <2>1, <3>1, <3>2 DEF TransitionCampaign, tables
  <2>2. CASE CreateRecipient(r)
    <3>1. CASE Commit(r)
      BY <2>2, <3>1, CommitSteps DEF CreateRecipient
    <3>2. CASE Refuse(r) /\ UNCHANGED tables
      BY <3>2, RefuseSteps DEF Ends
    <3> QED BY <2>2, <3>1, <3>2 DEF CreateRecipient, tables
  <2> QED BY <1>4, <2>1, <2>2
<1> QED
  BY <1>1, <1>2, <1>3, <1>4
     DEF Next, ClientCommand, Arrives, Simulation, NextCommand

------------------------------------------------------------------------------
(* A key takes effect once.                                                *)

\* Two open transactions never work under the same key.
KeysDistinct ==
    \A r, q \in Requests :
        r # q /\ phase[r] \in Open /\ phase[q] \in Open =>
            ~SameKey(Current(r), Current(q))

KeyInv == FirstOfItsKey /\ KeysDistinct

LEMMA KeyInvariant == TypeOK /\ KeyInv /\ [Next]_vars => KeyInv'
<1> SUFFICES ASSUME TypeOK, KeyInv, [Next]_vars PROVE KeyInv'
  OBVIOUS
<1>1. CASE UNCHANGED vars
  BY <1>1 DEF vars, tables, KeyInv, FirstOfItsKey, KeysDistinct, Recorded,
              Current
<1>2. CASE Next
  <2>1. PICK r \in Requests :
          Others(r) /\ (Begins(r) \/ Ends(r) \/ Advances(r) \/ Commits(r))
    BY <1>2, Steps
  <2>2. \A q \in Requests \ {r} : /\ phase'[q] = phase[q]
                                  /\ Current(q)' = Current(q)
    BY <2>1 DEF Others, Current
  <2>3. CASE Begins(r)
    <3>1. events' = events /\ Recorded(Current(r)') = {} /\ KeyFree(Current(r)')
      BY <2>3 DEF Begins, tables, Current
    <3>2. FirstOfItsKey'
      BY <2>2, <3>1 DEF KeyInv, FirstOfItsKey, Recorded
    <3>3. KeysDistinct'
      BY <2>2, <3>1 DEF KeyInv, KeysDistinct, KeyFree, SameKey
    <3> QED BY <3>2, <3>3 DEF KeyInv
  <2>4. CASE Ends(r)
    BY <2>2, <2>4 DEF Ends, tables, KeyInv, FirstOfItsKey, KeysDistinct,
                      Recorded
  <2>5. CASE Advances(r)
    <3>1. phase[r] \in Open /\ Current(r)' = Current(r) /\ events' = events
      BY <2>5 DEF Advances, tables, Current
    <3> QED BY <2>2, <3>1 DEF KeyInv, FirstOfItsKey, KeysDistinct, Recorded
  <2>6. CASE Commits(r)
    <3>1. /\ phase[r] \in Open
          /\ phase'[r] \notin Open
          /\ events' = events \cup {Current(r)}
      BY <2>6 DEF Commits, Written, Open
    <3>2. FirstOfItsKey'
      <4> SUFFICES ASSUME NEW q \in Requests, phase'[q] \in Open
                   PROVE  Recorded(Current(q))' = {}
        BY DEF FirstOfItsKey
      <4>1. q # r /\ phase[q] \in Open /\ Current(q)' = Current(q)
        BY <2>2, <3>1
      <4>2. Recorded(Current(q)) = {} /\ ~SameKey(Current(r), Current(q))
        BY <3>1, <4>1 DEF KeyInv, FirstOfItsKey, KeysDistinct
      <4> QED BY <3>1, <4>1, <4>2 DEF Recorded
    <3>3. KeysDistinct'
      BY <2>2, <3>1 DEF KeyInv, KeysDistinct
    <3> QED BY <3>2, <3>3 DEF KeyInv
  <2> QED BY <2>1, <2>3, <2>4, <2>5, <2>6
<1> QED BY <1>1, <1>2

\* A request past its lookup is the first of its key, for ever: no command
\* takes effect twice, and no retry is judged against its own effect.
THEOREM KeysTakeEffectOnce == Spec => []FirstOfItsKey
<1>1. Init => KeyInv
  BY DEF Init, KeyInv, FirstOfItsKey, KeysDistinct, Open
<1>2. KeyInv => FirstOfItsKey
  BY DEF KeyInv
<1> QED BY <1>1, <1>2, KeyInvariant, TypeCorrect, PTL DEF Spec

------------------------------------------------------------------------------
(* What a request has judged still holds when it writes.                   *)

\* Rows exist from their creation on, with a version from 1; the campaign is
\* created by the one event of its kind.
Existence ==
    /\ campaign.state = Absent => campaign.version = 0 /\ versions = <<>>
    /\ campaign.state # Absent =>
          campaign.version > 0 /\ \E e \in events : Kind(e) = "campaign"
    /\ \A rec \in Recipient :
          recipients[rec].state = Absent <=> recipients[rec].version = 0

\* Two transactions never hold the same row.
RowsExclusive ==
    \A r, q \in Requests :
        r # q /\ phase[r] \in Written /\ phase[q] \in Written =>
            RowsOf(Current(r)) \cap RowsOf(Current(q)) = {}

\* What was judged still holds.  The change of a campaign holds no row: it only
\* knows that there is one.
Holds(c) ==
    IF Kind(c) = "campaign-state" THEN campaign.state # Absent
                                  ELSE Acceptable(c)

Judged == \A r \in Requests : phase[r] \in Written => Holds(Current(r))

RowInv == Existence /\ RowsExclusive /\ Judged

\* Rows are as exclusive as before when no request comes to hold one.
LEMMA ExclusiveStays ==
    ASSUME RowsExclusive, NEW r \in Requests, Others(r),
           \/ phase'[r] \notin Written
           \/ phase[r] \in Written /\ todo'[r] = todo[r]
    PROVE  RowsExclusive'
  BY DEF RowsExclusive, Others, Current

\* What the others judged is untouched when their rows are.
LEMMA JudgedStays ==
    ASSUME Judged, NEW r \in Requests, Others(r), phase'[r] \notin Written,
           \A q \in Requests \ {r} :
               phase[q] \in Written /\ Holds(Current(q)) =>
                   Holds(Current(q))'
    PROVE  Judged'
<1> SUFFICES ASSUME NEW q \in Requests, phase'[q] \in Written
             PROVE  Holds(Current(q))'
  BY DEF Judged
<1>1. q # r /\ phase[q] \in Written
  BY DEF Others
<1> QED BY <1>1 DEF Judged

\* Steps of Enter, and steps that write nothing, keep the rows judged.
LEMMA ReadingSteps ==
    ASSUME TypeOK, RowInv, NEW r \in Requests, Others(r), UNCHANGED tables,
           \/ phase'[r] \notin Written
           \/ phase[r] \in Written /\ todo'[r] = todo[r]
    PROVE  Existence' /\ RowsExclusive' /\ Judged'
<1>1. Existence'
  BY DEF RowInv, Existence, tables
<1>2. RowsExclusive'
  BY ExclusiveStays DEF RowInv
<1>3. Judged'
  <2> SUFFICES ASSUME NEW q \in Requests, phase'[q] \in Written
               PROVE  Holds(Current(q))'
    BY DEF Judged
  <2>1. phase[q] \in Written /\ Current(q)' = Current(q)
    BY DEF Others, Current
  <2>2. Holds(Current(q))
    BY <2>1 DEF RowInv, Judged
  <2> QED BY <2>1, <2>2 DEF Holds, Acceptable, tables
<1> QED BY <1>1, <1>2, <1>3

\* The check of a request: it takes its row and its judgement holds.
LEMMA CheckingStep ==
    ASSUME TypeOK, RowInv, NEW r \in Requests, Check(r), Goto(r, "checked"),
           read' = [read EXCEPT ![r] = campaign.version]
    PROVE  Existence' /\ RowsExclusive' /\ Judged'
<1>1. /\ Others(r)
      /\ phase'[r] = "checked"
      /\ Current(r)' = Current(r)
      /\ UNCHANGED tables
  BY DEF Check, Goto, Others, TypeOK, Current
<1>2. \A q \in Requests \ {r} : phase'[q] = phase[q] /\ Current(q)' = Current(q)
  BY <1>1 DEF Others, Current
<1>3. Existence'
  BY <1>1 DEF RowInv, Existence, tables
<1>4. RowsExclusive'
  <2>1. RowsFree(RowsOf(Current(r)))
    BY DEF Check
  <2> QED BY <1>1, <1>2, <2>1 DEF RowsFree, RowInv, RowsExclusive, Written
<1>5. Acceptable(Current(r))
  <2>1. phase[r] = "entered" /\ phase'[r] = "checked"
    BY <1>1 DEF Check
  <2>2. ~Refuse(r)
    BY <2>1, <1>1 DEF Refuse, TypeOK
  <2> QED BY <2>2 DEF Check
<1>6. Holds(Current(r))
  BY <1>5 DEF Holds, Acceptable
<1>7. Judged'
  <2> SUFFICES ASSUME NEW q \in Requests, phase'[q] \in Written
               PROVE  Holds(Current(q))'
    BY DEF Judged
  <2>1. Holds(Current(q)) /\ Current(q)' = Current(q)
    BY <1>1, <1>2, <1>6 DEF RowInv, Judged
  <2> QED BY <1>1, <2>1 DEF Holds, Acceptable, tables
<1> QED BY <1>3, <1>4, <1>7

\* What a request that writes has judged.
LEMMA Writing ==
    ASSUME TypeOK, RowInv, NEW r \in Requests, NEW kind, Writes(r, kind),
           Commit(r)
    PROVE  /\ Current(r) \in Command
           /\ Kind(Current(r)) = kind
           /\ phase[r] \in Written
           /\ Holds(Current(r))
           /\ Others(r)
           /\ phase'[r] \notin Written
           /\ RowsExclusive'
           /\ events' = events \cup {Current(r)}
           /\ todo[r] # <<>> /\ todo'[r] = Tail(todo[r])
<1>1. phase[r] \in Written /\ Kind(Current(r)) = kind
  BY DEF Writes, Written
<1>2. todo[r] # <<>> /\ Current(r) \in Command
  BY <1>1, OpenCommands DEF TypeOK, Written, Open
<1>3. Others(r) /\ phase'[r] \notin Open /\ events' = events \cup {Current(r)}
  BY CommitSteps DEF Commits
<1>4. phase'[r] \notin Written
  BY <1>3 DEF Written, Open
<1>5. RowsExclusive'
  BY <1>3, <1>4, ExclusiveStays DEF RowInv
<1>6. todo'[r] = Tail(todo[r])
  BY DEF Commit, Proceed, TypeOK
<1> QED BY <1>1, <1>2, <1>3, <1>4, <1>5, <1>6 DEF RowInv, Judged

LEMMA EnterRows ==
    ASSUME TypeOK, RowInv, NEW r \in Requests, NEW q, Enter(r, q)
    PROVE  RowInv'
<1>1. Others(r) /\ UNCHANGED tables /\ phase'[r] \notin Written
  BY EnterSteps DEF Begins, Ends, Open, Written
<1> QED BY <1>1, ReadingSteps DEF RowInv

\* The requests' first steps, and those that only read or give up.
LEMMA ReadingRows ==
    ASSUME TypeOK, RowInv, NEW r \in Requests,
           \/ \E c \in Sent : ClientCommand(r, c)
           \/ \E k \in Keys, n \in Version, leads \in Pages :
                 Simulation(r, k, n, leads)
           \/ NextCommand(r)
           \/ Check(r)
           \/ Verify(r)
           \/ Refuse(r) /\ UNCHANGED tables
    PROVE  RowInv'
<1>1. CASE \E q : Enter(r, q)
  BY <1>1, EnterRows
<1>2. CASE Refuse(r) /\ UNCHANGED tables
  <2>1. Others(r) /\ phase'[r] \notin Written
    BY <1>2, RefuseSteps DEF Open, Written
  <2> QED BY <1>2, <2>1, ReadingSteps DEF RowInv
<1>3. CASE Check(r) /\ Goto(r, "checked")
           /\ read' = [read EXCEPT ![r] = campaign.version]
  BY <1>3, CheckingStep DEF RowInv
<1>4. CASE Verify(r) /\ Goto(r, "verified") /\ UNCHANGED read
  <2>1. UNCHANGED tables
    BY <1>4 DEF Verify
  <2>2. Others(r) /\ todo'[r] = todo[r] /\ phase[r] \in Written
    BY <1>4 DEF Verify, Goto, Others, TypeOK, Written
  <2> QED BY <2>1, <2>2, ReadingSteps DEF RowInv
<1> QED BY <1>1, <1>2, <1>3, <1>4
           DEF Check, Verify, ClientCommand, Simulation, Arrives, NextCommand

\* The campaign is created once, and nothing was judged before.
LEMMA CreationRows ==
    ASSUME TypeOK, FirstOfItsKey, RowInv, NEW r \in Requests,
           CreateCampaignWithVersion(r)
    PROVE  RowInv' /\ campaign.state = Absent
<1> DEFINE c == Current(r)
<1>1. /\ Writes(r, "campaign")
      /\ Commit(r)
      /\ campaign' = [state |-> "RASCUNHO", version |-> 1]
      /\ recipients' = recipients
  BY DEF CreateCampaignWithVersion
<1>2. /\ c \in Command /\ Kind(c) = "campaign"
      /\ phase[r] \in Written
      /\ Others(r) /\ phase'[r] \notin Written /\ RowsExclusive'
      /\ events' = events \cup {c}
      /\ todo[r] # <<>> /\ todo'[r] = Tail(todo[r])
  BY <1>1, Writing
<1>3. campaign.state = Absent
  <2> SUFFICES ASSUME campaign.state # Absent PROVE FALSE
    OBVIOUS
  <2>1. PICK e \in events : Kind(e) = "campaign"
    BY DEF RowInv, Existence
  <2>2. e \in Command
    BY DEF TypeOK
  <2>3. SameKey(e, c)
    BY <1>2, <2>1, <2>2, Shape DEF SameKey
  <2>4. Recorded(c) = {}
    BY <1>2 DEF FirstOfItsKey, Written, Open
  <2> QED BY <2>3, <2>4 DEF Recorded
<1>4. campaign.version = 0 /\ versions = <<>>
  BY <1>3 DEF RowInv, Existence
<1>5. Existence'
  BY <1>1, <1>2 DEF RowInv, Existence, Absent
<1>7. ASSUME NEW q \in Requests \ {r}, phase[q] \in Written, Holds(Current(q))
      PROVE  Holds(Current(q))'
  <2>1. Current(q)' = Current(q)
    BY <1>2 DEF Others, Current
  <2>2. Current(q) \in Command
    BY <1>7, OpenCommands DEF TypeOK, Written, Open
  <2>3. Kind(Current(q)) \notin {"campaign-version", "campaign-state",
                                 "recipient"}
    BY <1>3, <1>7 DEF Holds, Acceptable, Absent
  <2>4. Kind(Current(q)) # "campaign-version-state"
    <3> SUFFICES ASSUME Kind(Current(q)) = "campaign-version-state"
                 PROVE  FALSE
      OBVIOUS
    <3>1. PICK n \in Version : Target(Current(q)) = <<n>>
      BY <2>2, Shape
    <3>2. n <= Len(versions)
      BY <1>7, <3>1 DEF Holds, Acceptable
    <3> QED BY <1>4, <3>2 DEF Version
  <2> QED BY <1>1, <1>7, <2>1, <2>3, <2>4 DEF Holds, Acceptable
<1>8. Judged'
  BY <1>2, <1>7, JudgedStays DEF RowInv
<1> QED BY <1>2, <1>3, <1>5, <1>8 DEF RowInv

LEMMA VersionRows ==
    ASSUME TypeOK, RowInv, NEW r \in Requests, CreateCampaignVersion(r)
    PROVE  RowInv' /\ campaign.state = "RASCUNHO"
<1> DEFINE c == Current(r)
<1>1. /\ Writes(r, "campaign-version")
      /\ Commit(r)
      /\ versions' = Append(versions, "RASCUNHO")
      /\ UNCHANGED <<campaign, recipients>>
  BY DEF CreateCampaignVersion
<1>2. /\ Kind(c) = "campaign-version" /\ Holds(c)
      /\ Others(r) /\ phase'[r] \notin Written /\ RowsExclusive'
      /\ events' = events \cup {c}
      /\ todo[r] # <<>> /\ todo'[r] = Tail(todo[r])
  BY <1>1, Writing
<1>3. campaign.state = "RASCUNHO" /\ campaign.version \in Nat
  BY <1>2 DEF Holds, Acceptable, TypeOK
<1>4. Existence'
  BY <1>1, <1>2, <1>3 DEF RowInv, Existence, Absent
<1>6. /\ versions \in Seq(VersionState)
      /\ Len(versions') = Len(versions) + 1
      /\ \A n \in 1 .. Len(versions) : versions'[n] = versions[n]
  BY <1>1 DEF TypeOK
<1>7. ASSUME NEW q \in Requests \ {r}, phase[q] \in Written, Holds(Current(q))
      PROVE  Holds(Current(q))'
  <2>1. Current(q)' = Current(q)
    BY <1>2 DEF Others, Current
  <2>2. CASE Kind(Current(q)) = "campaign-version-state"
    <3>1. Current(q) \in Command
      BY <1>7, OpenCommands DEF TypeOK, Written, Open
    <3>2. PICK n \in Version : Target(Current(q)) = <<n>>
      BY <2>2, <3>1, Shape
    <3>3. n \in 1 .. Len(versions) /\ n <= Len(versions')
      BY <1>6, <1>7, <2>2, <3>2 DEF Holds, Acceptable, Version
    <3> QED BY <1>6, <1>7, <2>1, <2>2, <3>2, <3>3 DEF Holds, Acceptable
  <2>3. CASE Kind(Current(q)) # "campaign-version-state"
    BY <1>1, <1>7, <2>1, <2>3 DEF Holds, Acceptable
  <2> QED BY <2>2, <2>3
<1>8. Judged'
  BY <1>2, <1>7, JudgedStays DEF RowInv
<1> QED BY <1>2, <1>3, <1>4, <1>8 DEF RowInv

LEMMA VersionStateRows ==
    ASSUME TypeOK, RowInv, NEW r \in Requests, TransitionCampaignVersion(r)
    PROVE  /\ RowInv'
           /\ \E n \in DOMAIN versions :
                 /\ Current(r).body.state \in
                       campaignVersionTransitionGraph[versions[n]]
                 /\ versions' = [versions EXCEPT ![n] = Current(r).body.state]
<1> DEFINE c == Current(r)
<1>1. /\ Writes(r, "campaign-version-state")
      /\ Commit(r)
      /\ versions' = [versions EXCEPT ![Target(c)[1]] = c.body.state]
      /\ UNCHANGED <<campaign, recipients>>
  BY DEF TransitionCampaignVersion
<1>2. /\ c \in Command
      /\ Kind(c) = "campaign-version-state" /\ Holds(c)
      /\ phase[r] \in Written
      /\ Others(r) /\ phase'[r] \notin Written /\ RowsExclusive'
      /\ events' = events \cup {c}
      /\ todo[r] # <<>> /\ todo'[r] = Tail(todo[r])
  BY <1>1, Writing
<1>3. PICK n \in Version : Target(c) = <<n>>
  BY <1>2, Shape
<1>4. /\ versions \in Seq(VersionState)
      /\ campaign.version \in Nat
      /\ n \in 1 .. Len(versions)
      /\ c.body.state \in campaignVersionTransitionGraph[versions[n]]
      /\ versions' = [versions EXCEPT ![n] = c.body.state]
  BY <1>1, <1>2, <1>3 DEF Holds, Acceptable, TypeOK, Version
<1>5. versions # <<>>
  BY <1>4
<1>6. Existence'
  BY <1>1, <1>2, <1>5 DEF RowInv, Existence
<1>8. ASSUME NEW q \in Requests \ {r}, phase[q] \in Written, Holds(Current(q))
      PROVE  Holds(Current(q))'
  <2>1. Current(q)' = Current(q)
    BY <1>2 DEF Others, Current
  <2>2. CASE Kind(Current(q)) = "campaign-version-state"
    <3>1. Current(q) \in Command
      BY <1>8, OpenCommands DEF TypeOK, Written, Open
    <3>2. PICK m \in Version : Target(Current(q)) = <<m>>
      BY <2>2, <3>1, Shape
    <3>3. m # n
      <4>1. RowsOf(c) \cap RowsOf(Current(q)) = {}
        BY <1>2, <1>8 DEF RowInv, RowsExclusive
      <4>2. RowsOf(c) = {c.scope} /\ RowsOf(Current(q)) = {Current(q).scope}
        BY <1>2, <2>2 DEF RowsOf
      <4>3. /\ c.scope = <<"campaign-version-state", <<n>>>>
            /\ Current(q).scope = <<"campaign-version-state", <<m>>>>
        BY <1>2, <1>3, <2>2, <3>1, <3>2, Shape
      <4> QED BY <4>1, <4>2, <4>3
    <3>4. versions'[m] = versions[m] /\ Len(versions') = Len(versions)
      BY <1>4, <3>3
    <3> QED BY <1>8, <2>1, <2>2, <3>2, <3>4 DEF Holds, Acceptable
  <2>3. CASE Kind(Current(q)) # "campaign-version-state"
    BY <1>1, <1>8, <2>1, <2>3 DEF Holds, Acceptable
  <2> QED BY <2>2, <2>3
<1>9. Judged'
  BY <1>2, <1>8, JudgedStays DEF RowInv
<1>10. n \in DOMAIN versions
  BY <1>4
<1>11. RowInv'
  BY <1>2, <1>6, <1>9 DEF RowInv
<1> QED BY <1>4, <1>10, <1>11

LEMMA CampaignStateRows ==
    ASSUME TypeOK, RowInv, NEW r \in Requests, TransitionCampaign(r)
    PROVE  /\ RowInv'
           /\ \/ Refuse(r) /\ UNCHANGED tables
              \/ /\ campaign.state # Absent
                 /\ Current(r).body.expected = campaign.version
                 /\ phase[r] \in Written
                 /\ campaign' = [state |-> Current(r).body.state,
                                 version |-> campaign.version + 1]
                 /\ UNCHANGED <<versions, recipients>>
<1> DEFINE c == Current(r)
<1>1. CASE Refuse(r) /\ UNCHANGED tables
  BY <1>1, ReadingRows
<1>2. CASE Writes(r, "campaign-state") /\ Commit(r)
           /\ campaign.version = c.body.expected
           /\ RowsFree({<<"campaign", <<>>>>})
           /\ campaign' = [state |-> c.body.state,
                           version |-> campaign.version + 1]
           /\ UNCHANGED <<versions, recipients>>
  <2>1. /\ c \in Command
        /\ Kind(c) = "campaign-state" /\ Holds(c)
        /\ phase[r] \in Written
        /\ Others(r) /\ phase'[r] \notin Written /\ RowsExclusive'
        /\ events' = events \cup {c}
        /\ todo[r] # <<>> /\ todo'[r] = Tail(todo[r])
    BY <1>2, Writing
  <2>2. /\ campaign.version \in Nat
        /\ campaign.state # Absent
    BY <1>2, <2>1 DEF Holds, TypeOK
  <2>3. campaign'.version = campaign.version + 1 /\ campaign'.version \in Nat
    BY <1>2, <2>2
  <2>4. c.body.state # Absent
    BY <2>1, Shape DEF CampaignState, Absent
  <2>5. Existence'
    BY <1>2, <2>1, <2>2, <2>3, <2>4 DEF RowInv, Existence
  <2>7. ASSUME NEW q \in Requests \ {r}, phase[q] \in Written,
               Holds(Current(q))
        PROVE  Holds(Current(q))'
    <3>1. Current(q)' = Current(q)
      BY <2>1 DEF Others, Current
    <3>2. RowsOf(Current(q)) \cap {<<"campaign", <<>>>>} = {}
      BY <1>2, <2>7 DEF RowsFree, Written
    <3>3. Kind(Current(q)) \notin {"campaign-version", "recipient"}
      BY <3>2 DEF RowsOf
    <3>4. CASE Kind(Current(q)) = "campaign-state"
      BY <1>2, <2>4, <3>1, <3>4 DEF Holds
    <3>5. CASE Kind(Current(q)) # "campaign-state"
      BY <1>2, <2>7, <3>1, <3>3, <3>5 DEF Holds, Acceptable
    <3> QED BY <3>4, <3>5
  <2>8. Judged'
    BY <2>1, <2>7, JudgedStays DEF RowInv
  <2>9. RowInv'
    BY <2>1, <2>5, <2>8 DEF RowInv
  <2> QED BY <1>2, <2>1, <2>2, <2>9
<1> QED BY <1>1, <1>2 DEF TransitionCampaign, tables

LEMMA RecipientRows ==
    ASSUME TypeOK, RowInv, NEW r \in Requests, CreateRecipient(r)
    PROVE  /\ RowInv'
           /\ UNCHANGED recipients \/ campaign.state = "ATIVA"
<1> DEFINE c == Current(r)
           rec == <<c.body.version, c.body.lead>>
<1>1. CASE Refuse(r) /\ UNCHANGED tables
  BY <1>1, ReadingRows DEF tables
<1>2. CASE /\ Writes(r, "recipient") /\ Commit(r)
           /\ recipients[rec].state = Absent
           /\ recipients' = [recipients EXCEPT ![rec] =
                                [state |-> "PENDENTE", version |-> 1]]
           /\ UNCHANGED <<campaign, versions>>
  <2>1. /\ c \in Command
        /\ Kind(c) = "recipient" /\ Holds(c)
        /\ Others(r) /\ phase'[r] \notin Written /\ RowsExclusive'
        /\ events' = events \cup {c}
        /\ todo[r] # <<>> /\ todo'[r] = Tail(todo[r])
    BY <1>2, Writing
  <2>2. campaign.state = "ATIVA" /\ campaign.version \in Nat
    BY <2>1 DEF Holds, Acceptable, TypeOK
  <2>3. \A x \in Recipient :
            IF x = rec
            THEN recipients'[x] = [state |-> "PENDENTE", version |-> 1]
            ELSE recipients'[x] = recipients[x]
    BY <1>2 DEF TypeOK
  <2>4. Existence'
    <3>1. \A x \in Recipient :
              recipients'[x].state = Absent <=> recipients'[x].version = 0
      BY <2>3 DEF RowInv, Existence, Absent
    <3> QED BY <1>2, <2>1, <3>1 DEF RowInv, Existence
  <2>6. ASSUME NEW q \in Requests \ {r}, phase[q] \in Written,
               Holds(Current(q))
        PROVE  Holds(Current(q))'
    <3>1. Current(q)' = Current(q)
      BY <2>1 DEF Others, Current
    <3>2. Current(q) \in Command
      BY <2>6, OpenCommands DEF TypeOK, Written, Open
    <3>3. CASE Kind(Current(q)) \in {"attempt", "recipient-state"}
      <4>1. Target(Current(q)) \in Recipient
        BY <3>2, <3>3, Shape
      <4>2. recipients[Target(Current(q))].state # Absent
        BY <2>6, <3>3 DEF Holds, Acceptable
      <4>3. recipients'[Target(Current(q))] = recipients[Target(Current(q))]
        BY <1>2, <2>3, <4>1, <4>2
      <4> QED BY <2>6, <3>1, <3>3, <4>3 DEF Holds, Acceptable
    <3>4. CASE Kind(Current(q)) \notin {"attempt", "recipient-state"}
      BY <1>2, <2>6, <3>1, <3>4 DEF Holds, Acceptable
    <3> QED BY <3>3, <3>4
  <2>7. Judged'
    BY <2>1, <2>6, JudgedStays DEF RowInv
  <2>8. RowInv'
    BY <2>1, <2>4, <2>7 DEF RowInv
  <2> QED BY <2>2, <2>8
<1> QED BY <1>1, <1>2 DEF CreateRecipient, tables

LEMMA AttemptRows ==
    ASSUME TypeOK, RowInv, NEW r \in Requests, CreateAttempt(r)
    PROVE  RowInv'
<1> DEFINE c == Current(r)
<1>1. /\ Writes(r, "attempt") /\ Commit(r)
      /\ UNCHANGED <<campaign, versions, recipients>>
  BY DEF CreateAttempt
<1>2. /\ Others(r) /\ phase'[r] \notin Written /\ RowsExclusive'
      /\ events' = events \cup {c}
      /\ todo[r] # <<>> /\ todo'[r] = Tail(todo[r])
  BY <1>1, Writing
<1>3. campaign' = campaign /\ campaign.version \in Nat
  BY <1>1 DEF TypeOK
<1>4. Existence'
  BY <1>1, <1>2 DEF RowInv, Existence
<1>6. ASSUME NEW q \in Requests \ {r}, phase[q] \in Written, Holds(Current(q))
      PROVE  Holds(Current(q))'
  <2>1. Current(q)' = Current(q)
    BY <1>2 DEF Others, Current
  <2> QED BY <1>1, <1>6, <2>1 DEF Holds, Acceptable
<1>7. Judged'
  BY <1>2, <1>6, JudgedStays DEF RowInv
<1> QED BY <1>2, <1>4, <1>7 DEF RowInv

LEMMA RecipientStateRows ==
    ASSUME TypeOK, RowInv, NEW r \in Requests, UpdateRecipientState(r)
    PROVE  /\ RowInv'
           /\ Target(Current(r)) \in Recipient
           /\ Kind(Current(r)) = "recipient-state"
           /\ Holds(Current(r))
<1> DEFINE c == Current(r)
           rec == Target(c)
<1>1. /\ Writes(r, "recipient-state") /\ Commit(r)
      /\ recipients' = [recipients EXCEPT ![rec] =
                          [state |-> c.body.state, version |-> @.version + 1]]
      /\ UNCHANGED <<campaign, versions>>
  BY DEF UpdateRecipientState
<1>2. /\ c \in Command
      /\ Kind(c) = "recipient-state" /\ Holds(c)
      /\ phase[r] \in Written
      /\ Others(r) /\ phase'[r] \notin Written /\ RowsExclusive'
      /\ events' = events \cup {c}
      /\ todo[r] # <<>> /\ todo'[r] = Tail(todo[r])
  BY <1>1, Writing
<1>3. /\ rec \in Recipient
      /\ c.scope = <<"recipient-state", rec>>
      /\ c.body.state \in RecipientState
  BY <1>2, Shape
<1>4. campaign' = campaign /\ campaign.version \in Nat
  BY <1>1 DEF TypeOK
<1>5. /\ recipients'[rec].state = c.body.state
      /\ recipients'[rec].version = recipients[rec].version + 1
      /\ \A x \in Recipient \ {rec} : recipients'[x] = recipients[x]
  BY <1>1, <1>3 DEF TypeOK
<1>6. Existence'
  <2>1. \A x \in Recipient : recipients[x].version \in Nat
    BY DEF TypeOK
  <2>2. c.body.state # Absent
    BY <1>3 DEF RecipientState, Absent
  <2>3. ASSUME NEW x \in Recipient
        PROVE  recipients'[x].state = Absent <=> recipients'[x].version = 0
    <3>1. CASE x = rec
      <4>1. recipients'[x].state # Absent
        BY <1>5, <2>2, <3>1
      <4>2. recipients'[x].version = recipients[x].version + 1
        BY <1>5, <3>1
      <4> QED BY <2>1, <4>1, <4>2
    <3>2. CASE x # rec
      BY <1>5, <3>2 DEF RowInv, Existence
    <3> QED BY <3>1, <3>2
  <2> QED BY <1>1, <1>2, <2>3 DEF RowInv, Existence
<1>8. ASSUME NEW q \in Requests \ {r}, phase[q] \in Written, Holds(Current(q))
      PROVE  Holds(Current(q))'
  <2>1. Current(q)' = Current(q)
    BY <1>2 DEF Others, Current
  <2>2. Current(q) \in Command
    BY <1>8, OpenCommands DEF TypeOK, Written, Open
  <2>3. CASE Kind(Current(q)) = "recipient-state"
    <3>1. /\ Target(Current(q)) \in Recipient
          /\ Current(q).scope = <<"recipient-state", Target(Current(q))>>
      BY <2>2, <2>3, Shape
    <3>2. Target(Current(q)) # rec
      <4>1. RowsOf(c) \cap RowsOf(Current(q)) = {}
        BY <1>2, <1>8 DEF RowInv, RowsExclusive
      <4>2. RowsOf(c) = {c.scope} /\ RowsOf(Current(q)) = {Current(q).scope}
        BY <1>2, <2>3 DEF RowsOf
      <4> QED BY <1>3, <3>1, <4>1, <4>2
    <3>3. recipients'[Target(Current(q))] = recipients[Target(Current(q))]
      BY <1>5, <3>1, <3>2
    <3> QED BY <1>8, <2>1, <2>3, <3>3 DEF Holds, Acceptable
  <2>4. CASE Kind(Current(q)) = "attempt"
    <3>1. Target(Current(q)) \in Recipient
      BY <2>2, <2>4, Shape
    <3>2. recipients[Target(Current(q))].state # Absent
      BY <1>8, <2>4 DEF Holds, Acceptable
    <3>3. recipients'[Target(Current(q))].state # Absent
      <4>1. CASE Target(Current(q)) = rec
        <5>1. recipients'[Target(Current(q))].state = c.body.state
          BY <1>5, <3>1, <4>1
        <5> QED BY <1>3, <5>1 DEF RecipientState, Absent
      <4>2. CASE Target(Current(q)) # rec
        BY <1>5, <3>1, <3>2, <4>2
      <4> QED BY <4>1, <4>2
    <3> QED BY <2>1, <2>4, <3>3 DEF Holds, Acceptable
  <2>5. CASE Kind(Current(q)) \notin {"recipient-state", "attempt"}
    BY <1>1, <1>8, <2>1, <2>5 DEF Holds, Acceptable
  <2> QED BY <2>3, <2>4, <2>5
<1>9. Judged'
  BY <1>2, <1>8, JudgedStays DEF RowInv
<1>10. RowInv'
  BY <1>2, <1>6, <1>9 DEF RowInv
<1> QED BY <1>2, <1>3, <1>10

LEMMA RowInvariant ==
    ASSUME TypeOK, FirstOfItsKey, RowInv, [Next]_vars
    PROVE  RowInv'
<1>1. CASE UNCHANGED vars
  <2>1. UNCHANGED tables /\ phase' = phase /\ todo' = todo
    BY <1>1 DEF vars
  <2> QED BY <2>1 DEF tables, RowInv, Existence, RowsExclusive,
                      Judged, Holds, Acceptable, Current
<1>2. ASSUME NEW r \in Requests,
             \/ \E c \in Sent : ClientCommand(r, c)
             \/ \E k \in Keys, n \in Version, leads \in Pages :
                   Simulation(r, k, n, leads)
             \/ NextCommand(r)
             \/ Check(r)
             \/ Verify(r)
             \/ Stop(r)
      PROVE  RowInv'
  BY <1>2, ReadingRows DEF Stop
<1>3. ASSUME NEW r \in Requests,
             \/ CreateCampaignWithVersion(r)
             \/ CreateCampaignVersion(r)
             \/ TransitionCampaignVersion(r)
             \/ TransitionCampaign(r)
      PROVE  RowInv'
  BY <1>3, CreationRows, VersionRows, VersionStateRows, CampaignStateRows
<1>4. ASSUME NEW r \in Requests,
             \/ CreateRecipient(r)
             \/ CreateAttempt(r)
             \/ UpdateRecipientState(r)
      PROVE  RowInv'
  BY <1>4, RecipientRows, AttemptRows, RecipientStateRows
<1> QED BY <1>1, <1>2, <1>3, <1>4 DEF Next

\* What holds whenever a step is taken.
THEOREM RowsJudged == Spec => [](TypeOK /\ FirstOfItsKey /\ RowInv)
<1>1. Init => RowInv
  BY DEF Init, RowInv, Existence, RowsExclusive, Judged, Written,
         NoRow, Absent
<1> QED BY <1>1, RowInvariant, TypeCorrect, KeysTakeEffectOnce, PTL DEF Spec

\* The steps that only read.
LEMMA ReadingOnly ==
    ASSUME NEW r \in Requests,
           \/ \E c \in Sent : ClientCommand(r, c)
           \/ \E k \in Keys, n \in Version, leads \in Pages :
                 Simulation(r, k, n, leads)
           \/ NextCommand(r)
           \/ Check(r)
           \/ Verify(r)
           \/ Stop(r)
    PROVE  UNCHANGED tables
<1>1. CASE \E q : Enter(r, q)
  BY <1>1 DEF Enter
<1>2. CASE Check(r) \/ Verify(r) \/ Stop(r)
  BY <1>2 DEF Check, Verify, Stop
<1> QED BY <1>1, <1>2 DEF ClientCommand, Simulation, Arrives, NextCommand

\* The steps that touch neither the campaign nor a version nor a recipient.
LEMMA QuietSteps ==
    ASSUME NEW r \in Requests,
           \/ \E c \in Sent : ClientCommand(r, c)
           \/ \E k \in Keys, n \in Version, leads \in Pages :
                 Simulation(r, k, n, leads)
           \/ NextCommand(r)
           \/ Check(r)
           \/ Verify(r)
           \/ Stop(r)
           \/ CreateAttempt(r)
    PROVE  UNCHANGED <<campaign, versions, recipients>>
<1>1. CASE CreateAttempt(r)
  BY <1>1 DEF CreateAttempt
<1>2. CASE UNCHANGED tables
  BY <1>2 DEF tables
<1> QED BY <1>1, <1>2, ReadingOnly

\* No version is added to a campaign that left the draft, whatever overlaps.
THEOREM VersionsFixedAfterDraft == Spec => VersionsAddedToDraftsOnly
<1>1. ASSUME TypeOK, FirstOfItsKey, RowInv, [Next]_vars,
             Len(versions') > Len(versions)
      PROVE  campaign'.state = "RASCUNHO"
  <2>1. versions' # versions
    <3>1. versions \in Seq(VersionState)
      BY <1>1 DEF TypeOK
    <3> QED BY <1>1, <3>1
  <2>2. PICK r \in Requests :
            \/ CreateCampaignWithVersion(r)
            \/ CreateCampaignVersion(r)
            \/ TransitionCampaignVersion(r)
    BY <1>1, <2>1, QuietSteps DEF Next, vars, tables, TransitionCampaign,
       CreateRecipient, UpdateRecipientState
  <2>3. CASE CreateCampaignWithVersion(r)
    BY <2>3 DEF CreateCampaignWithVersion
  <2>4. CASE CreateCampaignVersion(r)
    BY <1>1, <2>4, VersionRows DEF CreateCampaignVersion
  <2>5. CASE TransitionCampaignVersion(r)
    <3>1. versions \in Seq(VersionState)
          /\ \E n \in DOMAIN versions :
                versions' = [versions EXCEPT ![n] = Current(r).body.state]
      BY <1>1, <2>5, VersionStateRows DEF TypeOK
    <3>2. Len(versions') = Len(versions)
      BY <3>1
    <3>3. Len(versions) \in Nat
      BY <3>1
    <3> QED BY <1>1, <3>2, <3>3
  <2> QED BY <2>2, <2>3, <2>4, <2>5
<1> QED BY <1>1, RowsJudged, PTL DEF Spec, VersionsAddedToDraftsOnly

\* Every change of a version follows its graph, two commands at once included.
THEOREM VersionGraphFollowed == Spec => VersionsFollowTheGraph
<1>1. ASSUME TypeOK, FirstOfItsKey, RowInv, [Next]_vars,
             NEW n \in DOMAIN versions, versions'[n] # versions[n]
      PROVE  versions'[n] \in campaignVersionTransitionGraph[versions[n]]
  <2>1. PICK r \in Requests :
            \/ CreateCampaignWithVersion(r)
            \/ CreateCampaignVersion(r)
            \/ TransitionCampaignVersion(r)
    BY <1>1, QuietSteps DEF Next, vars, tables, TransitionCampaign,
       CreateRecipient, UpdateRecipientState
  <2>2. versions \in Seq(VersionState)
    BY <1>1 DEF TypeOK
  <2>3. CASE CreateCampaignWithVersion(r)
    <3>1. versions = <<>>
      BY <1>1, <2>3, CreationRows DEF RowInv, Existence
    <3> QED BY <3>1
  <2>4. CASE CreateCampaignVersion(r)
    <3>1. versions'[n] = versions[n]
      BY <2>2, <2>4 DEF CreateCampaignVersion
    <3> QED BY <1>1, <3>1
  <2>5. CASE TransitionCampaignVersion(r)
    <3>1. PICK m \in DOMAIN versions :
              /\ Current(r).body.state \in
                    campaignVersionTransitionGraph[versions[m]]
              /\ versions' = [versions EXCEPT ![m] = Current(r).body.state]
      BY <1>1, <2>5, VersionStateRows
    <3>2. n = m
      BY <1>1, <3>1
    <3> QED BY <3>1, <3>2
  <2> QED BY <2>1, <2>3, <2>4, <2>5
<1>2. TypeOK /\ FirstOfItsKey /\ RowInv /\ [Next]_vars =>
        [\A n \in DOMAIN versions :
            versions'[n] # versions[n] =>
               versions'[n] \in campaignVersionTransitionGraph[versions[n]]]_vars
  BY <1>1
<1> QED BY <1>2, RowsJudged, PTL DEF Spec, VersionsFollowTheGraph

\* A reservation is made only while the campaign is active.
THEOREM ReservationsWhileActive == Spec => ReservedWhileActive
<1>1. ASSUME TypeOK, FirstOfItsKey, RowInv, [Next]_vars,
             NEW rec \in Recipient,
             recipients[rec].state = Absent,
             recipients'[rec].state # Absent
      PROVE  campaign.state = "ATIVA"
  <2>1. PICK r \in Requests : CreateRecipient(r) \/ UpdateRecipientState(r)
    BY <1>1, QuietSteps DEF Next, vars, tables, CreateCampaignWithVersion,
       CreateCampaignVersion, TransitionCampaignVersion, TransitionCampaign
  <2>2. CASE CreateRecipient(r)
    BY <1>1, <2>2, RecipientRows
  <2>3. CASE UpdateRecipientState(r)
    <3>1. /\ Target(Current(r)) \in Recipient
          /\ recipients[Target(Current(r))].state # Absent
      BY <1>1, <2>3, RecipientStateRows DEF Holds, Acceptable
    <3>2. recipients'[rec] = recipients[rec]
      BY <1>1, <2>3, <3>1 DEF UpdateRecipientState, TypeOK
    <3> QED BY <1>1, <3>2
  <2> QED BY <2>1, <2>2, <2>3
<1>2. TypeOK /\ FirstOfItsKey /\ RowInv /\ [Next]_vars =>
        [\A rec \in Recipient :
            /\ recipients[rec].state = Absent
            /\ recipients'[rec].state # Absent
            => campaign.state = "ATIVA"]_vars
  BY <1>1
<1> QED BY <1>2, RowsJudged, PTL DEF Spec, ReservedWhileActive

------------------------------------------------------------------------------
(* The audit of a row is its history.                                      *)

\* The change with expected version v is the one that led to version v + 1.
LEMMA ChangeLeadsTo ==
    ASSUME NEW changes, NEW e \in changes, NEW initial, NEW v,
           \A f, g \in changes : f.body.expected = g.body.expected => f = g,
           e.body.expected = v - 1, v # 1
    PROVE  StateAt(changes, initial, v) = e.body.state
  BY DEF StateAt

\* A change made under the version of its row leaves what the history says of
\* the versions up to that one.
LEMMA HistoryKept ==
    ASSUME NEW changes, NEW row, NEW initial, NEW graph, NEW doubt, NEW e,
           History(changes, row, initial, graph, doubt),
           row.version \in Nat \ {0}, e.body.expected = row.version
    PROVE  \A w \in 1 .. row.version :
              StateAt(changes \cup {e}, initial, w) =
                 StateAt(changes, initial, w)
<1> DEFINE S == changes \cup {e}
           v == row.version
<1>1. /\ {f.body.expected : f \in changes} = 1 .. v - 1
      /\ \A f, g \in changes : f.body.expected = g.body.expected => f = g
  BY DEF History
<1>2. \A f \in changes : f.body.expected \in 1 .. v - 1
  BY <1>1
<1>3. \A f, g \in S : f.body.expected = g.body.expected => f = g
  <2>1. \A f \in changes : f.body.expected # e.body.expected
    BY <1>2
  <2> QED BY <1>1, <2>1
<1>4. ASSUME NEW w \in 1 .. v
      PROVE  StateAt(S, initial, w) = StateAt(changes, initial, w)
  <2>1. CASE w = 1
    BY <2>1 DEF StateAt
  <2>2. CASE w # 1
    <3>1. w - 1 \in 1 .. v - 1
      BY <2>2
    <3>2. PICK f \in changes : f.body.expected = w - 1
      BY <1>1, <3>1
    <3>3. StateAt(changes, initial, w) = f.body.state
      BY <1>1, <2>2, <3>2, ChangeLeadsTo
    <3>4. f \in S
      OBVIOUS
    <3>5. StateAt(S, initial, w) = f.body.state
      <4> HIDE DEF S
      <4> QED BY <1>3, <2>2, <3>2, <3>4, ChangeLeadsTo
    <3> QED BY <3>3, <3>5
  <2> QED BY <2>1, <2>2
<1> QED BY <1>4

\* A change made under the version of its row extends the history.
LEMMA HistoryGrows ==
    ASSUME NEW changes, NEW row, NEW initial, NEW graph, NEW doubt,
           NEW e, NEW next, NEW doubts,
           History(changes, row, initial, graph, doubt), doubt \subseteq doubts,
           row.version \in Nat \ {0}, row.state # Absent,
           e.body.expected = row.version,
           \E w \in 1 .. row.version :
              /\ e.body.state \in graph[StateAt(changes, initial, w)]
              /\ e \notin doubts => w = row.version,
           next.state = e.body.state,
           next.version = row.version + 1
    PROVE  History(changes \cup {e}, next, initial, graph, doubts)
<1> DEFINE S == changes \cup {e}
           v == row.version
<1>1. /\ {f.body.expected : f \in changes} = 1 .. v - 1
      /\ \A f, g \in changes : f.body.expected = g.body.expected => f = g
      /\ \A f \in changes : \E w \in 1 .. f.body.expected :
            /\ f.body.state \in graph[StateAt(changes, initial, w)]
            /\ f \notin doubt => w = f.body.expected
      /\ row.state = StateAt(changes, initial, v)
  BY DEF History
<1>2. \A f \in changes : f.body.expected \in 1 .. v - 1
  BY <1>1
<1>3. {f.body.expected : f \in S} = 1 .. next.version - 1
  <2>1. {f.body.expected : f \in S} =
            {f.body.expected : f \in changes} \cup {e.body.expected}
    OBVIOUS
  <2>2. 1 .. next.version - 1 = (1 .. v - 1) \cup {v}
    OBVIOUS
  <2> QED BY <1>1, <2>1, <2>2
<1>4. \A f, g \in S : f.body.expected = g.body.expected => f = g
  <2>1. \A f \in changes : f.body.expected # e.body.expected
    BY <1>2
  <2> QED BY <1>1, <2>1
<1>5. \A w \in 1 .. v : StateAt(S, initial, w) = StateAt(changes, initial, w)
  BY HistoryKept
<1>6. \A f \in S : \E w \in 1 .. f.body.expected :
          /\ f.body.state \in graph[StateAt(S, initial, w)]
          /\ f \notin doubts => w = f.body.expected
  <2>1. ASSUME NEW f \in changes
        PROVE  \E w \in 1 .. f.body.expected :
                  /\ f.body.state \in graph[StateAt(S, initial, w)]
                  /\ f \notin doubts => w = f.body.expected
    <3>1. PICK w \in 1 .. f.body.expected :
              /\ f.body.state \in graph[StateAt(changes, initial, w)]
              /\ f \notin doubt => w = f.body.expected
      BY <1>1
    <3>2. w \in 1 .. v
      BY <1>2
    <3>3. StateAt(S, initial, w) = StateAt(changes, initial, w)
      BY <1>5, <3>2
    <3> HIDE DEF S
    <3> QED BY <3>1, <3>3
  <2>2. \E w \in 1 .. e.body.expected :
            /\ e.body.state \in graph[StateAt(S, initial, w)]
            /\ e \notin doubts => w = e.body.expected
    <3>1. PICK judged \in 1 .. v :
              /\ e.body.state \in graph[StateAt(changes, initial, judged)]
              /\ e \notin doubts => judged = v
      OBVIOUS
    <3>2. StateAt(S, initial, judged) = StateAt(changes, initial, judged)
      BY <1>5
    <3> HIDE DEF S
    <3> QED BY <3>1, <3>2
  <2> HIDE DEF StateAt
  <2> QED BY <2>1, <2>2
<1>7. next.state = StateAt(S, initial, next.version)
  <2>1. e \in S /\ e.body.expected = next.version - 1 /\ next.version # 1
    OBVIOUS
  <2> HIDE DEF S
  <2> QED BY <1>4, <2>1, ChangeLeadsTo
<1> HIDE DEF S
<1>8. History(S, next, initial, graph, doubts)
  BY <1>3, <1>4, <1>6, <1>7 DEF History
<1> QED BY <1>8 DEF S

\* The history of a row begins when it is inserted.
LEMMA HistoryBegins ==
    ASSUME NEW changes, NEW row, NEW initial, NEW graph, NEW doubt,
           NEW next, History(changes, row, initial, graph, doubt),
           row.version = 0, next.version = 1, next.state = initial
    PROVE  History(changes, next, initial, graph, doubt)
<1>1. {f.body.expected : f \in changes} = {}
  BY DEF History
<1>2. changes = {}
  BY <1>1
<1>3. {f.body.expected : f \in changes} = 1 .. next.version - 1
  <2>1. 1 .. next.version - 1 = {}
    OBVIOUS
  <2> QED BY <1>1, <2>1
<1> QED BY <1>2, <1>3 DEF History, StateAt

LEMMA NothingRecorded ==
    ASSUME NEW initial, NEW graph, NEW doubt
    PROVE  History({}, NoRow, initial, graph, doubt)
<1>1. {e.body.expected : e \in {}} = {} /\ 1 .. NoRow.version - 1 = {}
  BY DEF NoRow
<1> QED BY <1>1 DEF History, NoRow

\* A step that records an event records a command the request had open.
LEMMA Recording ==
    ASSUME TypeOK, [Next]_vars, events' # events
    PROVE  \E r \in Requests :
              /\ events' = events \cup {Current(r)}
              /\ early' = early \cup {c \in {Current(r)} : JudgedEarly(r)}
              /\ Current(r) \in Command
              /\ Others(r) /\ phase'[r] \notin Written
              /\ \/ CreateCampaignWithVersion(r)
                    /\ Kind(Current(r)) = "campaign"
                 \/ CreateCampaignVersion(r)
                    /\ Kind(Current(r)) = "campaign-version"
                 \/ TransitionCampaignVersion(r)
                    /\ Kind(Current(r)) = "campaign-version-state"
                 \/ TransitionCampaign(r)
                    /\ Kind(Current(r)) = "campaign-state"
                 \/ CreateRecipient(r) /\ Kind(Current(r)) = "recipient"
                 \/ CreateAttempt(r) /\ Kind(Current(r)) = "attempt"
                 \/ UpdateRecipientState(r)
                    /\ Kind(Current(r)) = "recipient-state"
<1>1. PICK r \in Requests :
          \/ CreateCampaignWithVersion(r)
          \/ CreateCampaignVersion(r)
          \/ TransitionCampaignVersion(r)
          \/ TransitionCampaign(r)
          \/ CreateRecipient(r)
          \/ CreateAttempt(r)
          \/ UpdateRecipientState(r)
  <2>1. ~UNCHANGED tables /\ ~UNCHANGED vars
    BY DEF vars, tables
  <2>2. ASSUME NEW r \in Requests,
               \/ \E c \in Sent : ClientCommand(r, c)
               \/ \E k \in Keys, n \in Version, leads \in Pages :
                     Simulation(r, k, n, leads)
               \/ NextCommand(r)
               \/ Check(r)
               \/ Verify(r)
               \/ Stop(r)
        PROVE  FALSE
    BY <2>1, <2>2 DEF ClientCommand, Simulation, Arrives, NextCommand, Enter,
                      Check, Verify, Stop
  <2> QED BY <2>1, <2>2 DEF Next
<1>2. \E kind : Writes(r, kind) /\ Commit(r)
  BY <1>1 DEF CreateCampaignWithVersion, CreateCampaignVersion,
         TransitionCampaignVersion, TransitionCampaign, CreateRecipient,
         CreateAttempt, UpdateRecipientState
<1>3. Current(r) \in Command
  <2>1. phase[r] \in Open
    BY <1>2 DEF Writes, Open
  <2> QED BY <2>1, OpenCommands DEF TypeOK
<1>4. Others(r) /\ phase'[r] \notin Written
  BY <1>2, CommitSteps DEF Commits, Written, Open
<1> QED BY <1>1, <1>3, <1>4 DEF Writes, Commit, CreateCampaignWithVersion,
           CreateCampaignVersion, TransitionCampaignVersion,
           TransitionCampaign, CreateRecipient, CreateAttempt,
           UpdateRecipientState

\* A step that records no event changes no row.
LEMMA RowsRecorded ==
    ASSUME TypeOK, FirstOfItsKey, [Next]_vars, events' = events
    PROVE  UNCHANGED <<campaign, versions, recipients, early>>
<1>1. ASSUME NEW r \in Requests, NEW kind, Writes(r, kind), Commit(r)
      PROVE  FALSE
  <2>1. phase[r] \in Open /\ Current(r) \in events
    BY <1>1 DEF Commit, Writes, Open
  <2> QED BY <2>1 DEF FirstOfItsKey, Recorded, SameKey
<1>2. ASSUME NEW r \in Requests,
             \/ CreateCampaignWithVersion(r)
             \/ CreateCampaignVersion(r)
             \/ TransitionCampaignVersion(r)
             \/ CreateAttempt(r)
      PROVE  FALSE
  BY <1>1, <1>2 DEF CreateCampaignWithVersion, CreateCampaignVersion,
                    TransitionCampaignVersion, CreateAttempt
<1>3. ASSUME NEW r \in Requests,
             \/ TransitionCampaign(r)
             \/ CreateRecipient(r)
             \/ UpdateRecipientState(r)
      PROVE  UNCHANGED <<campaign, versions, recipients, early>>
  BY <1>1, <1>3 DEF TransitionCampaign, CreateRecipient, UpdateRecipientState
<1>4. UNCHANGED tables => UNCHANGED <<campaign, versions, recipients, early>>
  BY DEF tables
<1>5. UNCHANGED vars => UNCHANGED tables
  BY DEF vars
<1> QED BY <1>2, <1>3, <1>4, <1>5, ReadingOnly DEF Next

\* Events that are not changes of a row leave its history alone.
LEMMA OtherChanges ==
    ASSUME NEW c, events' = events \cup {c}, NEW scope, c.scope # scope
    PROVE  ChangesOf(scope)' = ChangesOf(scope)
  BY DEF ChangesOf

\* What the requests judged of the campaign: the state it had at a version it
\* has had, of which the history will not say anything else.
ReadJudged ==
    \A r \in Requests :
        phase[r] \in Written /\ Kind(Current(r)) = "campaign-state" =>
            /\ read[r] \in 1 .. campaign.version
            /\ Current(r).body.state \in campaignTransitionGraph[
                  StateAt(ChangesOf(<<"campaign-state", <<>>>>), "RASCUNHO",
                          read[r])]

AuditInv == AuditIsHistory /\ ReadJudged

\* The judgements stand as long as the history keeps what it said.
LEMMA ReadStands ==
    ASSUME TypeOK, AuditInv, NEW r \in Requests, Others(r),
           \/ phase'[r] \notin Written
           \/ /\ phase[r] \in Written
              /\ todo'[r] = todo[r] /\ read'[r] = read[r],
           campaign'.version \in Nat, campaign'.version >= campaign.version,
           \A w \in 1 .. campaign.version :
              StateAt(ChangesOf(<<"campaign-state", <<>>>>)', "RASCUNHO", w) =
                 StateAt(ChangesOf(<<"campaign-state", <<>>>>), "RASCUNHO", w)
    PROVE  ReadJudged'
<1> DEFINE S == ChangesOf(<<"campaign-state", <<>>>>)
<1> SUFFICES ASSUME NEW q \in Requests, phase'[q] \in Written,
                    Kind(Current(q)') = "campaign-state"
             PROVE  /\ read'[q] \in 1 .. campaign'.version
                    /\ Current(q)'.body.state \in campaignTransitionGraph[
                          StateAt(S', "RASCUNHO", read'[q])]
  BY DEF ReadJudged
<1> HIDE DEF S
<1>1. /\ phase[q] \in Written /\ Current(q)' = Current(q)
      /\ read'[q] = read[q]
  BY DEF Others, Current
<1>2. /\ read[q] \in 1 .. campaign.version
      /\ Current(q).body.state \in
            campaignTransitionGraph[StateAt(S, "RASCUNHO", read[q])]
  BY <1>1 DEF AuditInv, ReadJudged, S
<1>3. StateAt(S', "RASCUNHO", read[q]) = StateAt(S, "RASCUNHO", read[q])
  BY <1>2 DEF S
<1>4. campaign.version \in Nat
  BY DEF TypeOK
<1> QED BY <1>1, <1>2, <1>3, <1>4

LEMMA CampaignHistory ==
    ASSUME TypeOK, FirstOfItsKey, RowInv, AuditInv, [Next]_vars
    PROVE  AuditInv'
<1> DEFINE scope == <<"campaign-state", <<>>>>
           S == ChangesOf(scope)
<1>v. campaign.version \in Nat
  BY DEF TypeOK
<1>1. CASE events' = events /\ Next
  <2>1. UNCHANGED <<campaign, versions, recipients, early>>
    BY <1>1, RowsRecorded
  <2>2. AuditIsHistory'
    BY <1>1, <2>1 DEF AuditInv, AuditIsHistory, ChangesOf
  <2>3. S' = S
    BY <1>1 DEF ChangesOf
  <2>4. PICK r \in Requests :
            Others(r) /\ (Begins(r) \/ Ends(r) \/ Advances(r) \/ Commits(r))
    BY <1>1, Steps
  <2>5. CASE phase'[r] \in Written /\ phase[r] \notin Written
    <3>1. /\ Current(r)' = Current(r) /\ Acceptable(Current(r))
          /\ read'[r] = campaign.version
      BY <2>4, <2>5 DEF Begins, Ends, Advances, Commits, Written, Open, Current
    <3>2. ASSUME Kind(Current(r)) = "campaign-state"
          PROVE  /\ campaign.version \in 1 .. campaign.version
                 /\ Current(r).body.state \in campaignTransitionGraph[
                       StateAt(S, "RASCUNHO", campaign.version)]
      <4>1. /\ campaign.state # Absent
            /\ Current(r).body.state \in campaignTransitionGraph[campaign.state]
        BY <3>1, <3>2 DEF Acceptable
      <4>2. campaign.version > 0
        BY <4>1 DEF RowInv, Existence
      <4>3. campaign.state = StateAt(S, "RASCUNHO", campaign.version)
        BY <4>1 DEF AuditInv, AuditIsHistory, History
      <4> QED BY <1>v, <4>1, <4>2, <4>3
    <3>3. ASSUME NEW q \in Requests, phase'[q] \in Written,
                 Kind(Current(q)') = "campaign-state"
          PROVE  /\ read'[q] \in 1 .. campaign'.version
                 /\ Current(q)'.body.state \in campaignTransitionGraph[
                       StateAt(S', "RASCUNHO", read'[q])]
      <4> HIDE DEF S
      <4>1. CASE q = r
        BY <2>1, <2>3, <3>1, <3>2, <3>3, <4>1
      <4>2. CASE q # r
        <5>1. /\ phase[q] \in Written /\ Current(q)' = Current(q)
              /\ read'[q] = read[q]
          BY <2>4, <3>3, <4>2 DEF Others, Current
        <5> QED BY <2>1, <2>3, <3>3, <5>1 DEF AuditInv, ReadJudged, S
      <4> QED BY <4>1, <4>2
    <3> QED BY <2>2, <3>3 DEF AuditInv, ReadJudged
  <2>6. CASE ~(phase'[r] \in Written /\ phase[r] \notin Written)
    <3>1. \/ phase'[r] \notin Written
          \/ /\ phase[r] \in Written
             /\ todo'[r] = todo[r] /\ read'[r] = read[r]
      BY <2>4, <2>6 DEF Begins, Ends, Advances, Commits, Written, Open
    <3>2. \A w : StateAt(S', "RASCUNHO", w) = StateAt(S, "RASCUNHO", w)
      BY <2>3
    <3> QED BY <1>v, <2>1, <2>2, <2>4, <3>1, <3>2, ReadStands DEF AuditInv
  <2> QED BY <2>5, <2>6
<1>2. CASE UNCHANGED vars
  <2>1. AuditIsHistory'
    BY <1>2 DEF vars, tables, AuditInv, AuditIsHistory, ChangesOf
  <2>2. ReadJudged'
    BY <1>2 DEF vars, tables, AuditInv, ReadJudged, ChangesOf, Current, StateAt
  <2> QED BY <2>1, <2>2 DEF AuditInv
<1>3. CASE events' # events
  <2>1. PICK r \in Requests :
            /\ events' = events \cup {Current(r)}
            /\ Current(r) \in Command
            /\ Others(r) /\ phase'[r] \notin Written
            /\ early' = early \cup {c \in {Current(r)} : JudgedEarly(r)}
            /\ \/ CreateCampaignWithVersion(r)
                  /\ Kind(Current(r)) = "campaign"
               \/ TransitionCampaign(r)
                  /\ Kind(Current(r)) = "campaign-state"
               \/ campaign' = campaign
                  /\ Kind(Current(r)) \in
                        {"campaign-version", "campaign-version-state",
                         "recipient", "attempt", "recipient-state"}
    BY <1>3, Recording DEF CreateCampaignVersion, TransitionCampaignVersion,
       CreateRecipient, CreateAttempt, UpdateRecipientState
  <2>2. CASE Kind(Current(r)) # "campaign-state"
    <3>1. Current(r).scope # scope /\ early' = early
      BY <2>1, <2>2 DEF Kind, JudgedEarly
    <3>2. S' = S
      BY <2>1, <3>1, OtherChanges
    <3>3. \A w : StateAt(S', "RASCUNHO", w) = StateAt(S, "RASCUNHO", w)
      BY <3>2
    <3>4. CASE campaign' = campaign
      <4>1. AuditIsHistory'
        BY <3>1, <3>2, <3>4 DEF AuditInv, AuditIsHistory
      <4> QED BY <1>v, <2>1, <3>3, <3>4, <4>1, ReadStands DEF AuditInv
    <3>5. CASE CreateCampaignWithVersion(r)
      <4>1. campaign.version = 0
        BY <3>5, CreationRows DEF RowInv, Existence
      <4>2. campaign'.version = 1 /\ campaign'.state = "RASCUNHO"
        BY <3>5 DEF CreateCampaignWithVersion
      <4>3. AuditIsHistory'
        BY <3>1, <3>2, <4>1, <4>2, HistoryBegins DEF AuditInv, AuditIsHistory
      <4>4. ReadJudged'
        BY <2>1, <3>3, <4>1, <4>2, ReadStands
      <4> QED BY <4>3, <4>4 DEF AuditInv
    <3> QED BY <2>1, <2>2, <3>4, <3>5
  <2>3. CASE Kind(Current(r)) = "campaign-state"
    <3>1. TransitionCampaign(r)
      BY <2>1, <2>3
    <3>2. /\ campaign.state # Absent
          /\ Current(r).body.expected = campaign.version
          /\ phase[r] \in Written
          /\ campaign' = [state |-> Current(r).body.state,
                          version |-> campaign.version + 1]
      BY <1>3, <3>1, CampaignStateRows DEF tables
    <3>3. campaign.version \in Nat \ {0}
      BY <3>2 DEF RowInv, Existence, TypeOK
    <3>4. Current(r).scope = scope
      BY <2>1, <2>3, Shape
    <3>5. S' = S \cup {Current(r)}
      BY <2>1, <3>4 DEF ChangesOf
    <3>6. /\ read[r] \in 1 .. campaign.version
          /\ Current(r).body.state \in
                campaignTransitionGraph[StateAt(S, "RASCUNHO", read[r])]
      BY <2>3, <3>2 DEF AuditInv, ReadJudged
    <3>7. early \subseteq early'
      BY <2>1
    <3>8. Current(r) \notin early' => read[r] = campaign.version
      BY <2>1, <2>3, <3>2, <3>3, <3>6 DEF JudgedEarly
    <3>9. /\ campaign'.state = Current(r).body.state
          /\ campaign'.version = campaign.version + 1
      BY <3>2
    <3>10. History(S, campaign, "RASCUNHO", campaignTransitionGraph, early)
      BY DEF AuditInv, AuditIsHistory
    <3>11. /\ History(S \cup {Current(r)}, campaign', "RASCUNHO",
                      campaignTransitionGraph, early')
           /\ \A w \in 1 .. campaign.version :
                 StateAt(S \cup {Current(r)}, "RASCUNHO", w) =
                    StateAt(S, "RASCUNHO", w)
      <4> HIDE DEF S
      <4>1. \E w \in 1 .. campaign.version :
                /\ Current(r).body.state \in
                      campaignTransitionGraph[StateAt(S, "RASCUNHO", w)]
                /\ Current(r) \notin early' => w = campaign.version
        BY <3>6, <3>8
      <4>2. History(S \cup {Current(r)}, campaign', "RASCUNHO",
                    campaignTransitionGraph, early')
        BY <3>2, <3>3, <3>7, <3>9, <3>10, <4>1, HistoryGrows
      <4> QED BY <3>2, <3>3, <3>10, <4>2, HistoryKept
    <3>12. AuditIsHistory'
      BY <3>5, <3>11 DEF AuditIsHistory
    <3>13. \A w \in 1 .. campaign.version :
               StateAt(S', "RASCUNHO", w) = StateAt(S, "RASCUNHO", w)
      BY <3>5, <3>11
    <3>14. campaign'.version \in Nat /\ campaign'.version >= campaign.version
      BY <3>3, <3>9
    <3>15. ReadJudged'
      BY <2>1, <3>13, <3>14, ReadStands
    <3> QED BY <3>12, <3>15 DEF AuditInv
  <2> QED BY <2>2, <2>3
<1> QED BY <1>1, <1>2, <1>3

LEMMA RecipientHistory ==
    ASSUME TypeOK, FirstOfItsKey, RowInv, RecipientAuditIsHistory, [Next]_vars
    PROVE  RecipientAuditIsHistory'
<1> SUFFICES ASSUME NEW rec \in Recipient
             PROVE  History(ChangesOf(<<"recipient-state", rec>>),
                            recipients[rec], "PENDENTE",
                            campaignRecipientTransitionGraph, {})'
  BY DEF RecipientAuditIsHistory
<1> DEFINE scope == <<"recipient-state", rec>>
           S == ChangesOf(scope)
           graph == campaignRecipientTransitionGraph
           none == {}
<1>h. History(S, recipients[rec], "PENDENTE", graph, {})
  BY DEF RecipientAuditIsHistory
<1>1. CASE events' = events
  BY <1>1, <1>h, RowsRecorded DEF ChangesOf
<1>2. CASE events' # events
  <2>1. PICK r \in Requests :
            /\ events' = events \cup {Current(r)}
            /\ Current(r) \in Command
            /\ \/ UpdateRecipientState(r)
                  /\ Kind(Current(r)) = "recipient-state"
               \/ CreateRecipient(r)
                  /\ Kind(Current(r)) = "recipient"
               \/ recipients' = recipients
                  /\ Kind(Current(r)) \in
                        {"campaign", "campaign-version",
                         "campaign-version-state", "campaign-state",
                         "attempt"}
    BY <1>2, Recording DEF CreateCampaignWithVersion, CreateCampaignVersion,
       TransitionCampaignVersion, TransitionCampaign, CreateAttempt
  <2>2. /\ Current(r) \in Command
        /\ Kind(Current(r)) = "recipient-state" =>
              Current(r).scope = <<"recipient-state", Target(Current(r))>>
    BY <2>1, Shape
  <2>3. CASE Current(r).scope # scope
    <3>1. S' = S
      BY <2>1, <2>3, OtherChanges
    <3>2. CASE recipients'[rec] = recipients[rec]
      BY <1>h, <3>1, <3>2
    <3>3. CASE CreateRecipient(r) /\ recipients'[rec] # recipients[rec]
      <4>1. /\ recipients[rec].state = Absent
            /\ recipients'[rec] = [state |-> "PENDENTE", version |-> 1]
        BY <3>3 DEF CreateRecipient, TypeOK
      <4>2. recipients[rec].version = 0
        BY <4>1 DEF RowInv, Existence
      <4> QED BY <1>h, <3>1, <4>1, <4>2, HistoryBegins
    <3>4. CASE UpdateRecipientState(r)
      <4>1. Target(Current(r)) # rec
        BY <1>2, <2>1, <2>2, <2>3, <3>4, RecipientStateRows
      <4>2. recipients'[rec] = recipients[rec]
        BY <3>4, <4>1 DEF UpdateRecipientState, TypeOK
      <4> QED BY <1>h, <3>1, <4>2
    <3> QED BY <2>1, <3>2, <3>3, <3>4
  <2>4. CASE Current(r).scope = scope
    <3>1. Kind(Current(r)) = "recipient-state" /\ Target(Current(r)) = rec
      BY <2>4 DEF Kind, Target
    <3>2. UpdateRecipientState(r)
      BY <2>1, <3>1
    <3>3. /\ recipients[rec].state # Absent
          /\ Current(r).body.expected = recipients[rec].version
          /\ Current(r).body.state \in graph[recipients[rec].state]
      BY <3>1, <3>2, RecipientStateRows DEF Holds, Acceptable
    <3>4. /\ recipients'[rec].state = Current(r).body.state
          /\ recipients'[rec].version = recipients[rec].version + 1
      BY <3>1, <3>2 DEF UpdateRecipientState, TypeOK
    <3>5. recipients[rec].version \in Nat \ {0}
      BY <3>3 DEF RowInv, Existence, TypeOK
    <3>6. S' = S \cup {Current(r)}
      BY <2>1, <2>4 DEF ChangesOf
    <3>7. History(S \cup {Current(r)}, recipients'[rec], "PENDENTE", graph, {})
      <4>1. recipients[rec].state = StateAt(S, "PENDENTE", recipients[rec].version)
        BY <1>h, <3>3 DEF History
      <4>2. \E w \in 1 .. recipients[rec].version :
                /\ Current(r).body.state \in graph[StateAt(S, "PENDENTE", w)]
                /\ Current(r) \notin none => w = recipients[rec].version
        BY <3>3, <3>5, <4>1
      <4>3. History(S, recipients[rec], "PENDENTE", graph, none)
        BY <1>h
      <4> HIDE DEF graph, S, none
      <4>4. History(S \cup {Current(r)}, recipients'[rec], "PENDENTE", graph, none)
        BY <3>3, <3>4, <3>5, <4>2, <4>3, HistoryGrows
      <4> QED BY <4>4 DEF none
    <3> QED BY <3>6, <3>7
  <2> QED BY <2>3, <2>4
<1> QED BY <1>1, <1>2

\* The audit of a campaign is its history: no update is lost, and each change
\* was allowed from a state the campaign has had, from the one it replaced
\* unless its client quoted a version that did not exist when it was judged.
THEOREM AuditTellsHistory == Spec => []AuditIsHistory
<1>1. Init => AuditInv
  BY NothingRecorded DEF Init, AuditInv, AuditIsHistory, ReadJudged, ChangesOf,
                         Written
<1>2. AuditInv => AuditIsHistory
  BY DEF AuditInv
<1> QED BY <1>1, <1>2, CampaignHistory, RowsJudged, PTL DEF Spec

\* The same of every recipient.
THEOREM RecipientAuditTellsHistory == Spec => []RecipientAuditIsHistory
<1>1. Init => RecipientAuditIsHistory
  BY NothingRecorded DEF Init, RecipientAuditIsHistory, ChangesOf
<1> QED BY <1>1, RecipientHistory, RowsJudged, PTL DEF Spec

------------------------------------------------------------------------------
(* Approval comes before activation.                                       *)

\* A human approval is recorded.
ApprovalRecorded ==
    \E e \in events :
        /\ Kind(e) = "campaign-version-state"
        /\ e.body.state = "APROVADA"
        /\ e.body.approvedAt = "given"

\* Whatever shows an approved version, be it the version itself, a request that
\* read it to activate, one that found the campaign active, or the campaign that
\* was activated, shows that.
ApprovalInv ==
    /\ ActivatedWasApproved
    /\ \A n \in DOMAIN versions : versions[n] = "APROVADA" => ApprovalRecorded
    /\ \A r \in Requests :
          /\ phase[r] = "verified"
          /\ Kind(Current(r)) = "campaign-state"
          => ApprovalRecorded
    /\ \A r \in Requests :
          /\ phase[r] \in Written
          /\ Kind(Current(r)) = "campaign-state"
          /\ Current(r).body.state \in {"PAUSADA", "CONCLUIDA"}
          => ApprovalRecorded

LEMMA ApprovalStays ==
    ASSUME TypeOK, [Next]_vars, ApprovalRecorded
    PROVE  ApprovalRecorded'
<1>1. events \subseteq events'
  BY Recording
<1> QED BY <1>1 DEF ApprovalRecorded

\* An approval that is committed is recorded with the instant it was given.
LEMMA ApprovalIsRecorded ==
    ASSUME TypeOK, RowInv, ApprovalInv, [Next]_vars,
           FirstOfItsKey,
           NEW n \in DOMAIN versions', versions'[n] = "APROVADA"
    PROVE  ApprovalRecorded'
<1>1. CASE n \in DOMAIN versions /\ versions[n] = "APROVADA"
  BY <1>1, ApprovalStays DEF ApprovalInv
<1>2. CASE ~(n \in DOMAIN versions /\ versions[n] = "APROVADA")
  <2>1. PICK r \in Requests :
            \/ CreateCampaignWithVersion(r)
            \/ CreateCampaignVersion(r)
            \/ TransitionCampaignVersion(r)
    <3>1. versions' # versions
      BY <1>2
    <3> QED BY <3>1, QuietSteps DEF Next, vars, tables, TransitionCampaign,
               CreateRecipient, UpdateRecipientState
  <2>2. versions \in Seq(VersionState)
    BY DEF TypeOK
  <2>3. ~CreateCampaignWithVersion(r)
    BY DEF CreateCampaignWithVersion
  <2>4. ~CreateCampaignVersion(r)
    BY <1>2, <2>2 DEF CreateCampaignVersion
  <2>5. TransitionCampaignVersion(r)
    BY <2>1, <2>3, <2>4
  <2>6. /\ Writes(r, "campaign-version-state")
        /\ Commit(r)
        /\ versions' = [versions EXCEPT ![Target(Current(r))[1]] =
                           Current(r).body.state]
    BY <2>5 DEF TransitionCampaignVersion
  <2>7. /\ Kind(Current(r)) = "campaign-version-state"
        /\ Holds(Current(r))
        /\ events' = events \cup {Current(r)}
    BY <2>6, Writing
  <2>8. Current(r).body.state = "APROVADA"
    BY <1>2, <2>2, <2>6
  <2>9. Current(r).body.approvedAt = "given"
    BY <2>7, <2>8 DEF Holds, Acceptable
  <2> QED BY <2>7, <2>8, <2>9 DEF ApprovalRecorded
<1> QED BY <1>1, <1>2

\* A request that has verified has just found, or had, an approved version.
LEMMA VerifyingStep ==
    ASSUME TypeOK, [Next]_vars, NEW q \in Requests, phase'[q] = "verified",
           ~(phase[q] = "verified" /\ todo'[q] = todo[q])
    PROVE  Approved(Current(q)) /\ Current(q)' = Current(q)
<1>1. PICK r \in Requests :
          \/ Verify(r)
          \/ Others(r) /\ phase'[r] # "verified"
  <2>1. ~UNCHANGED vars
    BY DEF vars
  <2>2. ASSUME NEW r \in Requests, NEW p, Enter(r, p)
        PROVE  Others(r) /\ phase'[r] # "verified"
    BY <2>2, EnterSteps DEF Begins, Ends, Open
  <2>3. ASSUME NEW r \in Requests,
               \/ \E c \in Sent : ClientCommand(r, c)
               \/ \E k \in Keys, n \in Version, leads \in Pages :
                     Simulation(r, k, n, leads)
               \/ NextCommand(r)
        PROVE  Others(r) /\ phase'[r] # "verified"
    BY <2>2, <2>3 DEF ClientCommand, Simulation, Arrives, NextCommand
  <2>4. ASSUME NEW r \in Requests, Check(r) \/ Stop(r)
        PROVE  Others(r) /\ phase'[r] # "verified"
    BY <2>4 DEF Check, Stop, Goto, Refuse, Others, TypeOK
  <2>5. ASSUME NEW r \in Requests, NEW kind, Writes(r, kind),
               Commit(r) \/ Refuse(r)
        PROVE  Others(r) /\ phase'[r] # "verified"
    BY <2>5, CommitSteps, RefuseSteps DEF Commits, Open
  <2>6. ASSUME NEW r \in Requests,
               \/ CreateCampaignWithVersion(r)
               \/ CreateCampaignVersion(r)
               \/ TransitionCampaignVersion(r)
               \/ TransitionCampaign(r)
               \/ CreateRecipient(r)
               \/ CreateAttempt(r)
               \/ UpdateRecipientState(r)
        PROVE  Others(r) /\ phase'[r] # "verified"
    BY <2>5, <2>6 DEF CreateCampaignWithVersion, CreateCampaignVersion,
       TransitionCampaignVersion, TransitionCampaign, CreateRecipient,
       CreateAttempt, UpdateRecipientState
  <2> QED BY <2>1, <2>3, <2>4, <2>6 DEF Next
<1>2. q = r /\ Verify(r)
  <2>1. CASE Verify(r)
    BY <2>1 DEF Verify, Goto, Refuse, TypeOK
  <2>2. CASE Others(r) /\ phase'[r] # "verified"
    BY <2>2 DEF Others
  <2> QED BY <1>1, <2>1, <2>2
<1> QED BY <1>2 DEF Verify, Goto, Refuse, Current, TypeOK

LEMMA ApprovalInvariant ==
    ASSUME TypeOK, FirstOfItsKey, RowInv, ApprovalInv, [Next]_vars
    PROVE  ApprovalInv'
<1> DEFINE active == {"ATIVA", "PAUSADA", "CONCLUIDA"}
<1>1. ASSUME NEW r \in Requests, phase'[r] = "verified",
             Kind(Current(r))' = "campaign-state"
      PROVE  ApprovalRecorded'
  <2>1. Kind(Current(r)') = "campaign-state"
    BY <1>1
  <2>2. CASE phase[r] = "verified" /\ todo'[r] = todo[r]
    BY <2>1, <2>2, ApprovalStays DEF ApprovalInv, Current
  <2>3. CASE ~(phase[r] = "verified" /\ todo'[r] = todo[r])
    <3>1. Approved(Current(r)) /\ Current(r)' = Current(r)
      BY <1>1, <2>3, VerifyingStep
    <3>2. \E n \in DOMAIN versions : versions[n] = "APROVADA"
      BY <2>1, <3>1 DEF Approved
    <3> QED BY <3>2, ApprovalStays DEF ApprovalInv
  <2> QED BY <2>2, <2>3
<1>2. ASSUME campaign'.state \in active
      PROVE  ApprovalRecorded'
  <2>1. CASE campaign.state \in active
    BY <2>1, ApprovalStays DEF ApprovalInv, ActivatedWasApproved,
                              ApprovalRecorded
  <2>2. CASE campaign.state \notin active
    <3>1. PICK r \in Requests :
              CreateCampaignWithVersion(r) \/ TransitionCampaign(r)
      BY <1>2, <2>2, QuietSteps DEF Next, vars, tables, CreateCampaignVersion,
         TransitionCampaignVersion, CreateRecipient, UpdateRecipientState
    <3>2. TransitionCampaign(r)
      BY <1>2, <3>1 DEF CreateCampaignWithVersion
    <3>3. phase[r] \in Written /\ campaign'.state = Current(r).body.state
      BY <1>2, <2>2, <3>2, CampaignStateRows DEF tables
    <3>4. Kind(Current(r)) = "campaign-state"
      BY <3>2 DEF TransitionCampaign, Writes
    <3>5. CASE Current(r).body.state = "ATIVA"
      <4>1. phase[r] = "verified"
        BY <3>2, <3>4, <3>5 DEF TransitionCampaign, Writes, ReadsApproval
      <4> QED BY <3>4, <4>1, ApprovalStays DEF ApprovalInv
    <3>6. CASE Current(r).body.state # "ATIVA"
      <4>1. Current(r).body.state \in {"PAUSADA", "CONCLUIDA"}
        BY <1>2, <3>3, <3>6
      <4> QED BY <3>3, <3>4, <4>1, ApprovalStays DEF ApprovalInv
    <3> QED BY <3>5, <3>6
  <2> QED BY <2>1, <2>2
<1>3. ActivatedWasApproved'
  BY <1>2 DEF ActivatedWasApproved, ApprovalRecorded
<1>4. (\A n \in DOMAIN versions : versions[n] = "APROVADA" =>
          ApprovalRecorded)'
  BY ApprovalIsRecorded
<1>5. ASSUME NEW q \in Requests, phase'[q] \in Written,
             Kind(Current(q)') = "campaign-state",
             Current(q)'.body.state \in {"PAUSADA", "CONCLUIDA"}
      PROVE  ApprovalRecorded'
  <2>1. CASE phase[q] \in Written /\ todo'[q] = todo[q]
    BY <1>5, <2>1, ApprovalStays DEF ApprovalInv, Current
  <2>2. CASE ~(phase[q] \in Written /\ todo'[q] = todo[q])
    <3>1. Next
      BY <2>2, <1>5 DEF vars
    <3>2. PICK r \in Requests :
              Others(r) /\ (Begins(r) \/ Ends(r) \/ Advances(r) \/ Commits(r))
      BY <3>1, Steps
    <3>3. q = r
      BY <1>5, <2>2, <3>2 DEF Others
    <3>4. Acceptable(Current(q)) /\ Current(q)' = Current(q)
      BY <1>5, <2>2, <3>2, <3>3
         DEF Begins, Ends, Advances, Commits, Written, Open, Current
    <3>5. /\ campaign.state \in CampaignState
          /\ Current(q).body.state \in campaignTransitionGraph[campaign.state]
      BY <1>5, <3>4 DEF Acceptable, TypeOK, Absent
    <3>6. campaign.state = "ATIVA"
      BY <1>5, <3>4, <3>5 DEF campaignTransitionGraph, CampaignState
    <3> QED BY <3>6, ApprovalStays
            DEF ApprovalInv, ActivatedWasApproved, ApprovalRecorded
  <2> QED BY <2>1, <2>2
<1> QED BY <1>1, <1>3, <1>4, <1>5 DEF ApprovalInv

\* No campaign was ever active without an approval given by a human.
THEOREM ApprovalBeforeActivation == Spec => []ActivatedWasApproved
<1>1. Init => ApprovalInv
  BY DEF Init, ApprovalInv, ActivatedWasApproved, NoRow, Absent, Written
<1>2. ApprovalInv => ActivatedWasApproved
  BY DEF ApprovalInv
<1> QED BY <1>1, <1>2, ApprovalInvariant, RowsJudged, PTL DEF Spec

==============================================================================
