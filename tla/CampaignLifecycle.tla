-------------------------- MODULE CampaignLifecycle --------------------------
(***************************************************************************)
(* The life of one campaign: the commands of                               *)
(* packages/database/src/campaign.ts, with the transition graphs of        *)
(* packages/shared/src/campaign.ts, as the routes of apps/api/src/app.ts   *)
(* issue them.                                                             *)
(*                                                                         *)
(* A command is one transaction at read committed.  It takes the advisory  *)
(* lock of its scope and key and looks the key up (Enter), reads the rows  *)
(* it judges, locked or not (Check, Verify), and writes and commits (one   *)
(* action per command).  A lookup answers a key that was used before.      *)
(* A simulation is a request that runs two commands for every eligible     *)
(* lead, each in a transaction of its own.                                 *)
(*                                                                         *)
(* The events of campaign_outbox are kept as the commands they record: the *)
(* fingerprint of an event is that of its payload.  Version n is the row   *)
(* with version_number n, and a recipient is named by what is unique about *)
(* it, its version and its lead.  An attempt is its event.  What becomes   *)
(* of the events is module CampaignOutbox.                                 *)
(***************************************************************************)
EXTENDS Integers, Sequences, FiniteSets

CONSTANTS
    Requests,       \* API requests that may be served at the same time
    Keys,           \* idempotency keys of the clients
    CreationKey,    \* the key this campaign was created with
    Contents,       \* template contents of a version
    Leads,
    Pages,          \* pages of eligible leads, as sequences
    MaxVersions,    \* bound: versions of the campaign
    MaxQuoted,      \* bound: version numbers that clients quote
    MaxEvents       \* bound: with so many recorded, clients only retry

ASSUME CampaignAssumption ==
    /\ MaxVersions \in Nat \ {0}
    /\ {MaxEvents, MaxQuoted} \subseteq Nat
    /\ Pages \subseteq Seq(Leads)

VARIABLES
    campaign,       \* the row of campaigns
    versions,       \* the states of its rows in campaign_versions
    recipients,     \* the rows of campaign_recipients
    events,         \* the rows of campaign_outbox, as the commands they record
    phase,          \* how far the transaction of each request is
    todo,           \* the commands each request has still to execute
    read,           \* the version of the campaign that each request has judged
    early           \* history: the changes judged on a row older than they quote

tables == <<campaign, versions, recipients, events, early>>
vars == <<tables, phase, todo, read>>

CampaignState == {"RASCUNHO", "ATIVA", "PAUSADA", "CANCELADA", "CONCLUIDA"}
VersionState == {"RASCUNHO", "PENDENTE_APROVACAO", "APROVADA", "ARQUIVADA"}
RecipientState == {"PENDENTE", "ELEGIVEL", "BLOQUEADO", "EM_ANDAMENTO",
                   "CONCLUIDO", "CANCELADO", "OPT_OUT"}

campaignTransitionGraph ==
    [RASCUNHO |-> {"ATIVA", "CANCELADA"},
     ATIVA |-> {"PAUSADA", "CANCELADA", "CONCLUIDA"},
     PAUSADA |-> {"ATIVA", "CANCELADA"},
     CANCELADA |-> {}, CONCLUIDA |-> {}]

campaignVersionTransitionGraph ==
    [RASCUNHO |-> {"PENDENTE_APROVACAO", "ARQUIVADA"},
     PENDENTE_APROVACAO |-> {"RASCUNHO", "APROVADA", "ARQUIVADA"},
     APROVADA |-> {"ARQUIVADA"}, ARQUIVADA |-> {}]

campaignRecipientTransitionGraph ==
    LET Stop == {"CANCELADO", "OPT_OUT"}
    IN [PENDENTE |-> {"ELEGIVEL", "BLOQUEADO"} \cup Stop,
        ELEGIVEL |-> {"EM_ANDAMENTO", "BLOQUEADO"} \cup Stop,
        BLOQUEADO |-> {"ELEGIVEL"} \cup Stop,
        EM_ANDAMENTO |-> {"CONCLUIDO", "BLOQUEADO"} \cup Stop,
        CONCLUIDO |-> {}, CANCELADO |-> {}, OPT_OUT |-> {}]

\* Names of rows: the campaign, its versions, its recipients.
Version == 1 .. MaxVersions
Recipient == {<<n, l>> : n \in Version, l \in Leads}

Absent == "AUSENTE"     \* the state of a row that was not inserted

------------------------------------------------------------------------------
(* Commands.  The scope is what the advisory lock and the lookup of the    *)
(* idempotency key are relative to.                                        *)

CreateCampaign(content) ==
    [scope |-> <<"campaign", <<>>>>, key |-> CreationKey, body |-> content]

CreateVersion(k, content) ==
    [scope |-> <<"campaign-version", <<>>>>, key |-> k, body |-> content]

ChangeVersion(k, n, s, approvedAt) ==
    [scope |-> <<"campaign-version-state", <<n>>>>, key |-> k,
     body |-> [state |-> s, approvedAt |-> approvedAt]]

ChangeCampaign(k, s, expected) ==
    [scope |-> <<"campaign-state", <<>>>>, key |-> k,
     body |-> [state |-> s, expected |-> expected]]

Reserve(k, n, l) ==
    [scope |-> <<"recipient", <<>>>>, key |-> <<k, l>>,
     body |-> [version |-> n, lead |-> l]]

Attempt(k, n, l) ==
    [scope |-> <<"attempt", <<n, l>>>>, key |-> <<k, l>>, body |-> "rendered"]

ChangeRecipient(k, rec, s, expected) ==
    [scope |-> <<"recipient-state", rec>>, key |-> k,
     body |-> [state |-> s, expected |-> expected]]

Scope(kind, targets) == {<<kind, t>> : t \in targets}

Change(states) == [state : states, expected : Nat]

Command ==
    [scope : Scope("campaign", {<<>>}), key : {CreationKey}, body : Contents]
    \cup
    [scope : Scope("campaign-version", {<<>>}), key : Keys, body : Contents]
    \cup
    [scope : Scope("campaign-version-state", {<<n>> : n \in Version}), key : Keys,
     body : [state : VersionState, approvedAt : {"undefined", "given"}]]
    \cup
    [scope : Scope("campaign-state", {<<>>}), key : Keys,
     body : Change(CampaignState)]
    \cup
    [scope : Scope("recipient", {<<>>}), key : Keys \X Leads,
     body : [version : Version, lead : Leads]]
    \cup
    [scope : Scope("attempt", Recipient), key : Keys \X Leads,
     body : {"rendered"}]
    \cup
    [scope : Scope("recipient-state", Recipient), key : Keys,
     body : Change(RecipientState)]

Kind(c) == c.scope[1]
Target(c) == c.scope[2]

------------------------------------------------------------------------------
Phase == {"idle", "entered", "checked", "verified", "failed"}

\* The phases in which the request has an open transaction.
Open == {"entered", "checked", "verified"}

NoRow == [state |-> Absent, version |-> 0]

\* The types of the state, and an open transaction has a command.
TypeOK ==
    /\ campaign \in [state : CampaignState \cup {Absent}, version : Nat]
    /\ versions \in Seq(VersionState)
    /\ recipients \in [Recipient ->
                         [state : RecipientState \cup {Absent}, version : Nat]]
    /\ events \subseteq Command
    /\ phase \in [Requests -> Phase]
    /\ todo \in [Requests -> Seq(Command)]
    /\ read \in [Requests -> Nat]
    /\ early \subseteq Command
    /\ \A r \in Requests : phase[r] \in Open => todo[r] # <<>>

Init ==
    /\ campaign = NoRow
    /\ versions = <<>>
    /\ recipients = [rec \in Recipient |-> NoRow]
    /\ events = {}
    /\ phase = [r \in Requests |-> "idle"]
    /\ todo = [r \in Requests |-> <<>>]
    /\ read = [r \in Requests |-> 0]
    /\ early = {}

Current(r) == Head(todo[r])

SameKey(c, d) == c.scope = d.scope /\ c.key = d.key

\* What the lookup finds under the key of a command.
Recorded(c) == {e \in events : SameKey(e, c)}

\* Fault: no advisory lock is taken.
KeyFree_unlocked(c) == c = c

\* The advisory lock of the command is free.
KeyFree(c) ==
    \A q \in Requests : phase[q] \in Open => ~SameKey(Current(q), c)

\* Faults: one kind of command reads its row without FOR UPDATE.
RowsOf_versionUnlocked(c) ==
    CASE Kind(c) = "recipient" -> {<<"campaign", <<>>>>}
      [] Kind(c) \in {"campaign-version-state", "recipient-state"} -> {c.scope}
      [] OTHER -> {}
RowsOf_reservationUnlocked(c) ==
    CASE Kind(c) = "campaign-version" -> {<<"campaign", <<>>>>}
      [] Kind(c) \in {"campaign-version-state", "recipient-state"} -> {c.scope}
      [] OTHER -> {}
RowsOf_versionStateUnlocked(c) ==
    CASE Kind(c) \in {"campaign-version", "recipient"} -> {<<"campaign", <<>>>>}
      [] Kind(c) = "recipient-state" -> {c.scope}
      [] OTHER -> {}

\* The row a command reads FOR UPDATE, if any: the request holds it from Check
\* to its commit.
RowsOf(c) ==
    CASE Kind(c) \in {"campaign-version", "recipient"} -> {<<"campaign", <<>>>>}
      [] Kind(c) \in {"campaign-version-state", "recipient-state"} -> {c.scope}
      [] OTHER -> {}

RowsFree(rows) ==
    \A q \in Requests :
        phase[q] \in {"checked", "verified"} =>
            RowsOf(Current(q)) \cap rows = {}

Unread(r) == read' = [read EXCEPT ![r] = 0]

\* Fault: a refusal leaves its transaction open.
Refuse_open(r) ==
    todo' = [todo EXCEPT ![r] = <<>>] /\ UNCHANGED <<phase, read>>

\* How a transaction ends: the request goes on with its next command, is
\* refused, or throws an error nobody expected.
Proceed(r, q) ==
    /\ phase' = [phase EXCEPT ![r] = "idle"]
    /\ todo' = [todo EXCEPT ![r] = Tail(q)]
    /\ Unread(r)

Refuse(r) ==
    /\ phase' = [phase EXCEPT ![r] = "idle"]
    /\ todo' = [todo EXCEPT ![r] = <<>>]
    /\ Unread(r)

Throw(r) ==
    /\ phase' = [phase EXCEPT ![r] = "failed"]
    /\ todo' = [todo EXCEPT ![r] = <<>>]
    /\ Unread(r)

Goto(r, p) ==
    /\ phase' = [phase EXCEPT ![r] = p]
    /\ UNCHANGED todo

\* What clients send.  The id of a row is random: a client that names one has
\* seen it.  The version it quotes may be any, be it that of the row it saw, an
\* older one or one that does not exist yet.  An approval has its instant.
Sent ==
    LET Seen == {n \in Version : n <= Len(versions)}
        Reserved == {rec \in Recipient : recipients[rec].state # Absent}
    IN {CreateCampaign(content) : content \in Contents}
       \cup {CreateVersion(k, content) : k \in Keys, content \in Contents}
       \cup {ChangeVersion(k, n, s, "undefined") : k \in Keys, n \in Seen,
               s \in VersionState}
       \cup {ChangeVersion(k, n, "APROVADA", "given") : k \in Keys, n \in Seen}
       \cup {c \in {ChangeCampaign(k, s, v) : k \in Keys, s \in CampaignState,
                       v \in 1 .. MaxQuoted} : campaign.state # Absent}
       \cup {ChangeRecipient(k, rec, s, v) : k \in Keys, rec \in Reserved,
               s \in RecipientState, v \in 1 .. MaxQuoted}

\* A simulation reserves each lead of a page and renders an attempt for it.
SimulationOf(k, n, leads) ==
    [i \in 1 .. 2 * Len(leads) |->
        IF i % 2 = 1 THEN Reserve(k, n, leads[(i + 1) \div 2])
                     ELSE Attempt(k, n, leads[i \div 2])]

------------------------------------------------------------------------------
\* The fields of the stored payload of an event, which a trigger reduces to
\* references when it is inserted, and those that a replay reads in it.
StoredFields ==
    {"schemaVersion", "outboxId", "aggregateType", "aggregateId", "eventType"}

ReadByReplay(c) == IF Kind(c) = "campaign-version" THEN {"versionId"} ELSE {}

\* The transaction of the first command in q begins: lock, then lookup.  A key
\* that was used is answered: by a replay when the payload is the same.
Enter(r, q) ==
    LET c == Head(q)
    IN /\ phase[r] = "idle"
       /\ KeyFree(c)
       /\ \/ /\ Recorded(c) = {}
             /\ phase' = [phase EXCEPT ![r] = "entered"]
             /\ todo' = [todo EXCEPT ![r] = q]
             /\ UNCHANGED read
          \/ /\ Recorded(c) # {}
             /\ c \notin Recorded(c)
             /\ Refuse(r)
          \/ /\ c \in Recorded(c)
             /\ ReadByReplay(c) \subseteq StoredFields
             /\ Proceed(r, q)
          \/ /\ c \in Recorded(c)
             /\ ~(ReadByReplay(c) \subseteq StoredFields)
             /\ Throw(r)
       /\ UNCHANGED tables

\* A request arrives, with a command it sends for the first time or again.
Arrives(r, q) ==
    /\ todo[r] = <<>>
    /\ Cardinality(events) < MaxEvents \/ Recorded(Head(q)) # {}
    /\ Enter(r, q)

ClientCommand(r, c) == Arrives(r, <<c>>)

Simulation(r, k, n, leads) ==
    /\ leads # <<>>
    /\ n <= Len(versions)
    /\ Arrives(r, SimulationOf(k, n, leads))

\* A simulation goes on with its next command.
NextCommand(r) == todo[r] # <<>> /\ Enter(r, todo[r])

\* What a command requires of the first row it reads.
Acceptable(c) ==
    CASE Kind(c) = "campaign-version" -> campaign.state = "RASCUNHO"
      [] Kind(c) = "campaign-version-state" ->
            /\ Target(c)[1] <= Len(versions)
            /\ c.body.state \in
                 campaignVersionTransitionGraph[versions[Target(c)[1]]]
            /\ c.body.state = "APROVADA" => c.body.approvedAt = "given"
      [] Kind(c) = "campaign-state" ->
            /\ campaign.state # Absent
            /\ c.body.state \in campaignTransitionGraph[campaign.state]
      [] Kind(c) = "recipient" -> campaign.state = "ATIVA"
      [] Kind(c) = "attempt" -> recipients[Target(c)].state # Absent
      [] Kind(c) = "recipient-state" ->
            /\ recipients[Target(c)].state # Absent
            /\ recipients[Target(c)].version = c.body.expected
            /\ c.body.state \in campaignRecipientTransitionGraph[
                                   recipients[Target(c)].state]
      [] OTHER -> TRUE

\* The row is read, FOR UPDATE or not, and judged.
Check(r) ==
    /\ phase[r] = "entered"
    /\ RowsFree(RowsOf(Current(r)))
    /\ \/ /\ Acceptable(Current(r))
          /\ Goto(r, "checked")
          /\ read' = [read EXCEPT ![r] = campaign.version]
       \/ ~Acceptable(Current(r)) /\ Refuse(r)
    /\ UNCHANGED tables

\* Fault: an activation does not look for an approved version.
ReadsApproval_notActivation(c) == Kind(c) = "recipient"

\* Commands that read a version after the campaign, without a lock.
ReadsApproval(c) ==
    \/ Kind(c) = "campaign-state" /\ c.body.state = "ATIVA"
    \/ Kind(c) = "recipient"

Approved(c) ==
    IF Kind(c) = "recipient"
    THEN versions[c.body.version] = "APROVADA"
    ELSE \E n \in DOMAIN versions : versions[n] = "APROVADA"

Verify(r) ==
    /\ phase[r] = "checked"
    /\ ReadsApproval(Current(r))
    /\ \/ Approved(Current(r)) /\ Goto(r, "verified") /\ UNCHANGED read
       \/ ~Approved(Current(r)) /\ Refuse(r)
    /\ UNCHANGED tables

\* The request is about to write for a command of one kind.
Writes(r, kind) ==
    /\ phase[r] \in {"checked", "verified"}
    /\ phase[r] = "verified" <=> ReadsApproval(Current(r))
    /\ Kind(Current(r)) = kind

\* The transition of a campaign was judged on a row older than the version the
\* command quotes: only the update compares a version, and not that of this row.
JudgedEarly(r) ==
    Kind(Current(r)) = "campaign-state" /\ read[r] < Current(r).body.expected

Commit(r) ==
    /\ events' = events \cup {Current(r)}
    /\ early' = early \cup {c \in {Current(r)} : JudgedEarly(r)}
    /\ Proceed(r, todo[r])

CreateCampaignWithVersion(r) ==
    /\ Writes(r, "campaign")
    /\ campaign' = [state |-> "RASCUNHO", version |-> 1]
    /\ versions' = <<"RASCUNHO">>
    /\ Commit(r)
    /\ UNCHANGED recipients

CreateCampaignVersion(r) ==
    /\ Writes(r, "campaign-version")
    /\ Len(versions) < MaxVersions
    /\ versions' = Append(versions, "RASCUNHO")
    /\ Commit(r)
    /\ UNCHANGED <<campaign, recipients>>

TransitionCampaignVersion(r) ==
    /\ Writes(r, "campaign-version-state")
    /\ versions' = [versions EXCEPT ![Target(Current(r))[1]] =
                       Current(r).body.state]
    /\ Commit(r)
    /\ UNCHANGED <<campaign, recipients>>

\* Fault: the update is not conditioned on the version the client sent.
TransitionCampaign_unconditional(r) ==
    /\ Writes(r, "campaign-state")
    /\ RowsFree({<<"campaign", <<>>>>})
    /\ campaign' = [state |-> Current(r).body.state,
                    version |-> campaign.version + 1]
    /\ Commit(r)
    /\ UNCHANGED <<versions, recipients>>

\* The update waits for the row and compares the version the client sent.
TransitionCampaign(r) ==
    /\ Writes(r, "campaign-state")
    /\ RowsFree({<<"campaign", <<>>>>})
    /\ \/ /\ campaign.version = Current(r).body.expected
          /\ campaign' = [state |-> Current(r).body.state,
                          version |-> campaign.version + 1]
          /\ Commit(r)
       \/ /\ campaign.version # Current(r).body.expected
          /\ Refuse(r)
          /\ UNCHANGED <<campaign, events, early>>
    /\ UNCHANGED <<versions, recipients>>

\* A recipient exists once for a version and a lead.
CreateRecipient(r) ==
    LET rec == <<Current(r).body.version, Current(r).body.lead>>
    IN /\ Writes(r, "recipient")
       /\ \/ /\ recipients[rec].state = Absent
             /\ recipients' = [recipients EXCEPT ![rec] =
                                  [state |-> "PENDENTE", version |-> 1]]
             /\ Commit(r)
          \/ /\ recipients[rec].state # Absent
             /\ Refuse(r)
             /\ UNCHANGED <<recipients, events, early>>
       /\ UNCHANGED <<campaign, versions>>

CreateAttempt(r) ==
    /\ Writes(r, "attempt")
    /\ Commit(r)
    /\ UNCHANGED <<campaign, versions, recipients>>

\* Fault: the version of the recipient is not incremented.
UpdateRecipientState_sameVersion(r) ==
    /\ Writes(r, "recipient-state")
    /\ recipients' = [recipients EXCEPT ![Target(Current(r))].state =
                         Current(r).body.state]
    /\ Commit(r)
    /\ UNCHANGED <<campaign, versions>>

UpdateRecipientState(r) ==
    /\ Writes(r, "recipient-state")
    /\ recipients' = [recipients EXCEPT ![Target(Current(r))] =
                         [state |-> Current(r).body.state,
                          version |-> @.version + 1]]
    /\ Commit(r)
    /\ UNCHANGED <<campaign, versions>>

\* The API stops, or the client hears of the error: nothing uncommitted stays.
Stop(r) ==
    /\ phase[r] # "idle" \/ todo[r] # <<>>
    /\ Refuse(r)
    /\ UNCHANGED tables

Next ==
    \E r \in Requests :
        \/ \E c \in Sent : ClientCommand(r, c)
        \/ \E k \in Keys, n \in Version, leads \in Pages :
              Simulation(r, k, n, leads)
        \/ NextCommand(r)
        \/ Check(r)
        \/ Verify(r)
        \/ CreateCampaignWithVersion(r)
        \/ CreateCampaignVersion(r)
        \/ TransitionCampaignVersion(r)
        \/ TransitionCampaign(r)
        \/ CreateRecipient(r)
        \/ CreateAttempt(r)
        \/ UpdateRecipientState(r)
        \/ Stop(r)

Spec == Init /\ [][Next]_vars

------------------------------------------------------------------------------
(* Properties.                                                             *)

\* The state that the recorded changes leave a row in at version v.
StateAt(changes, initial, v) ==
    IF v = 1 THEN initial
    ELSE (CHOOSE e \in changes : e.body.expected = v - 1).body.state

\* The recorded changes of a row are its history: one for each version it had,
\* up to its present state, each allowed from the state that the one before had
\* left.  A change in doubt was allowed from a state further back.
History(changes, row, initial, graph, doubt) ==
    /\ {e.body.expected : e \in changes} = 1 .. row.version - 1
    /\ \A e, f \in changes : e.body.expected = f.body.expected => e = f
    /\ \A e \in changes : \E v \in 1 .. e.body.expected :
          /\ e.body.state \in graph[StateAt(changes, initial, v)]
          /\ e \notin doubt => v = e.body.expected
    /\ row.state # Absent => row.state = StateAt(changes, initial, row.version)

ChangesOf(scope) == {e \in events : e.scope = scope}

\* The audit of a campaign is its history, so no update is lost, although
\* transitionCampaign judges the transition on a row it read without a lock and
\* compares the version only in the update.  Each change follows the graph from
\* the state it replaced, so that a cancelled campaign stays cancelled; only one
\* whose client quoted a version before it existed can follow it from an older
\* state of the campaign.
AuditIsHistory ==
    History(ChangesOf(<<"campaign-state", <<>>>>), campaign, "RASCUNHO",
            campaignTransitionGraph, early)

\* The same of every recipient without exception: its command locks the row
\* before it compares the version and judges the transition.
RecipientAuditIsHistory ==
    \A rec \in Recipient :
        History(ChangesOf(<<"recipient-state", rec>>), recipients[rec],
                "PENDENTE", campaignRecipientTransitionGraph, {})

\* A campaign that was ever active had a version a human approved first.
ActivatedWasApproved ==
    campaign.state \in {"ATIVA", "PAUSADA", "CONCLUIDA"} =>
        \E e \in events :
            /\ Kind(e) = "campaign-version-state"
            /\ e.body.state = "APROVADA"
            /\ e.body.approvedAt = "given"

\* A request that has passed its lookup is the first of its key: no event with
\* that key exists until it commits its own, so no retry takes effect twice or
\* is refused for what its first copy did.
FirstOfItsKey ==
    \A r \in Requests : phase[r] \in Open => Recorded(Current(r)) = {}

\* The versions of a campaign are fixed when it leaves the draft: none is added
\* afterwards, whatever overlaps the activation.
VersionsAddedToDraftsOnly ==
    [][Len(versions') > Len(versions) => campaign'.state = "RASCUNHO"]_vars

\* Every change of a version follows its graph, two commands at once included:
\* an approval is never undone and an archived version stays archived.
VersionsFollowTheGraph ==
    [][\A n \in DOMAIN versions :
          versions'[n] # versions[n] =>
             versions'[n] \in campaignVersionTransitionGraph[versions[n]]]_vars

\* A lead is reserved only while the campaign is active: a pause or a
\* cancellation that committed is never followed by a reservation.
ReservedWhileActive ==
    [][\A rec \in Recipient :
          /\ recipients[rec].state = Absent
          /\ recipients'[rec].state # Absent
          => campaign.state = "ATIVA"]_vars

\* A retry of a command that took effect is answered, as the lookup of
\* createCampaignVersion intends when it reads versionId in the stored payload.
RetriesAreAnswered == \A r \in Requests : phase[r] # "failed"

==============================================================================
