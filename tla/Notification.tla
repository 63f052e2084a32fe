---------------------------- MODULE Notification ----------------------------
(***************************************************************************)
(* An App reports the outcome of its work and the server forwards it to    *)
(* the providers the panel configured (api/worker-notifications.js,        *)
(* api/notification-adapter-*.js): the App learns from /api/config what it *)
(* may send, the handler of /api/notify reads the settings, and an await   *)
(* later the body, contacts one provider (adapters of version 2) or        *)
(* starts the summary and the problem delivery of a round together         *)
(* (version 3), and answers when each has been answered, has failed or has *)
(* run into its timeout.  Meanwhile the panel saves other settings, which  *)
(* the register of CatalogStore makes one step, and the server may be      *)
(* killed.                                                                 *)
(*                                                                         *)
(* A provider is external: it takes a message or not, also after the       *)
(* server gave up on it, and its answer may be lost.  The text of a        *)
(* message is left out but for its length; the shape of an adapter and of  *)
(* an event is the flag wellFormed.  Time passes in ticks, and a timer     *)
(* that is due fires before the next one.                                  *)
(***************************************************************************)
EXTENDS Integers

CONSTANTS
    Apps,            \* the clients of /api/notify, one request each
    Events,          \* the requests they may make
    FirstSettings,   \* settings the catalog may hold at the start,
    SavedSettings,   \* and those a panel may post
    MinTimeout, MaxTimeout,   \* of a delivery: 1000 and 8000 ms
    LegacyTimeout,   \* of an adapter of version 2: 15000 ms
    None

Rounds   == {"summary", "problem"}           \* V3_DELIVERY_NAMES
Names    == Rounds \cup {"message"}          \* the one of version 2
Lists    == {"errors", "unconfirmedIdentifiers", "networkAffectedIdentifiers",
             "missingItems", "newMissingItems", "recoveredItems"}
Types    == {"submission.summary", "runtime.failure"}   \* NOTIFICATION_EVENT_SCHEMAS

Adapter  == [version    : 1..3,
             wellFormed : BOOLEAN,
             templates  : SUBSET Types,             \* eventTemplates
             checksBody : BOOLEAN,                  \* response
             timeouts   : [Rounds -> Nat],
             expansive  : SUBSET Rounds]            \* exceed the limit for long data
Settings == [disabled : BOOLEAN, diagnostics : BOOLEAN, adapter : Adapter \cup {None}]
Event    == [key        : BOOLEAN,                  \* a valid read key
             version    : 1..3,
             type       : Types \cup {"submission.round"},
             wellFormed : BOOLEAN,
             success    : BOOLEAN,
             filled     : SUBSET Lists,             \* the lists that are not empty
             long       : BOOLEAN]
Reply    == [status : {"listed", "other"},          \* in successStatuses or not
             body   : {"accepted", "other", "unreadable"}]

ASSUME NotificationAssumption ==
    /\ FirstSettings \subseteq Settings /\ SavedSettings \subseteq Settings
    /\ Events \subseteq Event
    /\ {MinTimeout, MaxTimeout, LegacyTimeout} \subseteq Nat \ {0}
    /\ None \notin Adapter

VARIABLES
    settings,    \* the stored settings
    pc,          \* where each request is
    config,      \* what /api/config told the App
    event,       \* what the App sends
    read,        \* the settings its handler read
    contact,     \* the fetches of a request
    left,        \* ticks until each of them is aborted
    waited,      \* ticks a request has been sending
    accepted,    \* the messages the providers took
    answer,      \* what the App was answered, and the deliveries named as failed
    known,       \* settings in force since the App read its configuration,
    since        \* and since its request arrived

vars == <<settings, pc, config, event, read, contact, left, waited, accepted, answer, known, since>>

Answer == [kind : {"none", "sent", "refused", "failed"}, failed : SUBSET Names]
Config == [version : {2, 3}, enabled : BOOLEAN, types : SUBSET (Types \cup {"submission.round"}),
           diagnostics : BOOLEAN]

-----------------------------------------------------------------------------
(* Adapters and events. *)

\* As Migrated would be if it kept the templates it finds.
MigratedTemplates(adapter) ==
    IF adapter = None \/ adapter.version # 1 THEN adapter ELSE [adapter EXCEPT !.version = 2]

\* An adapter of version 1 becomes one of version 2 that sends summaries only.
Migrated(adapter) ==
    IF adapter = None \/ adapter.version # 1 THEN adapter
    ELSE [adapter EXCEPT !.version = 2, !.templates = {"submission.summary"}]

\* As ValidDeliveries would be without the upper bound.
ValidDeliveriesLower(adapter) == \A n \in Rounds : adapter.timeouts[n] >= MinTimeout
ValidDeliveries(adapter) == \A n \in Rounds : adapter.timeouts[n] \in MinTimeout..MaxTimeout

ValidAdapter(adapter) ==
    /\ adapter # None
    /\ adapter.wellFormed
    /\ IF adapter.version = 3 THEN ValidDeliveries(adapter)
       ELSE adapter.version = 2 /\ adapter.templates # {}

EventTypes(adapter) ==
    IF adapter.version # 3 THEN adapter.templates
    ELSE IF ValidAdapter(adapter) THEN {"submission.round"} ELSE {}

\* As ConfigOf would be if the stored adapter were not migrated for it, or not
\* even its version.
ConfigOfStored(s) ==
    LET enabled == ~s.disabled /\ ValidAdapter(Migrated(s.adapter))
        types   == IF enabled THEN EventTypes(s.adapter) ELSE {}
    IN [version     |-> IF s.adapter # None /\ s.adapter.version = 3 THEN 3 ELSE 2,
        enabled     |-> enabled,
        types       |-> types,
        diagnostics |-> s.diagnostics /\ "runtime.failure" \in types]
ConfigOfVersion(s) ==
    [ConfigOfStored(s) EXCEPT !.version = IF s.adapter = None THEN 2 ELSE s.adapter.version]

\* What /api/config tells the Apps.
ConfigOf(s) ==
    LET adapter == Migrated(s.adapter)
        enabled == ~s.disabled /\ ValidAdapter(adapter)
        types   == IF enabled THEN EventTypes(adapter) ELSE {}
    IN [version     |-> IF adapter # None /\ adapter.version = 3 THEN 3 ELSE 2,
        enabled     |-> enabled,
        types       |-> types,
        diagnostics |-> s.diagnostics /\ "runtime.failure" \in types]

ValidEvent(e) ==
    /\ e.wellFormed
    /\ IF e.version = 3 THEN e.type = "submission.round" ELSE e.version = 2 /\ e.type \in Types

ProblemLists == {"errors", "unconfirmedIdentifiers", "networkAffectedIdentifiers"}

\* As HasProblem would be if it trusted the success flag.
HasProblemUnsuccessful(e) == ~e.success

\* shouldSendRoundProblem
HasProblem(e) == ~e.success \/ e.filled \cap ProblemLists # {}

\* What a request is delivered as.
Deliveries(adapter, e) ==
    IF adapter.version # 3 THEN {"message"}
    ELSE {"summary"} \cup {n \in {"problem"} : HasProblem(e)}

\* Rendering gives up at the final size gate.
Unrenderable(adapter, e) ==
    IF adapter.version = 3 /\ e.long THEN adapter.expansive ELSE {}

TimeoutOf(adapter, n) == IF n = "message" THEN LegacyTimeout ELSE adapter.timeouts[n]

\* As Succeeded would be if it ignored the body.
SucceededByStatus(adapter, r) == r.status = "listed"

\* The body of an answer counts where the adapter has a rule for it: always in
\* version 3 (textContains).
Succeeded(adapter, r) ==
    /\ r.status = "listed"
    /\ adapter.version = 3 \/ adapter.checksBody => r.body = "accepted"

-----------------------------------------------------------------------------

Nothing == [n \in Names |-> "unused"]

Init ==
    /\ settings \in FirstSettings
    /\ pc       = [a \in Apps |-> "idle"]
    /\ config   = [a \in Apps |-> ConfigOf(settings)]
    /\ event    \in [Apps -> Events]
    /\ read     = [a \in Apps |-> settings]
    /\ contact  = [a \in Apps |-> Nothing]
    /\ left     = [a \in Apps |-> [n \in Names |-> 0]]
    /\ waited   = [a \in Apps |-> 0]
    /\ accepted = [a \in Apps |-> {}]
    /\ answer   = [a \in Apps |-> [kind |-> "none", failed |-> {}]]
    /\ known    = [a \in Apps |-> {}]
    /\ since    = [a \in Apps |-> {}]

Goto(a, label) == pc' = [pc EXCEPT ![a] = label]
Tell(a, kind, failed) ==
    /\ answer' = [answer EXCEPT ![a] = [kind |-> kind, failed |-> failed]]
    /\ Goto(a, "answered")

\* POST /api/settings: what it stores is valid, migrated or null.
SaveSettings(s) ==
    /\ s.adapter = None \/ ValidAdapter(Migrated(s.adapter))
    /\ settings' = [s EXCEPT !.adapter = Migrated(@)]
    /\ settings' # settings
    /\ known' = [a \in Apps |-> IF pc[a] = "idle" THEN {} ELSE known[a] \cup {settings'}]
    /\ since' = [a \in Apps |-> IF pc[a] \in {"idle", "configured"} THEN {} ELSE since[a] \cup {settings'}]
    /\ UNCHANGED <<pc, config, event, read, contact, left, waited, accepted, answer>>

\* GET /api/config
ReadConfig(a) ==
    /\ pc[a] = "idle"
    /\ config' = [config EXCEPT ![a] = ConfigOf(settings)]
    /\ known' = [known EXCEPT ![a] = {settings}]
    /\ Goto(a, "configured")
    /\ UNCHANGED <<settings, event, read, contact, left, waited, accepted, answer, since>>

\* POST /api/notify arrives.
Send(a) ==
    /\ pc[a] = "configured"
    /\ since' = [since EXCEPT ![a] = {settings}]
    /\ Goto(a, "arrived")
    /\ UNCHANGED <<settings, config, event, read, contact, left, waited, accepted, answer, known>>

\* The key is checked, the settings are read.
ReadSettings(a) ==
    /\ pc[a] = "arrived"
    /\ read' = [read EXCEPT ![a] = settings]
    /\ IF ~event[a].key \/ settings.disabled \/ ~ValidAdapter(Migrated(settings.adapter))
       THEN Tell(a, "refused", {})
       ELSE Goto(a, "reading") /\ UNCHANGED answer
    /\ UNCHANGED <<settings, config, event, contact, left, waited, accepted, known, since>>

\* The body is there: it is checked, and every delivery that applies is started
\* in the same turn; one that cannot be rendered has failed at once.
Permitted(s, e) ==
    /\ ValidEvent(e)
    /\ e.type = "runtime.failure" => s.diagnostics
    /\ e.type \in EventTypes(Migrated(s.adapter))

Started(a, adapter) == Deliveries(adapter, event[a]) \ Unrenderable(adapter, event[a])

ReadBody(a) ==
    LET adapter == Migrated(read[a].adapter)
    IN /\ pc[a] = "reading"
       /\ IF Permitted(read[a], event[a])
          THEN /\ contact' = [contact EXCEPT ![a] = [n \in Names |->
                      IF n \in Started(a, adapter) THEN "open"
                      ELSE IF n \in Deliveries(adapter, event[a]) THEN "failed" ELSE "unused"]]
               /\ left' = [left EXCEPT ![a] = [n \in Names |->
                      IF n \in Started(a, adapter) THEN TimeoutOf(adapter, n) ELSE 0]]
               /\ Goto(a, "sending")
               /\ UNCHANGED answer
          ELSE Tell(a, "refused", {}) /\ UNCHANGED <<contact, left>>
       /\ UNCHANGED <<settings, config, event, read, waited, accepted, known, since>>

\* The fetch of a delivery comes to an end: `to` is what becomes of it.
Close(a, n, to) ==
    /\ pc[a] = "sending" /\ contact[a][n] = "open"
    /\ contact' = [contact EXCEPT ![a][n] = to]
    /\ left' = [left EXCEPT ![a][n] = 0]
    /\ UNCHANGED <<settings, pc, config, event, read, waited, accepted, answer, known, since>>

Open(a) == {n \in Names : contact[a][n] = "open"}

\* An answer arrives.  A provider says "accepted" of a message it took, and where
\* only the status counts it gives a listed one for such a message alone.
Answered(a, n, r) ==
    LET adapter == Migrated(read[a].adapter)
    IN /\ n \in Open(a)
       /\ n \notin accepted[a] =>
              /\ r.body # "accepted"
              /\ adapter.version # 3 /\ ~adapter.checksBody => r.status # "listed"
       /\ Close(a, n, IF Succeeded(adapter, r) THEN "confirmed" ELSE "failed")

FetchFails(a, n) == Close(a, n, "failed")

\* As TimedOut would be if only rounds had a timeout.
TimedOutRounds(a, n) == n # "message" /\ left[a][n] = 0 /\ Close(a, n, "failed")

\* AbortSignal.timeout
TimedOut(a, n) == left[a][n] = 0 /\ Close(a, n, "failed")

\* A provider takes a message, perhaps when nobody waits for its answer any more.
Accepts(a, n) ==
    /\ pc[a] \in {"sending", "answered", "lost"}
    /\ contact[a][n] \in {"open", "confirmed", "failed"}
    /\ n \in Started(a, Migrated(read[a].adapter)) \ accepted[a]
    /\ accepted' = [accepted EXCEPT ![a] = @ \cup {n}]
    /\ UNCHANGED <<settings, pc, config, event, read, contact, left, waited, answer, known, since>>

\* Promise.all has every result.
Respond(a) ==
    LET failed == {n \in Names : contact[a][n] = "failed"}
    IN /\ pc[a] = "sending" /\ Open(a) = {}
       /\ Tell(a, IF failed = {} THEN "sent" ELSE "failed", failed)
       /\ UNCHANGED <<settings, config, event, read, contact, left, waited, accepted, known, since>>

Sending == {a \in Apps : pc[a] = "sending"}

Tick ==
    /\ \E a \in Sending : Open(a) # {}
    /\ \A a \in Sending : Open(a) # {} /\ \A n \in Open(a) : left[a][n] > 0
    /\ left' = [a \in Apps |-> [n \in Names |->
                   IF a \in Sending /\ n \in Open(a) THEN left[a][n] - 1 ELSE left[a][n]]]
    /\ waited' = [a \in Apps |-> IF a \in Sending THEN waited[a] + 1 ELSE waited[a]]
    /\ UNCHANGED <<settings, pc, config, event, read, contact, accepted, answer, known, since>>

\* The server is killed: the requests it was working on are answered by nobody.
Kill ==
    /\ \E a \in Apps : pc[a] \in {"arrived", "reading", "sending"}
    /\ pc' = [a \in Apps |-> IF pc[a] \in {"arrived", "reading", "sending"} THEN "lost" ELSE pc[a]]
    /\ UNCHANGED <<settings, config, event, read, contact, left, waited, accepted, answer, known, since>>

Next ==
    \/ \E s \in SavedSettings : SaveSettings(s)
    \/ \E a \in Apps :
          \/ ReadConfig(a) \/ Send(a)
          \/ ReadSettings(a) \/ ReadBody(a) \/ Respond(a)
          \/ \E n \in Names : \/ \E r \in Reply : Answered(a, n, r)
                              \/ FetchFails(a, n) \/ TimedOut(a, n) \/ Accepts(a, n)
    \/ Tick
    \/ Kill

\* The event loop comes round to every promise that is settled and to every
\* timer that is due.  Nothing is assumed of Apps, panels and providers.
Fairness ==
    /\ \A a \in Apps : /\ WF_vars(ReadSettings(a)) /\ WF_vars(ReadBody(a)) /\ WF_vars(Respond(a))
                       /\ \A n \in Names : WF_vars(TimedOut(a, n))
    /\ WF_vars(Tick)

Spec == Init /\ [][Next]_vars /\ Fairness

-----------------------------------------------------------------------------
(* Properties. *)

TypeOK ==
    /\ settings \in Settings
    /\ pc \in [Apps -> {"idle", "configured", "arrived", "reading", "sending", "answered", "lost"}]
    /\ config \in [Apps -> Config]
    /\ event \in [Apps -> Event]
    /\ read \in [Apps -> Settings]
    /\ contact \in [Apps -> [Names -> {"unused", "open", "confirmed", "failed"}]]
    /\ left \in [Apps -> [Names -> Nat]]
    /\ waited \in [Apps -> Nat]
    /\ accepted \in [Apps -> SUBSET Names]
    /\ answer \in [Apps -> Answer]
    /\ known \in [Apps -> SUBSET Settings] /\ since \in [Apps -> SUBSET Settings]
    /\ \A a \in Apps : since[a] \subseteq known[a]

\* The deliveries an event asks for: a round is summed up, and reported as a
\* problem when it failed, left errors or left work nobody can vouch for.
Wanted(e) ==
    IF e.type # "submission.round" THEN {"message"}
    ELSE {"summary"} \cup
         {n \in {"problem"} : \/ ~e.success \/ "errors" \in e.filled
                              \/ "unconfirmedIdentifiers" \in e.filled
                              \/ "networkAffectedIdentifiers" \in e.filled}

\* What the App is told of its deliveries is true: one that was wanted and is
\* not named as failed was taken by its provider (handleRoundNotification,
\* roundDeliveryResponseSucceeded, notificationResponseSucceeded).
AnswerTruthful ==
    \A a \in Apps : answer[a].kind \in {"sent", "failed"} =>
        /\ Wanted(event[a]) \ answer[a].failed \subseteq accepted[a]
        /\ answer[a].failed \subseteq Wanted(event[a])
        /\ answer[a].kind = "failed" => answer[a].failed # {}

\* "A summary rejection must not suppress the problem delivery, and vice versa":
\* a delivery that was wanted is tried whatever becomes of the other one, unless
\* its own message cannot be rendered; and none is tried that was not wanted.
NoneSuppressed ==
    \A a \in Apps : answer[a].kind \in {"sent", "failed"} =>
        LET adapter == Migrated(read[a].adapter)
            tried   == {n \in Names : contact[a][n] # "unused"}
        IN /\ tried = Wanted(event[a])
           /\ \A n \in Wanted(event[a]) \cap Rounds :
                 ~(event[a].long /\ n \in adapter.expansive) => n \in Started(a, adapter)

\* A provider is contacted only for what the settings allowed at some moment
\* since the request arrived: notifications are not switched off, the adapter
\* has that event, and for a failure report the diagnostics policy is on and
\* nobody but the panel put the template there (handleNotification,
\* migrateNotificationAdapter: "migration must not silently authorize runtime
\* diagnostics").
Allowed(s, e) ==
    /\ e.key /\ ~s.disabled /\ s.adapter # None
    /\ CASE e.type = "submission.round"   -> s.adapter.version = 3
         [] e.type = "submission.summary" -> \/ s.adapter.version = 1
                                             \/ s.adapter.version = 2 /\ e.type \in s.adapter.templates
         [] e.type = "runtime.failure"    -> s.diagnostics /\ s.adapter.version = 2 /\ e.type \in s.adapter.templates

OnlyAsConfigured ==
    \A a \in Apps : (\E n \in Names : contact[a][n] # "unused") =>
        \E s \in since[a] : Allowed(s, event[a])

\* /api/config and /api/notify agree: a well-formed event of the version and the
\* type an App was told of is refused only when the settings changed meanwhile.
Advertised(c, e) ==
    /\ c.enabled /\ e.version = c.version /\ e.type \in c.types
    /\ e.type = "runtime.failure" => c.diagnostics

AdvertisedHonoured ==
    \A a \in Apps :
        answer[a].kind = "refused" /\ event[a].key /\ event[a].wellFormed /\ Advertised(config[a], event[a])
        => \E s, t \in known[a] : s # t

\* The App's own budget is kept, two deliveries or one, whatever the providers
\* do: they are waited for together and never beyond the largest timeout.
InBudget ==
    \A a \in Apps : pc[a] \in {"sending", "answered"} =>
        waited[a] <= IF event[a].type = "submission.round" THEN MaxTimeout ELSE LegacyTimeout

\* Every request is answered, unless the server is killed, however long the
\* providers stay silent.
EveryRequestEnds ==
    \A a \in Apps : pc[a] = "arrived" ~> pc[a] \in {"answered", "lost"}

=============================================================================
