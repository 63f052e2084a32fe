-------------------------- MODULE NotificationProofs --------------------------
(***************************************************************************)
(* What an App may rely on when it reports its outcome, for any number of  *)
(* Apps, any settings and any timeouts.                                    *)
(***************************************************************************)
EXTENDS Notification, TLAPS

\* What the handler has checked of the settings it read, before it reads the body.
Admitted(s, e) == e.key /\ ~s.disabled /\ ValidAdapter(Migrated(s.adapter))

Contacted(a) == \E n \in Names : contact[a][n] # "unused"

Budget(e) == IF e.type = "submission.round" THEN MaxTimeout ELSE LegacyTimeout

\* The App's configuration was in force, and so are the settings now.
History(a) ==
    /\ pc[a] # "idle" => settings \in known[a] /\ \E c \in known[a] : config[a] = ConfigOf(c)
    /\ IF pc[a] \in {"idle", "configured"} THEN since[a] = {} ELSE settings \in since[a]

\* Settings are read once, after the request arrived.
Reading(a) ==
    pc[a] \in {"reading", "sending"} => read[a] \in since[a] /\ Admitted(read[a], event[a])

\* Providers are contacted for what the settings read permit, for all of it at
\* once; a confirmed delivery was taken.
Contacts(a) ==
    /\ pc[a] \in {"idle", "configured", "arrived", "reading"} => ~Contacted(a)
    /\ pc[a] = "sending" => Contacted(a)
    /\ Contacted(a) => /\ read[a] \in since[a]
                       /\ Admitted(read[a], event[a]) /\ Permitted(read[a], event[a])
                       /\ \A n \in Names : contact[a][n] # "unused" <=> n \in Wanted(event[a])
    /\ \A n \in Names : contact[a][n] = "confirmed" => n \in accepted[a]

\* The time a delivery has left and the time that has passed stay in the budget.
Waiting(a) ==
    /\ waited[a] <= Budget(event[a])
    /\ pc[a] \in {"idle", "configured", "arrived", "reading"} => waited[a] = 0
    /\ pc[a] = "sending" => \A n \in Open(a) : waited[a] + left[a][n] <= Budget(event[a])

\* The answer is given once, from what became of the deliveries.
Answering(a) ==
    /\ answer[a].kind # "none" => pc[a] = "answered"
    /\ answer[a].kind = "refused" =>
          /\ ~Contacted(a) /\ read[a] \in since[a]
          /\ ~(Admitted(read[a], event[a]) /\ Permitted(read[a], event[a]))
    /\ answer[a].kind \in {"sent", "failed"} =>
          /\ Contacted(a) /\ Open(a) = {}
          /\ answer[a].failed = {n \in Names : contact[a][n] = "failed"}
          /\ answer[a].kind = "failed" => answer[a].failed # {}

AppInv(a) == History(a) /\ Reading(a) /\ Contacts(a) /\ Waiting(a) /\ Answering(a)

IInv == TypeOK /\ \A a \in Apps : AppInv(a)

-----------------------------------------------------------------------------
(* Adapters and events.                                                    *)

LEMMA MigratedAdapter ==
    ASSUME NEW x \in Adapter \cup {None}
    PROVE  /\ Migrated(x) \in Adapter \cup {None}
           /\ Migrated(x) = None <=> x = None
           /\ x # None => /\ Migrated(x) \in Adapter /\ Migrated(x).version \in {2, 3}
                          /\ Migrated(x).version = 3 <=> x.version = 3
                          /\ x.version = 1 => Migrated(x).templates = {"submission.summary"}
                          /\ x.version # 1 => Migrated(x) = x
<1>1. CASE x = None
  BY <1>1, NotificationAssumption DEF Migrated
<1>2. CASE x # None /\ x.version = 1
  <2>1. Migrated(x) = [x EXCEPT !.version = 2, !.templates = {"submission.summary"}]
    BY <1>2 DEF Migrated
  <2>2. /\ Migrated(x) \in Adapter /\ Migrated(x).version = 2
        /\ Migrated(x).templates = {"submission.summary"}
    <3>1. 2 \in 1..3 /\ {"submission.summary"} \in SUBSET Types
      BY DEF Types
    <3> QED
      BY <1>2, <2>1, <3>1 DEF Adapter
  <2> QED
    BY <1>2, <2>2, NotificationAssumption
<1>3. CASE x # None /\ x.version # 1
  <2>1. Migrated(x) = x /\ x \in Adapter
    BY <1>3 DEF Migrated
  <2>2. x.version \in {2, 3}
    BY <1>3, <2>1 DEF Adapter
  <2> QED
    BY <1>3, <2>1, <2>2
<1> QED
  BY <1>1, <1>2, <1>3

LEMMA MigratedSettings ==
    ASSUME NEW s \in Settings
    PROVE  /\ s.adapter \in Adapter \cup {None}
           /\ s.disabled \in BOOLEAN /\ s.diagnostics \in BOOLEAN
           /\ [s EXCEPT !.adapter = Migrated(@)] \in Settings
<1>1. s.adapter \in Adapter \cup {None}
  BY DEF Settings
<1> QED
  BY <1>1, MigratedAdapter DEF Settings

\* An adapter in use, and the types it has templates for.
LEMMA InUse ==
    ASSUME NEW s \in Settings, ValidAdapter(Migrated(s.adapter))
    PROVE  LET x == Migrated(s.adapter)
           IN  /\ s.adapter # None /\ s.adapter \in Adapter /\ x \in Adapter
               /\ x.version \in {2, 3} /\ (x.version = 3 <=> s.adapter.version = 3)
               /\ x.version = 3 => EventTypes(x) = {"submission.round"} /\ ValidDeliveries(x)
               /\ x.version = 2 => EventTypes(x) = x.templates /\ x.templates \subseteq Types
<1>1. s.adapter \in Adapter \cup {None} /\ Migrated(s.adapter) # None
  BY MigratedSettings DEF ValidAdapter
<1>2. /\ s.adapter # None /\ s.adapter \in Adapter /\ Migrated(s.adapter) \in Adapter
      /\ Migrated(s.adapter).version \in {2, 3}
      /\ Migrated(s.adapter).version = 3 <=> s.adapter.version = 3
  BY <1>1, MigratedAdapter
<1>3. Migrated(s.adapter).templates \subseteq Types
  BY <1>2 DEF Adapter
<1> QED
  BY <1>2, <1>3 DEF EventTypes, ValidAdapter

\* Whatever is delivered was wanted, allowed, and has a timeout within the budget.
LEMMA PermittedFacts ==
    ASSUME NEW s \in Settings, NEW e \in Event, Admitted(s, e), Permitted(s, e)
    PROVE  LET x == Migrated(s.adapter)
           IN  /\ Deliveries(x, e) = Wanted(e) /\ Wanted(e) # {} /\ Wanted(e) \subseteq Names
               /\ Allowed(s, e)
               /\ \A n \in Wanted(e) : TimeoutOf(x, n) \in Nat /\ TimeoutOf(x, n) <= Budget(e)
<1> DEFINE x == Migrated(s.adapter)
<1>1. /\ s.adapter # None /\ s.adapter \in Adapter /\ x \in Adapter
      /\ x.version \in {2, 3} /\ (x.version = 3 <=> s.adapter.version = 3)
      /\ x.version = 3 => EventTypes(x) = {"submission.round"} /\ ValidDeliveries(x)
      /\ x.version = 2 => EventTypes(x) = x.templates /\ x.templates \subseteq Types
  BY InUse DEF Admitted
<1>2. e.type \in EventTypes(x) /\ (e.type = "runtime.failure" => s.diagnostics)
  BY DEF Permitted
<1>3. x.version = 3 <=> e.type = "submission.round"
  BY <1>1, <1>2 DEF Types
<1>4. Deliveries(x, e) = Wanted(e) /\ Wanted(e) # {} /\ Wanted(e) \subseteq Names
  BY <1>3 DEF Deliveries, Wanted, HasProblem, ProblemLists, Names, Rounds
<1>5. Allowed(s, e)
  <2>1. e.key /\ ~s.disabled
    BY DEF Admitted
  <2>2. CASE x.version = 3
    BY <1>1, <1>3, <2>1, <2>2 DEF Allowed
  <2>3. CASE x.version = 2
    <3>1. e.type \in x.templates /\ e.type \in Types
      BY <1>1, <1>2, <2>3
    <3>2. /\ s.adapter.version = 1 => x.templates = {"submission.summary"}
          /\ s.adapter.version # 1 => s.adapter = x
      BY <1>1, MigratedAdapter
    <3>3. s.adapter.version \in {1, 2}
      BY <1>1, <2>3 DEF Adapter
    <3> QED
      BY <1>1, <1>2, <2>1, <2>3, <3>1, <3>2, <3>3 DEF Allowed, Types
  <2> QED
    BY <1>1, <2>2, <2>3
<1>6. ASSUME NEW n \in Wanted(e) PROVE TimeoutOf(x, n) \in Nat /\ TimeoutOf(x, n) <= Budget(e)
  <2>1. CASE x.version = 3
    <3>1. n \in Rounds /\ n # "message"
      BY <1>3, <2>1, <1>6 DEF Wanted, Rounds
    <3>2. x.timeouts[n] \in MinTimeout..MaxTimeout /\ MinTimeout \in Nat /\ MaxTimeout \in Nat
      BY <1>1, <2>1, <3>1, NotificationAssumption DEF ValidDeliveries
    <3> QED
      BY <1>3, <2>1, <3>1, <3>2 DEF TimeoutOf, Budget
  <2>2. CASE x.version # 3
    <3>1. n = "message"
      BY <1>3, <2>2, <1>6 DEF Wanted
    <3>2. LegacyTimeout \in Nat
      BY NotificationAssumption
    <3> QED
      BY <1>3, <2>2, <3>1, <3>2 DEF TimeoutOf, Budget
  <2> QED
    BY <2>1, <2>2
<1> QED
  BY <1>4, <1>5, <1>6

\* What /api/config advertises, /api/notify permits under the same settings.
LEMMA AdvertisedPermitted ==
    ASSUME NEW s \in Settings, NEW e \in Event, e.key, e.wellFormed, Advertised(ConfigOf(s), e)
    PROVE  Admitted(s, e) /\ Permitted(s, e)
<1> DEFINE x == Migrated(s.adapter)
<1>1. ~s.disabled /\ ValidAdapter(x) /\ e.type \in EventTypes(x)
  BY DEF Advertised, ConfigOf
<1>2. /\ x # None /\ x.version \in {2, 3}
      /\ x.version = 3 => EventTypes(x) = {"submission.round"}
      /\ x.version = 2 => EventTypes(x) = x.templates /\ x.templates \subseteq Types
  BY <1>1, InUse, NotificationAssumption
<1>3. e.version = (IF x.version = 3 THEN 3 ELSE 2)
  BY <1>1, <1>2 DEF Advertised, ConfigOf
<1>4. ValidEvent(e)
  BY <1>1, <1>2, <1>3 DEF ValidEvent
<1>5. e.type = "runtime.failure" => s.diagnostics
  BY DEF Advertised, ConfigOf
<1> QED
  BY <1>1, <1>4, <1>5 DEF Admitted, Permitted

-----------------------------------------------------------------------------
(* The invariant holds at first, and a step of one App leaves the others'.  *)

LEMMA Elsewhere ==
    ASSUME NEW b \in Apps, AppInv(b), settings' = settings, pc'[b] = pc[b], config'[b] = config[b],
           event'[b] = event[b], read'[b] = read[b], contact'[b] = contact[b], left'[b] = left[b],
           waited'[b] = waited[b], accepted'[b] = accepted[b], answer'[b] = answer[b],
           known'[b] = known[b], since'[b] = since[b]
    PROVE  AppInv(b)'
<1>1. (Contacted(b)' <=> Contacted(b)) /\ Open(b)' = Open(b)
  BY DEF Contacted, Open
<1>2. History(b)' /\ Reading(b)'
  BY DEF AppInv, History, Reading
<1>3. Contacts(b)'
  BY <1>1 DEF AppInv, Contacts
<1>4. Waiting(b)'
  BY <1>1 DEF AppInv, Waiting
<1>5. Answering(b)'
  BY <1>1 DEF AppInv, Answering
<1> QED
  BY <1>2, <1>3, <1>4, <1>5 DEF AppInv

LEMMA BudgetNat == \A e : Budget(e) \in Nat
BY NotificationAssumption DEF Budget

LEMMA ConfigTypes == ASSUME NEW s \in Settings PROVE ConfigOf(s) \in Config
<1> DEFINE x == Migrated(s.adapter)
           enabled == ~s.disabled /\ ValidAdapter(x)
           types == IF enabled THEN EventTypes(x) ELSE {}
<1>1. types \subseteq Types \cup {"submission.round"}
  BY InUse
<1>2. enabled \in BOOLEAN /\ (s.diagnostics /\ "runtime.failure" \in types) \in BOOLEAN
  BY MigratedSettings DEF ValidAdapter
<1>3. ConfigOf(s) = [version     |-> IF x # None /\ x.version = 3 THEN 3 ELSE 2,
                     enabled     |-> enabled,
                     types       |-> types,
                     diagnostics |-> s.diagnostics /\ "runtime.failure" \in types]
  BY DEF ConfigOf
<1> HIDE DEF enabled, types
<1> QED
  BY <1>1, <1>2, <1>3 DEF Config

LEMMA InitInv == Init => IInv
<1> SUFFICES ASSUME Init PROVE IInv
  OBVIOUS
<1> USE DEF Init
<1>1. settings \in Settings /\ event \in [Apps -> Event]
  BY NotificationAssumption
<1>2. [kind |-> "none", failed |-> {}] \in Answer
  BY DEF Answer
<1>3. TypeOK
  BY <1>1, <1>2, ConfigTypes DEF TypeOK, Nothing
<1>4. ASSUME NEW a \in Apps PROVE AppInv(a)
  <2>1. ~Contacted(a) /\ Open(a) = {} /\ \A n \in Names : contact[a][n] # "confirmed"
    BY DEF Contacted, Open, Nothing
  <2>2. Waiting(a)
    BY BudgetNat DEF Waiting
  <2> QED
    BY <2>1, <2>2 DEF AppInv, History, Reading, Contacts, Answering
<1> QED
  BY <1>3, <1>4 DEF IInv

-----------------------------------------------------------------------------
(* The panel and the App.                                                  *)

LEMMA SaveSettingsInv == ASSUME IInv, NEW s \in SavedSettings, SaveSettings(s) PROVE IInv'
<1> USE DEF SaveSettings
<1>1. settings' \in Settings
  BY MigratedSettings, NotificationAssumption
<1>2. TypeOK'
  BY <1>1 DEF IInv, TypeOK
<1>3. ASSUME NEW b \in Apps PROVE AppInv(b)'
  <2>1. /\ Contacted(b)' <=> Contacted(b)
        /\ Open(b)' = Open(b)
    BY DEF Contacted, Open
  <2>2. /\ known'[b] = IF pc[b] = "idle" THEN {} ELSE known[b] \cup {settings'}
        /\ since'[b] = IF pc[b] \in {"idle", "configured"} THEN {} ELSE since[b] \cup {settings'}
    OBVIOUS
  <2>3. AppInv(b)
    BY DEF IInv
  <2>4. History(b)'
    BY <2>2, <2>3 DEF AppInv, History
  <2>5. Reading(b)'
    BY <2>2, <2>3 DEF AppInv, Reading
  <2>6. Contacts(b)' /\ Waiting(b)'
    BY <2>1, <2>2, <2>3 DEF AppInv, Contacts, Waiting
  <2>7. Answering(b)'
    BY <2>1, <2>2, <2>3 DEF AppInv, Answering
  <2> QED
    BY <2>4, <2>5, <2>6, <2>7 DEF AppInv
<1> QED
  BY <1>2, <1>3 DEF IInv

\* How far a request has come when nobody has been contacted for it.
LEMMA Early ==
    ASSUME IInv, NEW a \in Apps, pc[a] \in {"idle", "configured", "arrived", "reading"}
    PROVE  /\ ~Contacted(a) /\ answer[a].kind = "none" /\ waited[a] = 0
           /\ \A n \in Names : contact[a][n] # "confirmed"
<1>1. AppInv(a)
  BY DEF IInv
<1> QED
  BY <1>1 DEF AppInv, Contacts, Contacted, Waiting, Answering

\* A step of a request at which nobody is contacted.
LEMMA EarlyInv ==
    ASSUME IInv, NEW a \in Apps, pc[a] \in {"idle", "configured", "arrived", "reading"},
           UNCHANGED <<contact, waited, event>>, History(a)', Reading(a)',
           \/ pc'[a] \in {"configured", "arrived", "reading"} /\ answer'[a].kind = "none"
           \/ /\ pc'[a] = "answered" /\ answer'[a].kind = "refused" /\ read'[a] \in since'[a]
              /\ ~(Admitted(read'[a], event[a]) /\ Permitted(read'[a], event[a]))
    PROVE  AppInv(a)'
<1>1. /\ ~Contacted(a) /\ waited[a] = 0
      /\ \A n \in Names : contact[a][n] # "confirmed"
  BY Early
<1>2. ~Contacted(a)'
  BY <1>1 DEF Contacted
<1>3. Contacts(a)'
  BY <1>1, <1>2 DEF Contacts
<1>4. Waiting(a)'
  BY <1>1, BudgetNat DEF Waiting
<1>5. Answering(a)'
  BY <1>2 DEF Answering
<1> QED
  BY <1>3, <1>4, <1>5 DEF AppInv

LEMMA ReadConfigInv == ASSUME IInv, NEW a \in Apps, ReadConfig(a) PROVE IInv'
<1> USE DEF ReadConfig, Goto
<1>1. ConfigOf(settings) \in Config /\ settings \in Settings
  BY ConfigTypes DEF IInv, TypeOK
<1>2. AppInv(a) /\ since[a] = {}
  BY DEF IInv, AppInv, History
<1>3. TypeOK'
  BY <1>1, <1>2 DEF IInv, TypeOK
<1>4. AppInv(a)'
  <2>1. pc'[a] = "configured" /\ known'[a] = {settings} /\ config'[a] = ConfigOf(settings)
    BY DEF IInv, TypeOK
  <2>2. History(a)' /\ Reading(a)'
    BY <1>2, <2>1 DEF History, Reading
  <2> QED
    BY <2>1, <2>2, Early, EarlyInv
<1>5. \A b \in Apps : b # a => AppInv(b)'
  BY Elsewhere DEF IInv, TypeOK
<1> QED
  BY <1>3, <1>4, <1>5 DEF IInv

LEMMA SendInv == ASSUME IInv, NEW a \in Apps, Send(a) PROVE IInv'
<1> USE DEF Send, Goto
<1>1. AppInv(a) /\ settings \in known[a] /\ \E c \in known[a] : config[a] = ConfigOf(c)
  BY DEF IInv, AppInv, History
<1>2. TypeOK'
  BY <1>1 DEF IInv, TypeOK
<1>3. AppInv(a)'
  <2>1. pc'[a] = "arrived" /\ since'[a] = {settings}
    BY DEF IInv, TypeOK
  <2>2. History(a)' /\ Reading(a)'
    BY <1>1, <2>1 DEF History, Reading
  <2> QED
    BY <2>1, <2>2, Early, EarlyInv
<1>4. \A b \in Apps : b # a => AppInv(b)'
  BY Elsewhere DEF IInv, TypeOK
<1> QED
  BY <1>2, <1>3, <1>4 DEF IInv

-----------------------------------------------------------------------------
(* The handler.                                                            *)

LEMMA TellTypes ==
    ASSUME TypeOK, NEW a \in Apps, NEW kind \in {"sent", "refused", "failed"},
           NEW failed \in SUBSET Names, Tell(a, kind, failed)
    PROVE  /\ pc' = [pc EXCEPT ![a] = "answered"] /\ answer' \in [Apps -> Answer]
           /\ pc'[a] = "answered" /\ answer'[a] = [kind |-> kind, failed |-> failed]
           /\ \A b \in Apps : b # a => answer'[b] = answer[b] /\ pc'[b] = pc[b]
<1>1. [kind |-> kind, failed |-> failed] \in Answer
  BY DEF Answer
<1> QED
  BY <1>1 DEF Tell, Goto, TypeOK

LEMMA ReadSettingsInv == ASSUME IInv, NEW a \in Apps, ReadSettings(a) PROVE IInv'
<1> USE DEF ReadSettings
<1>1. /\ settings \in known[a] /\ settings \in since[a] /\ \E c \in known[a] : config[a] = ConfigOf(c)
      /\ read'[a] = settings /\ read' \in [Apps -> Settings]
  BY DEF IInv, AppInv, History, TypeOK
<1>2. CASE ~Admitted(settings, event[a]) /\ Tell(a, "refused", {})
  <2>1. /\ pc' = [pc EXCEPT ![a] = "answered"] /\ answer' \in [Apps -> Answer]
        /\ pc'[a] = "answered" /\ answer'[a] = [kind |-> "refused", failed |-> {}]
        /\ \A b \in Apps : b # a => answer'[b] = answer[b] /\ pc'[b] = pc[b]
    BY <1>2, TellTypes DEF IInv
  <2>2. TypeOK'
    BY <1>1, <2>1 DEF IInv, TypeOK
  <2>3. History(a)' /\ Reading(a)'
    BY <1>1, <2>1 DEF History, Reading
  <2>4. AppInv(a)'
    BY <1>1, <1>2, <2>1, <2>3, EarlyInv
  <2>5. \A b \in Apps : b # a => AppInv(b)'
    BY <2>1, Elsewhere DEF IInv, TypeOK
  <2> QED
    BY <2>2, <2>4, <2>5 DEF IInv
<1>3. CASE Admitted(settings, event[a]) /\ Goto(a, "reading") /\ UNCHANGED answer
  <2>1. /\ pc'[a] = "reading" /\ pc' = [pc EXCEPT ![a] = "reading"]
        /\ \A b \in Apps : b # a => pc'[b] = pc[b]
    BY <1>3 DEF Goto, IInv, TypeOK
  <2>2. TypeOK'
    BY <1>1, <1>3, <2>1 DEF IInv, TypeOK
  <2>3. History(a)' /\ Reading(a)'
    BY <1>1, <1>3, <2>1 DEF History, Reading
  <2>4. AppInv(a)'
    BY <1>3, <2>1, <2>3, Early, EarlyInv
  <2>5. \A b \in Apps : b # a => AppInv(b)'
    BY <1>3, <2>1, Elsewhere DEF IInv, TypeOK
  <2> QED
    BY <2>2, <2>4, <2>5 DEF IInv
<1> QED
  BY <1>2, <1>3 DEF Admitted

LEMMA ReadBodyInv == ASSUME IInv, NEW a \in Apps, ReadBody(a) PROVE IInv'
<1> DEFINE s == read[a]
           x == Migrated(read[a].adapter)
<1>1. /\ pc[a] = "reading" /\ s \in since[a] /\ Admitted(s, event[a])
      /\ s \in Settings /\ event[a] \in Event /\ AppInv(a)
  BY DEF ReadBody, IInv, AppInv, Reading, TypeOK
<1>2. CASE ~Permitted(s, event[a]) /\ Tell(a, "refused", {}) /\ UNCHANGED <<contact, left>>
  <2>1. /\ pc' = [pc EXCEPT ![a] = "answered"] /\ answer' \in [Apps -> Answer]
        /\ pc'[a] = "answered" /\ answer'[a] = [kind |-> "refused", failed |-> {}]
        /\ \A b \in Apps : b # a => answer'[b] = answer[b] /\ pc'[b] = pc[b]
    BY <1>2, TellTypes DEF IInv
  <2>2. TypeOK'
    BY <1>2, <2>1 DEF ReadBody, IInv, TypeOK
  <2>3. History(a)' /\ Reading(a)'
    BY <1>1, <2>1 DEF ReadBody, AppInv, History, Reading
  <2>4. AppInv(a)'
    BY <1>1, <1>2, <2>1, <2>3, EarlyInv DEF ReadBody
  <2>5. \A b \in Apps : b # a => AppInv(b)'
    BY <1>2, <2>1, Elsewhere DEF ReadBody, IInv, TypeOK
  <2> QED
    BY <2>2, <2>4, <2>5 DEF IInv
<1>3. CASE /\ Permitted(s, event[a]) /\ Goto(a, "sending") /\ UNCHANGED answer
           /\ contact' = [contact EXCEPT ![a] = [n \in Names |->
                 IF n \in Started(a, x) THEN "open"
                 ELSE IF n \in Deliveries(x, event[a]) THEN "failed" ELSE "unused"]]
           /\ left' = [left EXCEPT ![a] = [n \in Names |->
                 IF n \in Started(a, x) THEN TimeoutOf(x, n) ELSE 0]]
  <2>1. /\ pc' = [pc EXCEPT ![a] = "sending"] /\ pc'[a] = "sending"
        /\ \A b \in Apps : b # a => pc'[b] = pc[b]
    BY <1>3 DEF Goto, IInv, TypeOK
  <2>2. /\ Deliveries(x, event[a]) = Wanted(event[a])
        /\ Wanted(event[a]) # {} /\ Wanted(event[a]) \subseteq Names
        /\ \A n \in Wanted(event[a]) : TimeoutOf(x, n) \in Nat /\ TimeoutOf(x, n) <= Budget(event[a])
    BY <1>1, <1>3, PermittedFacts
  <2>3. Started(a, x) \subseteq Wanted(event[a])
    BY <2>2 DEF Started
  <2>4. /\ contact'[a] = [n \in Names |-> IF n \in Started(a, x) THEN "open"
                             ELSE IF n \in Deliveries(x, event[a]) THEN "failed" ELSE "unused"]
        /\ left'[a] = [n \in Names |-> IF n \in Started(a, x) THEN TimeoutOf(x, n) ELSE 0]
        /\ \A b \in Apps : b # a => contact'[b] = contact[b] /\ left'[b] = left[b]
    BY <1>3 DEF IInv, TypeOK
  <2>5. TypeOK'
    <3>1. contact' \in [Apps -> [Names -> {"unused", "open", "confirmed", "failed"}]]
      BY <1>3 DEF IInv, TypeOK
    <3>2. [n \in Names |-> IF n \in Started(a, x) THEN TimeoutOf(x, n) ELSE 0] \in [Names -> Nat]
      BY <2>2, <2>3
    <3>3. left' \in [Apps -> [Names -> Nat]]
      BY <1>3, <3>2 DEF IInv, TypeOK
    <3> QED
      BY <1>3, <2>1, <3>1, <3>3 DEF ReadBody, IInv, TypeOK
  <2>6. History(a)' /\ Reading(a)'
    BY <1>1, <2>1 DEF ReadBody, AppInv, History, Reading
  <2>7. /\ \A n \in Names : contact'[a][n] # "unused" <=> n \in Wanted(event[a])
        /\ Contacted(a)' /\ \A n \in Names : contact'[a][n] # "confirmed"
    <3>1. \A n \in Names : /\ contact'[a][n] # "unused" <=> n \in Wanted(event[a])
                           /\ contact'[a][n] # "confirmed"
      BY <2>2, <2>3, <2>4
    <3> QED
      BY <2>2, <3>1 DEF Contacted
  <2>8. Contacts(a)'
    BY <1>1, <1>3, <2>1, <2>7 DEF ReadBody, Contacts
  <2>9. Waiting(a)'
    <3>1. waited'[a] = 0
      BY <1>1, Early DEF ReadBody
    <3>2. \A n \in Open(a)' : n \in Started(a, x) /\ left'[a][n] = TimeoutOf(x, n)
      BY <2>4 DEF Open
    <3>3. \A n \in Open(a)' : left'[a][n] \in Nat /\ left'[a][n] <= Budget(event[a])
      BY <2>2, <2>3, <3>2
    <3> QED
      BY <2>1, <3>1, <3>3, BudgetNat DEF ReadBody, Waiting
  <2>10. Answering(a)'
    BY <1>1, <1>3, Early DEF Answering
  <2>11. \A b \in Apps : b # a => AppInv(b)'
    BY <1>3, <2>1, <2>4, Elsewhere DEF ReadBody, IInv
  <2> QED
    BY <2>5, <2>6, <2>8, <2>9, <2>10, <2>11 DEF IInv, AppInv
<1> QED
  BY <1>2, <1>3 DEF ReadBody

-----------------------------------------------------------------------------
(* The deliveries.                                                         *)

LEMMA CloseInv ==
    ASSUME IInv, NEW a \in Apps, NEW n \in Names, NEW to \in {"confirmed", "failed"},
           Close(a, n, to), to = "confirmed" => n \in accepted[a]
    PROVE  IInv'
<1> USE DEF Close
<1>1. /\ contact'[a][n] = to /\ contact[a][n] = "open"
      /\ \A m \in Names : m # n => contact'[a][m] = contact[a][m] /\ left'[a][m] = left[a][m]
      /\ \A b \in Apps : b # a => contact'[b] = contact[b] /\ left'[b] = left[b]
  BY DEF IInv, TypeOK
<1>2. AppInv(a) /\ pc[a] = "sending"
  BY DEF IInv
<1>3. TypeOK'
  BY DEF IInv, TypeOK
<1>4. /\ \A m \in Names : contact'[a][m] # "unused" <=> contact[a][m] # "unused"
      /\ Contacted(a)' /\ Contacted(a)
      /\ Open(a)' = Open(a) \ {n}
  <2>1. \A m \in Names : contact'[a][m] # "unused" <=> contact[a][m] # "unused"
    BY <1>1
  <2>2. Open(a)' = Open(a) \ {n}
    BY <1>1 DEF Open
  <2> QED
    BY <1>1, <2>1, <2>2 DEF Contacted
<1>5. History(a)' /\ Reading(a)'
  BY <1>2 DEF AppInv, History, Reading
<1>6. Contacts(a)'
  BY <1>1, <1>2, <1>4 DEF AppInv, Contacts
<1>7. Waiting(a)'
  BY <1>1, <1>2, <1>4 DEF AppInv, Waiting, Open
<1>8. Answering(a)'
  <2>1. answer[a].kind = "none"
    BY <1>2 DEF AppInv, Answering, IInv, TypeOK, Answer
  <2> QED
    BY <2>1 DEF Answering
<1>9. \A b \in Apps : b # a => AppInv(b)'
  BY <1>1, Elsewhere DEF IInv
<1> QED
  BY <1>3, <1>5, <1>6, <1>7, <1>8, <1>9 DEF IInv, AppInv

\* An answer that counts as a success is one of a provider that took the message.
LEMMA AnsweredInv ==
    ASSUME IInv, NEW a \in Apps, NEW n \in Names, NEW r \in Reply, Answered(a, n, r) PROVE IInv'
<1> DEFINE x == Migrated(read[a].adapter)
           to == IF Succeeded(x, r) THEN "confirmed" ELSE "failed"
<1>1. Close(a, n, to)
  BY DEF Answered
<1>2. Succeeded(x, r) => n \in accepted[a]
  <2>1. ASSUME n \notin accepted[a] PROVE ~Succeeded(x, r)
    <3>1. /\ r.body # "accepted"
          /\ (x.version # 3 /\ ~x.checksBody) => r.status # "listed"
      BY <2>1 DEF Answered
    <3> QED
      BY <3>1 DEF Succeeded
  <2> QED
    BY <2>1
<1>3. to \in {"confirmed", "failed"} /\ (to = "confirmed" => n \in accepted[a])
  BY <1>2
<1> HIDE DEF to
<1> QED
  BY <1>1, <1>3, CloseInv

LEMMA GivenUpInv ==
    ASSUME IInv, NEW a \in Apps, NEW n \in Names, FetchFails(a, n) \/ TimedOut(a, n) PROVE IInv'
BY CloseInv DEF FetchFails, TimedOut

LEMMA AcceptsInv == ASSUME IInv, NEW a \in Apps, NEW n \in Names, Accepts(a, n) PROVE IInv'
<1> USE DEF Accepts
<1>1. /\ accepted'[a] = accepted[a] \cup {n}
      /\ \A b \in Apps : b # a => accepted'[b] = accepted[b]
  BY DEF IInv, TypeOK
<1>2. TypeOK'
  BY DEF IInv, TypeOK
<1>3. AppInv(a)
  BY DEF IInv
<1>4. (Contacted(a)' <=> Contacted(a)) /\ Open(a)' = Open(a)
  BY DEF Contacted, Open
<1>5. History(a)' /\ Reading(a)' /\ Waiting(a)' /\ Answering(a)'
  BY <1>3, <1>4 DEF AppInv, History, Reading, Waiting, Answering
<1>6. Contacts(a)'
  BY <1>1, <1>3, <1>4 DEF AppInv, Contacts
<1>7. \A b \in Apps : b # a => AppInv(b)'
  BY <1>1, Elsewhere DEF IInv
<1> QED
  BY <1>2, <1>5, <1>6, <1>7 DEF IInv, AppInv

LEMMA RespondInv == ASSUME IInv, NEW a \in Apps, Respond(a) PROVE IInv'
<1> DEFINE failed == {n \in Names : contact[a][n] = "failed"}
           kind == IF failed = {} THEN "sent" ELSE "failed"
<1>1. /\ pc[a] = "sending" /\ Open(a) = {} /\ Tell(a, kind, failed)
      /\ UNCHANGED <<settings, config, event, read, contact, left, waited, accepted, known, since>>
  BY DEF Respond
<1>2. kind \in {"sent", "refused", "failed"} /\ failed \in SUBSET Names /\ (kind = "failed" => failed # {})
      /\ kind \in {"sent", "failed"}
  OBVIOUS
<1> HIDE DEF kind
<1>3. /\ pc' = [pc EXCEPT ![a] = "answered"] /\ answer' \in [Apps -> Answer]
      /\ pc'[a] = "answered" /\ answer'[a] = [kind |-> kind, failed |-> failed]
      /\ \A b \in Apps : b # a => answer'[b] = answer[b] /\ pc'[b] = pc[b]
  BY <1>1, <1>2, TellTypes DEF IInv
<1>4. TypeOK'
  BY <1>1, <1>3 DEF IInv, TypeOK
<1>5. AppInv(a)
  BY DEF IInv
<1>6. Contacted(a)' /\ Contacted(a) /\ Open(a)' = {}
  BY <1>1, <1>5 DEF AppInv, Contacts, Contacted, Open
<1>7. History(a)' /\ Reading(a)'
  BY <1>1, <1>3, <1>5 DEF AppInv, History, Reading
<1>8. Contacts(a)' /\ Waiting(a)'
  BY <1>1, <1>3, <1>5, <1>6 DEF AppInv, Contacts, Waiting
<1>9. Answering(a)'
  BY <1>1, <1>2, <1>3, <1>6 DEF Answering
<1>10. \A b \in Apps : b # a => AppInv(b)'
  BY <1>1, <1>3, Elsewhere DEF IInv
<1> QED
  BY <1>4, <1>7, <1>8, <1>9, <1>10 DEF IInv, AppInv

-----------------------------------------------------------------------------
(* Time and kills.                                                         *)

LEMMA TickInv == ASSUME IInv, Tick PROVE IInv'
<1> USE DEF Tick
<1>1. TypeOK'
  BY DEF IInv, TypeOK, Sending, Open
<1>2. ASSUME NEW b \in Apps PROVE AppInv(b)'
  <2>1. AppInv(b) /\ waited[b] \in Nat /\ \A n \in Names : left[b][n] \in Nat
    BY DEF IInv, TypeOK
  <2>2. (Contacted(b)' <=> Contacted(b)) /\ Open(b)' = Open(b)
    BY DEF Contacted, Open
  <2>3. History(b)' /\ Reading(b)' /\ Contacts(b)' /\ Answering(b)'
    BY <2>1, <2>2 DEF AppInv, History, Reading, Contacts, Answering
  <2>4. Waiting(b)'
    <3>1. CASE pc[b] = "sending"
      <4>1. waited'[b] = waited[b] + 1 /\ \A n \in Open(b) : left'[b][n] = left[b][n] - 1 /\ left[b][n] > 0
        BY <3>1 DEF Sending, Open
      <4>2. PICK n \in Open(b) : TRUE
        BY <3>1 DEF Sending
      <4>3. \A m \in Open(b) : m \in Names /\ waited[b] + left[b][m] <= Budget(event[b])
        BY <2>1, <3>1 DEF AppInv, Waiting, Open
      <4>4. \A m \in Open(b) : waited'[b] + left'[b][m] <= Budget(event[b])
        BY <2>1, <4>1, <4>3, BudgetNat
      <4>5. waited'[b] <= Budget(event[b])
        BY <2>1, <4>1, <4>2, <4>3, BudgetNat
      <4> QED
        BY <2>2, <3>1, <4>4, <4>5 DEF Waiting
    <3>2. CASE pc[b] # "sending"
      <4>1. waited'[b] = waited[b]
        BY <3>2 DEF Sending
      <4> QED
        BY <2>1, <3>2, <4>1 DEF AppInv, Waiting
    <3> QED
      BY <3>1, <3>2
  <2> QED
    BY <2>3, <2>4 DEF AppInv
<1> QED
  BY <1>1, <1>2 DEF IInv

LEMMA KillInv == ASSUME IInv, Kill PROVE IInv'
<1> USE DEF Kill
<1>1. TypeOK'
  BY DEF IInv, TypeOK
<1>2. ASSUME NEW b \in Apps PROVE AppInv(b)'
  <2>1. AppInv(b)
    BY DEF IInv
  <2>2. pc'[b] = pc[b] \/ (pc[b] \in {"arrived", "reading", "sending"} /\ pc'[b] = "lost")
    OBVIOUS
  <2>3. (Contacted(b)' <=> Contacted(b)) /\ Open(b)' = Open(b)
    BY DEF Contacted, Open
  <2>4. History(b)' /\ Reading(b)'
    BY <2>1, <2>2 DEF AppInv, History, Reading
  <2>5. Contacts(b)' /\ Waiting(b)'
    BY <2>1, <2>2, <2>3 DEF AppInv, Contacts, Waiting
  <2>6. Answering(b)'
    BY <2>1, <2>2, <2>3 DEF AppInv, Answering
  <2> QED
    BY <2>4, <2>5, <2>6 DEF AppInv
<1> QED
  BY <1>1, <1>2 DEF IInv

LEMMA Inductive == IInv /\ [Next]_vars => IInv'
<1> SUFFICES ASSUME IInv, [Next]_vars PROVE IInv'
  OBVIOUS
<1>1. CASE \E s \in SavedSettings : SaveSettings(s)
  BY <1>1, SaveSettingsInv
<1>2. ASSUME NEW a \in Apps,
             \/ ReadConfig(a) \/ Send(a)
             \/ ReadSettings(a) \/ ReadBody(a) \/ Respond(a)
             \/ \E n \in Names : \/ \E r \in Reply : Answered(a, n, r)
                                 \/ FetchFails(a, n) \/ TimedOut(a, n) \/ Accepts(a, n)
      PROVE  IInv'
  BY <1>2, ReadConfigInv, SendInv, ReadSettingsInv, ReadBodyInv, RespondInv,
     AnsweredInv, GivenUpInv, AcceptsInv
<1>3. CASE Tick \/ Kill
  BY <1>3, TickInv, KillInv
<1>4. CASE UNCHANGED vars
  <2>1. TypeOK'
    BY <1>4 DEF vars, IInv, TypeOK
  <2>2. \A b \in Apps : AppInv(b)'
    BY <1>4, Elsewhere DEF vars, IInv
  <2> QED
    BY <2>1, <2>2 DEF IInv
<1> QED
  BY <1>1, <1>2, <1>3, <1>4 DEF Next

\* The inductive invariant holds through every interleaving of the requests, the
\* deliveries and the saves of the settings.
THEOREM Invariance == Spec => []IInv
BY InitInv, Inductive, PTL DEF Spec

-----------------------------------------------------------------------------
(* What an App may rely on.                                                *)

\* Every variable keeps its shape.
THEOREM NotificationTypes == Spec => []TypeOK
<1>1. IInv => TypeOK
  BY DEF IInv
<1> QED
  BY <1>1, Invariance, PTL

\* A delivery that was wanted and is not named as failed was taken by its provider
\* (handleRoundNotification, notificationResponseSucceeded and
\* roundDeliveryResponseSucceeded), whatever else failed, timed out or was saved.
THEOREM AnswersTrue == Spec => []AnswerTruthful
<1>1. ASSUME IInv PROVE AnswerTruthful
  <2> SUFFICES ASSUME NEW a \in Apps, answer[a].kind \in {"sent", "failed"}
               PROVE  /\ Wanted(event[a]) \ answer[a].failed \subseteq accepted[a]
                      /\ answer[a].failed \subseteq Wanted(event[a])
                      /\ answer[a].kind = "failed" => answer[a].failed # {}
    BY DEF AnswerTruthful
  <2>1. /\ Contacted(a) /\ Open(a) = {}
        /\ answer[a].failed = {n \in Names : contact[a][n] = "failed"}
        /\ answer[a].kind = "failed" => answer[a].failed # {}
        /\ \A n \in Names : contact[a][n] # "unused" <=> n \in Wanted(event[a])
        /\ \A n \in Names : contact[a][n] = "confirmed" => n \in accepted[a]
    BY <1>1 DEF IInv, AppInv, Answering, Contacts
  <2>2. \A n \in Names : contact[a][n] \in {"unused", "confirmed", "failed"}
    BY <1>1, <2>1 DEF IInv, TypeOK, Open
  <2>3. Wanted(event[a]) \subseteq Names
    BY DEF Wanted, Names, Rounds
  <2> QED
    BY <2>1, <2>2, <2>3
<1> QED
  BY <1>1, Invariance, PTL

\* Neither delivery of a round suppresses the other (handleRoundNotification starts
\* both in one turn), and nothing unwanted is sent.
THEOREM DeliveriesIndependent == Spec => []NoneSuppressed
<1>1. ASSUME IInv PROVE NoneSuppressed
  <2> SUFFICES ASSUME NEW a \in Apps, answer[a].kind \in {"sent", "failed"}
               PROVE  LET x == Migrated(read[a].adapter)
                      IN /\ {n \in Names : contact[a][n] # "unused"} = Wanted(event[a])
                         /\ \A n \in Wanted(event[a]) \cap Rounds :
                               ~(event[a].long /\ n \in x.expansive) => n \in Started(a, x)
    BY DEF NoneSuppressed
  <2>1. /\ \A n \in Names : contact[a][n] # "unused" <=> n \in Wanted(event[a])
        /\ Admitted(read[a], event[a]) /\ Permitted(read[a], event[a])
        /\ read[a] \in Settings /\ event[a] \in Event
    BY <1>1 DEF IInv, AppInv, Answering, Contacts, TypeOK
  <2>2. Deliveries(Migrated(read[a].adapter), event[a]) = Wanted(event[a])
    BY <2>1, PermittedFacts
  <2>3. Wanted(event[a]) \subseteq Names
    BY DEF Wanted, Names, Rounds
  <2> QED
    BY <2>1, <2>2, <2>3 DEF Started, Unrenderable
<1> QED
  BY <1>1, Invariance, PTL

\* Providers are contacted for nothing the settings did not allow at some moment
\* since the request arrived (handleNotification, migrateNotificationAdapter).
THEOREM OnlyConfigured == Spec => []OnlyAsConfigured
<1>1. ASSUME IInv PROVE OnlyAsConfigured
  <2> SUFFICES ASSUME NEW a \in Apps, Contacted(a)
               PROVE  \E s \in since[a] : Allowed(s, event[a])
    BY DEF OnlyAsConfigured, Contacted
  <2>1. /\ read[a] \in since[a]
        /\ Admitted(read[a], event[a]) /\ Permitted(read[a], event[a])
        /\ read[a] \in Settings /\ event[a] \in Event
    BY <1>1 DEF IInv, AppInv, Contacts, TypeOK
  <2> QED
    BY <2>1, PermittedFacts
<1> QED
  BY <1>1, Invariance, PTL

\* What /api/config advertised is refused only when the settings have changed since
\* (/api/config in handleRequest and handleNotification read the same adapter).
THEOREM AdvertisedKept == Spec => []AdvertisedHonoured
<1>1. ASSUME IInv PROVE AdvertisedHonoured
  <2> SUFFICES ASSUME NEW a \in Apps, answer[a].kind = "refused", event[a].key,
                      event[a].wellFormed, Advertised(config[a], event[a])
               PROVE  \E s, t \in known[a] : s # t
    BY DEF AdvertisedHonoured
  <2>1. /\ pc[a] = "answered" /\ read[a] \in known[a]
        /\ ~(Admitted(read[a], event[a]) /\ Permitted(read[a], event[a]))
        /\ event[a] \in Event /\ known[a] \subseteq Settings
    BY <1>1 DEF IInv, AppInv, Answering, TypeOK
  <2>2. PICK c \in known[a] : config[a] = ConfigOf(c)
    BY <1>1, <2>1 DEF IInv, AppInv, History
  <2>3. Admitted(c, event[a]) /\ Permitted(c, event[a])
    BY <2>1, <2>2, AdvertisedPermitted
  <2> QED
    BY <2>1, <2>2, <2>3
<1> QED
  BY <1>1, Invariance, PTL

\* Two deliveries take no longer than one, and neither longer than the largest
\* timeout (AbortSignal.timeout, Promise.all).
THEOREM BudgetKept == Spec => []InBudget
<1>1. IInv => InBudget
  BY DEF IInv, AppInv, Waiting, Budget, InBudget
<1> QED
  BY <1>1, Invariance, PTL

=============================================================================
