---------------------------- MODULE CatalogRules ----------------------------
(***************************************************************************)
(* What a stored catalog may hold.  The panel publishes profiles (POST     *)
(* /api/publish) and saves settings (POST /api/settings) apart from each   *)
(* other, yet the two refer to each other and profiles refer to profiles.  *)
(* A route therefore validates the whole catalog that will be stored       *)
(* (api/worker-api-routes.js, api/worker-publish-validation.js): every     *)
(* change goes through the rules of ProfileRules, AlternateEntries,        *)
(* DailyStats and Capabilities, whichever half it touches.                 *)
(*                                                                         *)
(* Requests take effect one after another here: a request whose baseVersion *)
(* is not the stored version is refused, which CatalogStore models with    *)
(* its interleavings and refines to an atomic register.                    *)
(***************************************************************************)
EXTENDS DailyStats, Capabilities, SequencesExt

CONSTANTS EnvAdapter,  \* BACKEND_ADAPTER_JSON
          EnvBase,     \* BACKEND_API_BASE
          ValidBases,  \* addresses a backend may have
          Publishes,   \* bodies of /api/publish: [profiles, replace]
          Saves        \* bodies of /api/settings: [order, profiles, change]

\* The settings that a rule relates to another setting or to the profiles.  The
\* others a body may bring (brand, webOrigin, minAppVersionCode, notifyWebhook,
\* diagnosticsPolicy ...) are stored as they come.  Cards come in lists.
IsList(s) == DOMAIN s = 1..Len(s) /\ Len(s) \in Nat
CardsAreLists(doc) ==
    \A cards \in {doc.groups, doc.flats} : \A c \in DOMAIN cards : IsList(cards[c].selectors)
SettingNames == {"dailyStats", "dailyStatsV2", "dailyStatsAlternate", "backendAdapter", "notifier",
                 "backendApiBase", "endpoints", "updateSource", "updateOwner", "updateRepo"}
                \cup Signals
ASSUME SavesAssumption == \A body \in Saves :
    /\ DOMAIN body.change \subseteq SettingNames
    /\ \A name \in {"dailyStatsV2", "dailyStatsAlternate"} \cap DOMAIN body.change :
        body.change[name] # None => CardsAreLists(body.change[name])

VARIABLES profiles,    \* the stored profiles, in the order the App lists them
          settings     \* the stored settings
vars == <<profiles, settings>>

NoAdapter == [base |-> None, endpoints |-> <<>>, auth |-> <<>>, parts |-> <<>>,
              submitRules |-> <<>>, recipeRules |-> <<>>,
              resolvers |-> <<>>, overrideResolvers |-> {}]

\* config/seed-catalog: no profiles and no settings.
NoSettings == [name \in SettingNames |-> IF name = "endpoints" THEN <<>> ELSE None]

-----------------------------------------------------------------------------
(* The gates *)

\* resolveBackendAdapter; every route calls it first, and nobody gets past it
\* when the merged document is not a valid adapter.  The flat address and
\* endpoints of older settings come last; their flat session signals come before
\* the environment.
FlatSignals(s) == [name \in {n \in Signals : s[n] # None} |-> s[name]]
Legacy(s) == [NoAdapter EXCEPT !.base = Or(s.backendApiBase, EnvBase), !.endpoints = s.endpoints]
Adapter(s) == Merged(Or(s.backendAdapter, NoAdapter),
                     Merged([NoAdapter EXCEPT !.auth = FlatSignals(s)],
                            Merged(EnvAdapter, Legacy(s))))
Resolves(s) == AdapterOk(Adapter(s), ValidBases)

\* validateForPublish: the rules of a profile, and what must be said explicitly.
ForPublish(p) ==
    /\ FormOk(p) /\ EntriesOk(p)
    /\ p.reviewed /\ p.unsetPolicies = {}
    /\ \A i \in DOMAIN p.entries : p.entries[i].maxAttempts # None
    /\ p.id # None /\ p.sku # None /\ p.snPrimary # None
    /\ p.templateId \in 1..AndroidIntMax /\ p.warehouseId \in 1..AndroidIntMax
    /\ p.photoSlots # <<>> \/ p.uploadFields # <<>>
    /\ p.graded => DOMAIN p.gradeMap # {}

\* A bug: two profiles may share an id.
ProfilesOkAnyIds(incoming, catalog) ==
    \A i \in DOMAIN incoming : ForPublish(incoming[i]) /\ ReferencesOk(incoming[i], catalog)

\* validateProfilesForPublish
ProfilesOk(incoming, catalog) ==
    /\ \A i \in DOMAIN incoming : ForPublish(incoming[i]) /\ ReferencesOk(incoming[i], catalog)
    /\ \A i, j \in DOMAIN incoming : incoming[i].id = incoming[j].id => i = j

\* validateUpdateSourceCompatibility and validateLegacyAppCompatibility: where
\* older Apps look agrees with where newer ones do.
UpdateSourceOk(s) == s.updateSource # None =>
    s.updateOwner = s.updateSource.owner /\ s.updateRepo = s.updateSource.repo
LegacyBackendOk(s) ==
    LET a == Adapter(s) IN
    /\ IfSet(s.backendApiBase, {a.base})
    /\ \A name \in DOMAIN s.endpoints :
        Endpoint(a, name) /\ a.endpoints[name] = s.endpoints[name]
    /\ \A name \in Signals : s[name] # None =>
        name \in DOMAIN a.auth /\ a.auth[name] = s[name]

-----------------------------------------------------------------------------
(* POST /api/publish *)

IdsOf(ps) == {ps[i].id : i \in DOMAIN ps}

\* Upsert by id: a stored profile is replaced where it stands, a new one is
\* appended.
Upsert(ps, p) ==
    IF p.id \in IdsOf(ps)
    THEN [i \in DOMAIN ps |-> IF ps[i].id = p.id THEN p ELSE ps[i]]
    ELSE Append(ps, p)

Published(body) ==
    IF body.replace THEN body.profiles ELSE FoldLeft(Upsert, profiles, body.profiles)

\* Bugs: the profiles that were stored already, the cards of the summary or the
\* notification adapter are not looked at again.
PublishAcceptedIncoming(incoming, final) ==
    /\ incoming # <<>> /\ ProfilesOk(incoming, final) /\ StatsOk(settings, final)
    /\ WorkflowSupported(final, Adapter(settings))
    /\ NotificationSupported(final, settings.notifier)
PublishAcceptedCards(incoming, final) ==
    /\ incoming # <<>> /\ ProfilesOk(incoming, final) /\ ProfilesOk(final, final)
    /\ WorkflowSupported(final, Adapter(settings))
    /\ NotificationSupported(final, settings.notifier)
PublishAcceptedNotifier(incoming, final) ==
    /\ incoming # <<>> /\ ProfilesOk(incoming, final) /\ ProfilesOk(final, final)
    /\ StatsOk(settings, final) /\ WorkflowSupported(final, Adapter(settings))

PublishAccepted(incoming, final) ==
    /\ incoming # <<>>
    /\ ProfilesOk(incoming, final)
    /\ ProfilesOk(final, final)
    /\ StatsOk(settings, final)
    /\ WorkflowSupported(final, Adapter(settings))
    /\ NotificationSupported(final, settings.notifier)

\* The rules are one guard: "= TRUE" has TLC evaluate them as an expression
\* instead of branching on each quantifier in them.
Publish(body) ==
    /\ Resolves(settings)
    /\ PublishAccepted(body.profiles, Published(body)) = TRUE
    /\ profiles' = Published(body)
    /\ UNCHANGED settings

-----------------------------------------------------------------------------
(* POST /api/settings *)

\* A list of ids reorders: unknown ids and repetitions are ignored, profiles
\* that are not named follow.
PlaceNext(ordered, id) ==
    IF id \in IdsOf(profiles) \ IdsOf(ordered)
    THEN Append(ordered, profiles[CHOOSE i \in DOMAIN profiles : profiles[i].id = id])
    ELSE ordered
\* A bug: the order is taken for the whole list.
ReorderedNamed(ids) == FoldLeft(PlaceNext, <<>>, ids)
Reordered(ids) ==
    LET placed == FoldLeft(PlaceNext, <<>>, ids)
    IN  placed \o SelectSeq(profiles, LAMBDA p : p.id \notin Range(ids))

SavedProfiles(body) ==
    IF body.profiles # <<>> THEN body.profiles
    ELSE IF body.order # <<>> THEN Reordered(body.order) ELSE profiles

\* A change is a function on the settings it names, None to clear one that can
\* be cleared; it replaces a setting as a whole.  An update source brings the
\* flat coordinates older Apps read with it.
WithCoordinates(change) ==
    IF "updateSource" \in DOMAIN change /\ change.updateSource # None
    THEN Over([updateOwner |-> change.updateSource.owner,
               updateRepo  |-> change.updateSource.repo], change)
    ELSE change
\* A bug: the flat endpoints a body brings are added to the stored ones.
SavedSettingsAdded(change) ==
    LET saved == Over(WithCoordinates(change), settings)
    IN  [saved EXCEPT !.endpoints = Over(@, settings.endpoints)]
SavedSettings(change) == Over(WithCoordinates(change), settings)

\* Values a save may not bring: an adapter that is not valid by itself, flat
\* coordinates that contradict the update source beside them.  There is no
\* command that takes an adapter or a flat signal away.
ChangeOk(change) ==
    /\ "backendAdapter" \in DOMAIN change =>
        change.backendAdapter # None /\ AdapterOk(change.backendAdapter, ValidBases)
    /\ \A name \in Signals \cap DOMAIN change : change[name] # None
    /\ "updateSource" \in DOMAIN change /\ change.updateSource # None =>
        /\ "updateOwner" \in DOMAIN change =>
              IfSet(change.updateOwner, {change.updateSource.owner})
        /\ "updateRepo" \in DOMAIN change =>
              IfSet(change.updateRepo, {change.updateSource.repo})

SaveAccepted(final, saved) ==
    /\ ProfilesOk(final, final)
    /\ StatsOk(saved, final)
    /\ UpdateSourceOk(saved)
    /\ Resolves(saved)
    /\ WorkflowSupported(final, Adapter(saved))
    /\ LegacyBackendOk(saved)
    /\ NotificationSupported(final, saved.notifier)

SaveSettings(body) ==
    /\ Resolves(settings)
    /\ ChangeOk(body.change)
    /\ SaveAccepted(SavedProfiles(body), SavedSettings(body.change)) = TRUE
    /\ profiles' = SavedProfiles(body)
    /\ settings' = SavedSettings(body.change)

-----------------------------------------------------------------------------

Init == profiles = <<>> /\ settings = NoSettings

Next == \/ \E body \in Publishes : Publish(body)
        \/ \E body \in Saves : SaveSettings(body)

Spec == Init /\ [][Next]_vars

-----------------------------------------------------------------------------
(* Properties *)

\* Profiles have ids of their own, no setting is lost by a save, cards are lists.
TypeOK ==
    /\ \A i, j \in DOMAIN profiles : profiles[i].id = profiles[j].id => i = j
    /\ DOMAIN settings = SettingNames
    /\ settings.dailyStatsV2 # None => CardsAreLists(settings.dailyStatsV2)
    /\ settings.dailyStatsAlternate # None => CardsAreLists(settings.dailyStatsAlternate)

\* Every alternate entry of a stored catalog can be submitted: its target is
\* there, once, and hidden from the picker; and whichever toggles the operator
\* has on and whichever preset is chosen, no field of the target gets two
\* overrides, none of them writes the serial number, and what is read from the
\* live template goes neither over the result nor over a photo.  Profiles are
\* published one at a time, and it is the target that may change.
EntriesSubmittable == \A i \in DOMAIN profiles : \A n \in DOMAIN profiles[i].entries :
    LET e == profiles[i].entries[n] IN
    /\ \E j \in DOMAIN profiles : profiles[j].id = e.target
    /\ \A t \in Targets(e, profiles) :
        /\ t.visible = "no"
        /\ \A on \in SUBSET ToggleKeys(e), q \in {{}} \cup {r.overrides : r \in Presets(e)} :
            \A v, w \in Overrides(e, on, q) :
                /\ v[2] = w[2] => v = w
                /\ v[2] # t.snPrimary
                /\ v[1][1] = "provider" =>
                      v[2] \notin GradeFields(t) \cup DeclaredPhotoFields(t)

\* What is submitted through an alternate entry is counted as that entry only:
\* no card of dailyStatsV2 counts results of the profile an entry submits into,
\* so that only dailyStatsAlternateEntries attributes it.  Cards, entries and
\* the target come with different requests, and it is the profile list that
\* turns a profile whose results a card counts into the target of an entry.
EntryCountedApart == settings.dailyStatsV2 # None =>
    \A i \in DOMAIN profiles : \A n \in DOMAIN profiles[i].entries :
        \A x \in Selected(settings.dailyStatsV2.groups) \cup Selected(settings.dailyStatsV2.flats) :
            x[1] # profiles[i].entries[n].target

\* Every card of the daily summary counts something the operator can record: a
\* result of a profile the picker shows or an alternate entry of one, although
\* profiles and cards are published apart.
CardsHaveSources ==
    LET v2  == settings.dailyStatsV2
        alt == settings.dailyStatsAlternate
        recordable(x, source) == \E i \in DOMAIN profiles :
            /\ profiles[i].visible = "yes" /\ profiles[i].id = x[1]
            /\ IF source = "result" THEN x[2] \in DOMAIN profiles[i].gradeMap
               ELSE \E n \in DOMAIN profiles[i].entries : profiles[i].entries[n].id = x[2]
        counts(cards, id, source) == \E c \in DOMAIN cards : \E n \in DOMAIN cards[c].selectors :
            cards[c].id = id /\ recordable(cards[c].selectors[n], source)
    IN  v2 # None =>
            /\ \A id \in Ids(v2.groups) : counts(v2.groups, id, "result")
            /\ \A id \in Ids(v2.flats) :
                counts(v2.flats, id, "result") \/ (alt # None /\ counts(alt.flats, id, "entry"))

\* The scanner an App ends up with, once it has filled in the length of the
\* profile, takes identifiers of some length.
ScannersTakeSomething == \A i \in DOMAIN profiles :
    \E n \in 1..256 : Takes(profiles[i], n)

\* Whatever was saved before, one save moves the panel and all Apps, older ones
\* too, to any backend that supports the stored profiles: the flat address,
\* endpoints and signals older Apps read are compared with the adapter, and
\* signals cannot be cleared, but none of them is in the way of a save that
\* clears what it can and repeats the signals of the new adapter.
Offered ==
    {body.change.backendAdapter : body \in {b \in Saves : "backendAdapter" \in DOMAIN b.change}}
MoveTo(a) ==
    Over([backendAdapter |-> a, backendApiBase |-> None, endpoints |-> <<>>], a.auth)

BackendReplaceable == Resolves(settings) => \A a \in Offered :
    LET saved == SavedSettings(MoveTo(a)) IN
    /\ ChangeOk([backendAdapter |-> a])
    /\ Resolves(saved) /\ WorkflowSupported(profiles, Adapter(saved))
    => ChangeOk(MoveTo(a)) /\ SaveAccepted(profiles, saved)

\* No retry without an answer that says "not written": a profile or an entry
\* that submits again, or recovers a missing material by submitting again, is
\* stored only beside an adapter that attests such answers.
RetriesNeverDuplicate == \A i \in DOMAIN profiles :
    LET rules == Adapter(settings).submitRules IN
    /\ profiles[i].maxAttempts > 1 => Attests(rules, "retryableNotWritten")
    /\ profiles[i].missingRecovery =>
        Attests(rules, "retryableNotWritten") /\ Attests(rules, "missingMaterialNotWritten")
    /\ \A n \in DOMAIN profiles[i].entries :
        profiles[i].entries[n].maxAttempts > 1 => Attests(rules, "retryableNotWritten")

\* No sequence of publishes and saves leads into a catalog that cannot be left:
\* once the environment configures a backend, the stored catalog passes every
\* rule of a save that changes nothing, so that a later change is refused for
\* its own sake only, and the panel can always be reached.
LaterSavesAccepted == Resolves(NoSettings) => SaveAccepted(profiles, settings)

\* A step that does not post a whole list loses no profile and makes none up:
\* saving an order permutes the stored ones, whichever ids the panel names, and
\* a publish keeps the place of each, and the content of those it does not bring.
WholeLists == {body.profiles : body \in {b \in Publishes : b.replace}}
              \cup {body.profiles : body \in {b \in Saves : b.profiles # <<>>}}

ProfilesKept == [][profiles' \notin WholeLists =>
    \/ Len(profiles') = Len(profiles) /\ Range(profiles') = Range(profiles)
    \/ \E body \in Publishes :
        /\ Range(profiles') \subseteq Range(profiles) \cup Range(body.profiles)
        /\ \A i \in DOMAIN profiles :
            /\ i \in DOMAIN profiles'
            /\ profiles'[i] \in {profiles[i]}
                                \cup {p \in Range(body.profiles) : p.id = profiles[i].id}]_vars

=============================================================================
