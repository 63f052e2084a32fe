-------------------------- MODULE CatalogRulesProofs --------------------------
(***************************************************************************)
(* What every stored catalog satisfies, for any profiles, entries, cards,  *)
(* adapters, environment and sequence of publishes and saves.              *)
(***************************************************************************)
EXTENDS CatalogRules, TLAPS

-----------------------------------------------------------------------------
(* The inductive invariant: without a backend in the environment nothing is *)
(* ever stored; with one, what is stored would be accepted again.           *)

Untouched == profiles = <<>> /\ settings = NoSettings
IInv == Untouched \/ (Resolves(settings) /\ SaveAccepted(profiles, settings))

LEMMA NothingSet ==
    /\ \A name \in {"dailyStats", "dailyStatsV2", "dailyStatsAlternate", "notifier",
                     "backendApiBase", "updateSource"} \cup Signals : NoSettings[name] = None
    /\ DOMAIN NoSettings.endpoints = {}
  BY DEF NoSettings, SettingNames, Signals

\* Nothing at all passes every rule of a save, given a backend.
LEMMA EmptyAccepted ==
    ASSUME Resolves(NoSettings)
    PROVE  SaveAccepted(<<>>, NoSettings)
<1>1. ProfilesOk(<<>>, <<>>)
  BY DEF ProfilesOk
<1>2. StatsOk(NoSettings, <<>>)
  BY NothingSet DEF StatsOk, DailyStatsOk, DailyStatsV2Ok, AlternateStatsOk
<1>3. UpdateSourceOk(NoSettings)
  BY NothingSet DEF UpdateSourceOk
<1>4. LegacyBackendOk(NoSettings)
  BY NothingSet DEF LegacyBackendOk, IfSet
<1>5. Range(<<>>) = {}
  BY DEF Range
<1>6. WorkflowSupported(<<>>, Adapter(NoSettings))
  BY <1>5 DEF WorkflowSupported, StepProfiles, DynamicRecipes, RecipeProfiles, EntriesOf,
     Providers, Retrying, PreviousStepsSupported, DynamicRecipesSupported,
     RecipeOutcomesAttested, OverridesSupported, PrintingSupported,
     DuplicateCheckSupported, RecoverySupported, RetriesAttested, RefreshSupported
<1>7. NotificationSupported(<<>>, NoSettings.notifier)
  BY <1>5 DEF NotificationSupported
<1> QED
  BY <1>1, <1>2, <1>3, <1>4, <1>6, <1>7 DEF SaveAccepted

LEMMA InvInit == Init => IInv
  BY DEF Init, IInv, Untouched

LEMMA InvStep == IInv /\ [Next]_vars => IInv'
<1> SUFFICES ASSUME IInv, [Next]_vars
             PROVE  IInv'
  OBVIOUS
<1>1. ASSUME NEW body \in Publishes, Publish(body)
      PROVE  IInv'
  <2>1. Resolves(settings) /\ settings' = settings /\ profiles' = Published(body)
    BY <1>1 DEF Publish
  <2>2. PublishAccepted(body.profiles, Published(body))
    BY <1>1 DEF Publish
  <2>3. UpdateSourceOk(settings) /\ LegacyBackendOk(settings)
    <3>1. CASE Untouched
      BY <3>1, <2>1, EmptyAccepted DEF Untouched, SaveAccepted
    <3>2. CASE SaveAccepted(profiles, settings)
      BY <3>2 DEF SaveAccepted
    <3> QED
      BY <3>1, <3>2 DEF IInv
  <2>4. SaveAccepted(Published(body), settings)
    BY <2>1, <2>2, <2>3 DEF SaveAccepted, PublishAccepted
  <2>5. Resolves(settings') /\ SaveAccepted(profiles', settings')
    BY <2>1, <2>4
  <2> QED
    BY <2>5 DEF IInv
<1>2. ASSUME NEW body \in Saves, SaveSettings(body)
      PROVE  IInv'
  <2>1. SaveAccepted(profiles', settings')
    BY <1>2 DEF SaveSettings
  <2>2. Resolves(settings')
    BY <2>1 DEF SaveAccepted
  <2> QED
    BY <2>1, <2>2 DEF IInv
<1>3. CASE UNCHANGED vars
  BY <1>3 DEF vars, IInv, Untouched
<1> QED
  BY <1>1, <1>2, <1>3 DEF Next

THEOREM StoredAccepted == Spec => []IInv
<1>1. Init => IInv
  BY InvInit
<1>2. IInv /\ [Next]_vars => IInv'
  BY InvStep
<1> QED
  BY <1>1, <1>2, PTL DEF Spec

-----------------------------------------------------------------------------
(* What the invariant says of one stored profile.                          *)

LEMMA StoredProfiles ==
    ASSUME IInv, NEW i \in DOMAIN profiles
    PROVE  /\ Resolves(settings) /\ SaveAccepted(profiles, settings)
           /\ ForPublish(profiles[i]) /\ ReferencesOk(profiles[i], profiles)
           /\ profiles[i] \in Range(profiles)
<1>1. ~Untouched
  BY DEF Untouched
<1>2. Resolves(settings) /\ SaveAccepted(profiles, settings)
  BY <1>1 DEF IInv
<1>3. ForPublish(profiles[i]) /\ ReferencesOk(profiles[i], profiles)
  BY <1>2 DEF SaveAccepted, ProfilesOk
<1>4. profiles[i] \in Range(profiles)
  BY DEF Range
<1> QED
  BY <1>2, <1>3, <1>4

-----------------------------------------------------------------------------
(* Retries.                                                                *)

LEMMA RetriesFromInv == IInv => RetriesNeverDuplicate
<1> SUFFICES ASSUME IInv, NEW i \in DOMAIN profiles
             PROVE  LET rules == Adapter(settings).submitRules IN
                    /\ profiles[i].maxAttempts > 1 => Attests(rules, "retryableNotWritten")
                    /\ profiles[i].missingRecovery =>
                          /\ Attests(rules, "retryableNotWritten")
                          /\ Attests(rules, "missingMaterialNotWritten")
                    /\ \A n \in DOMAIN profiles[i].entries :
                          profiles[i].entries[n].maxAttempts > 1
                              => Attests(rules, "retryableNotWritten")
  BY DEF RetriesNeverDuplicate
<1> DEFINE p == profiles[i]
           rules == Adapter(settings).submitRules
<1>1. WorkflowSupported(profiles, Adapter(settings)) /\ ForPublish(p) /\ p \in Range(profiles)
  BY StoredProfiles DEF SaveAccepted
<1>2. Retrying(Range(profiles)) => Attests(rules, "retryableNotWritten")
  BY <1>1 DEF WorkflowSupported, RetriesAttested
<1>3. p.maxAttempts > 1 => Retrying(Range(profiles))
  BY <1>1 DEF Retrying
<1>4. p.missingRecovery => p.maxAttempts > 1
  <2>1. SubmissionOk(p)
    BY <1>1 DEF ForPublish, FormOk, RuntimePolicyOk
  <2> QED
    BY <2>1 DEF SubmissionOk
<1>5. p.missingRecovery => Attests(rules, "missingMaterialNotWritten")
  BY <1>1 DEF WorkflowSupported, RecoverySupported
<1>6. ASSUME NEW n \in DOMAIN p.entries, p.entries[n].maxAttempts > 1
      PROVE  Retrying(Range(profiles))
  <2>1. p.entries[n].maxAttempts # None
    BY <1>1 DEF ForPublish
  <2>2. p.entries[n] \in EntriesOf(Range(profiles))
    BY <1>1 DEF EntriesOf, Range
  <2> QED
    BY <2>1, <2>2, <1>6 DEF Retrying
<1> QED
  BY <1>2, <1>3, <1>4, <1>5, <1>6

\* Whatever is stored, no submission is repeated without an attested answer.
THEOREM NoUnattestedRetry == Spec => []RetriesNeverDuplicate
  BY StoredAccepted, RetriesFromInv, PTL

-----------------------------------------------------------------------------
(* Scanners.                                                               *)

LEMMA PrimaryScannerOk ==
    ASSUME NEW p, FormOk(p)
    PROVE  LengthsOk(PrimaryScanner(p)) /\ FallbackOk(p)
           /\ IfSet(p.expectedSnLength, Nat \ {0})
<1>1. SnPluginsOk(p.snPlugins) /\ ScannerPolicyOk(p.scanner) /\ FallbackOk(p)
      /\ IfSet(p.expectedSnLength, Nat \ {0})
  BY DEF FormOk, RuntimePolicyOk
<1>2. CASE PrimaryScanners(p) # {}
  <2>1. PrimaryScanner(p) \in PrimaryScanners(p)
    BY <1>2 DEF PrimaryScanner
  <2>2. PICK j \in DOMAIN p.snPlugins : PrimaryScanner(p) = p.snPlugins[j].scanner
    BY <2>1 DEF PrimaryScanners
  <2>3. PrimaryScanner(p) # None
    BY <2>1 DEF PrimaryScanners
  <2>4. ScannerPolicyOk(PrimaryScanner(p))
    BY <1>1, <2>2 DEF SnPluginsOk
  <2> QED
    BY <1>1, <2>3, <2>4 DEF ScannerPolicyOk
<1>3. CASE PrimaryScanners(p) = {} /\ p.scanner # None
  <2>1. PrimaryScanner(p) = p.scanner
    BY <1>3 DEF PrimaryScanner
  <2> QED
    BY <1>1, <1>3, <2>1 DEF ScannerPolicyOk
<1>4. CASE PrimaryScanners(p) = {} /\ p.scanner = None
  <2>1. PrimaryScanner(p) = EmptyScanner
    BY <1>4 DEF PrimaryScanner
  <2>2. LengthsOk(EmptyScanner)
    BY DEF LengthsOk, EmptyScanner, IfSet
  <2> QED
    BY <1>1, <2>1, <2>2
<1> QED
  BY <1>2, <1>3, <1>4

\* A scanner whose lengths agree with each other and with the length of the
\* profile takes the expected length, an allowed one, or a bound.
LEMMA TakesSomeLength ==
    ASSUME NEW p, FormOk(p)
    PROVE  \E n \in 1..256 : Takes(p, n)
<1> DEFINE s == PrimaryScanner(p)
<1>1. LengthsOk(s) /\ FallbackOk(p) /\ IfSet(p.expectedSnLength, Nat \ {0})
  BY PrimaryScannerOk
<1>2. CASE s.expected # None
  <2>1. s.expected \in 1..256 /\ Within(s, s.expected)
        /\ (s.allowed # None => s.expected \in Range(s.allowed))
    BY <1>1, <1>2 DEF LengthsOk, IfSet
  <2>2. Takes(p, s.expected)
    BY <1>2, <2>1 DEF Takes, EffectiveLength, IfSet
  <2> QED
    BY <2>1, <2>2
<1>3. CASE s.expected = None /\ p.expectedSnLength # None
  <2>1. p.expectedSnLength \in 1..256 /\ Within(s, p.expectedSnLength)
        /\ (s.allowed # None => p.expectedSnLength \in Range(s.allowed))
    BY <1>1, <1>3 DEF FallbackOk, IfSet
  <2>2. Takes(p, p.expectedSnLength)
    BY <1>3, <2>1 DEF Takes, EffectiveLength, IfSet
  <2> QED
    BY <2>1, <2>2
<1>4. CASE s.expected = None /\ p.expectedSnLength = None
  <2>1. EffectiveLength(p) = None
    BY <1>4 DEF EffectiveLength
  <2>2. CASE s.allowed # None
    <3>1. PICK n \in Range(s.allowed) : n \in 1..256 /\ Within(s, n)
      BY <1>1, <2>2 DEF LengthsOk
    <3>2. Takes(p, n)
      BY <2>1, <3>1 DEF Takes, IfSet
    <3> QED
      BY <3>1, <3>2
  <2>3. CASE s.allowed = None
    <3>1. IfSet(s.min, 1..256) /\ IfSet(s.max, 1..256)
          /\ (s.min # None /\ s.max # None => s.min <= s.max)
      BY <1>1 DEF LengthsOk
    <3>2. PICK n \in 1..256 : Within(s, n)
      <4>1. CASE s.max # None
        <5>1. s.max \in 1..256 /\ Within(s, s.max)
          BY <3>1, <4>1 DEF Within, IfSet
        <5> QED
          BY <5>1
      <4>2. CASE s.max = None
        <5>1. Within(s, 256)
          BY <3>1, <4>2 DEF Within, IfSet
        <5> QED
          BY <5>1
      <4> QED
        BY <4>1, <4>2
    <3>3. Takes(p, n)
      BY <2>1, <2>3, <3>2 DEF Takes, IfSet
    <3> QED
      BY <3>3
  <2> QED
    BY <2>2, <2>3
<1> QED
  BY <1>2, <1>3, <1>4

\* No stored profile leaves an App with a scanner that takes nothing.
THEOREM ScannersUsable == Spec => []ScannersTakeSomething
<1>1. IInv => ScannersTakeSomething
  BY StoredProfiles, TakesSomeLength DEF ForPublish, ScannersTakeSomething
<1> QED
  BY <1>1, StoredAccepted, PTL

-----------------------------------------------------------------------------
(* Settings.                                                               *)

\* Nothing stored is ever in the way of a later save.
THEOREM AlwaysSavable == Spec => []LaterSavesAccepted
<1>1. IInv => LaterSavesAccepted
  BY EmptyAccepted DEF IInv, Untouched, LaterSavesAccepted
<1> QED
  BY <1>1, StoredAccepted, PTL

LEMMA StoredStats ==
    ASSUME IInv
    PROVE  StatsOk(settings, profiles)
<1>1. CASE Untouched
  BY <1>1, NothingSet DEF Untouched, StatsOk, DailyStatsOk, DailyStatsV2Ok, AlternateStatsOk
<1>2. CASE SaveAccepted(profiles, settings)
  BY <1>2 DEF SaveAccepted
<1> QED
  BY <1>1, <1>2 DEF IInv

-----------------------------------------------------------------------------
(* Alternate entries.                                                      *)

\* The target of an entry is there once, and fits it.
LEMMA EntryTarget ==
    ASSUME IInv, NEW i \in DOMAIN profiles, NEW n \in DOMAIN profiles[i].entries
    PROVE  LET e == profiles[i].entries[n] IN
           /\ EntryOk(profiles[i], e)
           /\ \E j \in DOMAIN profiles : profiles[j].id = e.target
           /\ \A t \in Targets(e, profiles) : EntryTargetOk(e, t)
<1> DEFINE e == profiles[i].entries[n]
<1>1. EntryOk(profiles[i], e)
  BY StoredProfiles DEF ForPublish, EntriesOk
<1>2. PICK j \in DOMAIN profiles :
        /\ profiles[j].id = e.target
        /\ \A k \in DOMAIN profiles : profiles[k].id = e.target => k = j
        /\ EntryTargetOk(e, profiles[j])
  BY StoredProfiles DEF ReferencesOk
<1>3. \A t \in Targets(e, profiles) : t = profiles[j]
  BY <1>2 DEF Targets
<1> QED
  BY <1>1, <1>2, <1>3

\* An override comes from the entry, a toggle, the preset or a provider.
LEMMA OverrideOrigins ==
    ASSUME NEW e, NEW on, NEW q, NEW x \in Overrides(e, on, q)
    PROVE  \/ \E f \in e.overrides : x = <<<<"entry", 0>>, f>>
           \/ \E k \in DOMAIN e.toggles : \E f \in e.toggles[k].overrides :
                  x = <<<<"toggle", k>>, f>>
           \/ \E f \in q : x = <<<<"preset", 0>>, f>>
           \/ \E k \in DOMAIN e.providers : x = <<<<"provider", k>>, e.providers[k].field>>
<1> DEFINE FromEntry == {<<<<"entry", 0>>, f>> : f \in e.overrides}
           FromToggles == UNION {{<<<<"toggle", i>>, f>> : f \in e.toggles[i].overrides} :
                            i \in {j \in DOMAIN e.toggles : e.toggles[j].key \in on}}
           FromPreset == {<<<<"preset", 0>>, f>> : f \in q}
           FromProviders == {<<<<"provider", i>>, e.providers[i].field>> :
                            i \in {j \in DOMAIN e.providers : e.providers[j].trigger \in on}}
<1>1. Overrides(e, on, q) = FromEntry \cup FromToggles \cup FromPreset \cup FromProviders
  BY DEF Overrides
<1>2. CASE x \in FromEntry
  BY <1>2
<1>3. CASE x \in FromToggles
  BY <1>3
<1>4. CASE x \in FromPreset
  BY <1>4
<1>5. CASE x \in FromProviders
  BY <1>5
<1> HIDE DEF FromEntry, FromToggles, FromPreset, FromProviders
<1> QED
  BY <1>1, <1>2, <1>3, <1>4, <1>5

\* Static overrides with the toggles `on` and one preset have one owner each.
LEMMA OneOwner ==
    ASSUME NEW p, NEW e, NEW t, EntryOk(p, e), EntryTargetOk(e, t), NEW on,
           NEW q \in {{}} \cup {r.overrides : r \in Presets(e)},
           NEW v \in Overrides(e, on, q), NEW w \in Overrides(e, on, q), v[2] = w[2]
    PROVE  v = w
<1>1. OwnersOk(e) /\ ProvidersOk(e)
  BY DEF EntryOk, EntryTargetOk, OverridesOk
<1>2. q \cap (e.overrides \cup ToggledFields(e)) = {} /\ q \subseteq PresetFields(e)
  BY <1>1 DEF OwnersOk, PresetFields
<1> DEFINE Entry(x) == x[1] = <<"entry", 0>> /\ x = <<<<"entry", 0>>, x[2]>> /\ x[2] \in e.overrides
           Toggle(x) == \E k \in DOMAIN e.toggles :
                            x = <<<<"toggle", k>>, x[2]>> /\ x[2] \in e.toggles[k].overrides
           Preset(x) == x = <<<<"preset", 0>>, x[2]>> /\ x[2] \in q
           Provider(x) == \E k \in DOMAIN e.providers :
                            x = <<<<"provider", k>>, x[2]>> /\ x[2] = e.providers[k].field
<1>3. \A x \in Overrides(e, on, q) : Entry(x) \/ Toggle(x) \/ Preset(x) \/ Provider(x)
  <2> SUFFICES ASSUME NEW x \in Overrides(e, on, q)
               PROVE  Entry(x) \/ Toggle(x) \/ Preset(x) \/ Provider(x)
    OBVIOUS
  <2>1. CASE \E f \in e.overrides : x = <<<<"entry", 0>>, f>>
    BY <2>1
  <2>2. CASE \E k \in DOMAIN e.toggles : \E f \in e.toggles[k].overrides :
                  x = <<<<"toggle", k>>, f>>
    BY <2>2
  <2>3. CASE \E f \in q : x = <<<<"preset", 0>>, f>>
    BY <2>3
  <2>4. CASE \E k \in DOMAIN e.providers : x = <<<<"provider", k>>, e.providers[k].field>>
    BY <2>4
  <2> HIDE DEF Entry, Toggle, Preset, Provider
  <2> QED
    BY <2>1, <2>2, <2>3, <2>4, OverrideOrigins
<1>4. \A x : Toggle(x) => x[2] \in ToggledFields(e)
  BY DEF ToggledFields
<1>5. \A x : Entry(x) \/ Toggle(x) \/ Preset(x) => x[2] \in StaticFields(e)
  BY <1>2, <1>4 DEF StaticFields
<1>6. \A x : Provider(x) => x[2] \notin StaticFields(e)
  BY <1>1 DEF ProvidersOk
<1>7. CASE Entry(v) /\ Entry(w)
  BY <1>7
<1>8. CASE Preset(v) /\ Preset(w)
  BY <1>8
<1>9. CASE Toggle(v) /\ Toggle(w)
  <2>1. PICK k \in DOMAIN e.toggles : v = <<<<"toggle", k>>, v[2]>> /\ v[2] \in e.toggles[k].overrides
    BY <1>9
  <2>2. PICK l \in DOMAIN e.toggles : w = <<<<"toggle", l>>, w[2]>> /\ w[2] \in e.toggles[l].overrides
    BY <1>9
  <2>3. k = l
    BY <1>1, <2>1, <2>2 DEF OwnersOk
  <2> QED
    BY <2>1, <2>2, <2>3
<1>10. CASE Provider(v) /\ Provider(w)
  <2>1. PICK k \in DOMAIN e.providers : v = <<<<"provider", k>>, v[2]>> /\ v[2] = e.providers[k].field
    BY <1>10
  <2>2. PICK l \in DOMAIN e.providers : w = <<<<"provider", l>>, w[2]>> /\ w[2] = e.providers[l].field
    BY <1>10
  <2>3. k = l
    BY <1>1, <2>1, <2>2 DEF ProvidersOk
  <2> QED
    BY <2>1, <2>2, <2>3
<1>11. ~(Entry(v) /\ Toggle(w)) /\ ~(Toggle(v) /\ Entry(w))
  BY <1>1 DEF OwnersOk
<1>12. ~(Preset(v) /\ (Entry(w) \/ Toggle(w))) /\ ~((Entry(v) \/ Toggle(v)) /\ Preset(w))
  BY <1>2, <1>4
<1> HIDE DEF Entry, Toggle, Preset, Provider
<1> QED
  BY <1>3, <1>5, <1>6, <1>7, <1>8, <1>9, <1>10, <1>11, <1>12

\* What overrides may not write.
LEMMA OverridesKeepBase ==
    ASSUME NEW p, NEW e, NEW t, EntryOk(p, e), EntryTargetOk(e, t), NEW on,
           NEW q \in {{}} \cup {r.overrides : r \in Presets(e)},
           NEW v \in Overrides(e, on, q)
    PROVE  /\ v[2] # t.snPrimary
           /\ v[1][1] = "provider" => v[2] \notin GradeFields(t) \cup DeclaredPhotoFields(t)
<1>1. StaticFields(e) \subseteq DeclaredFields(t) \ (IdentityFields \cup {t.snPrimary})
  BY DEF EntryTargetOk, OverridesOk
<1>2. Fields(e.providers) \subseteq
          DeclaredFields(t) \ (IdentityFields \cup SerialFields(t)
                                  \cup GradeFields(t) \cup DeclaredPhotoFields(t))
  BY DEF EntryTargetOk, OverridesOk, EntryOk, ProvidersOk
<1>3. t.snPrimary \in SerialFields(t)
  BY DEF EntryTargetOk, SerialFields
<1>4. q \subseteq PresetFields(e)
  BY DEF PresetFields
<1>5. \/ v[1][1] # "provider" /\ v[2] \in StaticFields(e)
      \/ v[2] \in Fields(e.providers)
  <2>1. CASE \E f \in e.overrides : v = <<<<"entry", 0>>, f>>
    BY <2>1 DEF StaticFields
  <2>2. CASE \E k \in DOMAIN e.toggles : \E f \in e.toggles[k].overrides :
                  v = <<<<"toggle", k>>, f>>
    BY <2>2 DEF StaticFields, ToggledFields
  <2>3. CASE \E f \in q : v = <<<<"preset", 0>>, f>>
    BY <2>3, <1>4 DEF StaticFields
  <2>4. CASE \E k \in DOMAIN e.providers : v = <<<<"provider", k>>, e.providers[k].field>>
    BY <2>4 DEF Fields
  <2> QED
    BY <2>1, <2>2, <2>3, <2>4, OverrideOrigins
<1> QED
  BY <1>1, <1>2, <1>3, <1>5

LEMMA SubmittableFromInv == IInv => EntriesSubmittable
<1> SUFFICES ASSUME IInv, NEW i \in DOMAIN profiles, NEW n \in DOMAIN profiles[i].entries
             PROVE  LET e == profiles[i].entries[n] IN
                    /\ \E j \in DOMAIN profiles : profiles[j].id = e.target
                    /\ \A t \in Targets(e, profiles) :
                        /\ t.visible = "no"
                        /\ \A on \in SUBSET ToggleKeys(e),
                              q \in {{}} \cup {r.overrides : r \in Presets(e)} :
                            \A v, w \in Overrides(e, on, q) :
                                /\ v[2] = w[2] => v = w
                                /\ v[2] # t.snPrimary
                                /\ v[1][1] = "provider" =>
                                      v[2] \notin GradeFields(t) \cup DeclaredPhotoFields(t)
  BY DEF EntriesSubmittable
<1> DEFINE e == profiles[i].entries[n]
<1>1. EntryOk(profiles[i], e) /\ \E j \in DOMAIN profiles : profiles[j].id = e.target
  BY EntryTarget
<1>2. ASSUME NEW t \in Targets(e, profiles)
      PROVE  EntryTargetOk(e, t) /\ t.visible = "no"
  BY EntryTarget DEF EntryTargetOk
<1> HIDE DEF e
<1>3. ASSUME NEW t \in Targets(e, profiles), NEW on \in SUBSET ToggleKeys(e),
             NEW q \in {{}} \cup {r.overrides : r \in Presets(e)},
             NEW v \in Overrides(e, on, q), NEW w \in Overrides(e, on, q)
      PROVE  /\ v[2] = w[2] => v = w
             /\ v[2] # t.snPrimary
             /\ v[1][1] = "provider" => v[2] \notin GradeFields(t) \cup DeclaredPhotoFields(t)
  BY <1>1, <1>2, OneOwner, OverridesKeepBase
<1> QED
  BY <1>1, <1>2, <1>3 DEF e

\* Every stored entry can be submitted, whatever the operator turns on.
THEOREM EntriesWellOwned == Spec => []EntriesSubmittable
  BY SubmittableFromInv, StoredAccepted, PTL

LEMMA ApartFromInv == IInv => EntryCountedApart
<1> SUFFICES ASSUME IInv, settings.dailyStatsV2 # None,
                    NEW i \in DOMAIN profiles, NEW n \in DOMAIN profiles[i].entries,
                    NEW x \in Selected(settings.dailyStatsV2.groups)
                                \cup Selected(settings.dailyStatsV2.flats),
                    x[1] = profiles[i].entries[n].target
             PROVE  FALSE
  BY DEF EntryCountedApart
<1>1. x \in VisibleResultPairs(profiles)
  BY StoredStats DEF StatsOk, DailyStatsV2Ok
<1>2. PICK j \in DOMAIN profiles : profiles[j].visible = "yes" /\ profiles[j].id = x[1]
  BY <1>1 DEF VisibleResultPairs
<1>3. profiles[j] \in Targets(profiles[i].entries[n], profiles)
  BY <1>2 DEF Targets
<1>4. profiles[j].visible = "no"
  BY <1>3, EntryTarget DEF EntryTargetOk
<1> QED
  BY <1>2, <1>4

\* What an entry submits is never counted as a result of its target.
THEOREM EntriesCountedApart == Spec => []EntryCountedApart
  BY ApartFromInv, StoredAccepted, PTL

-----------------------------------------------------------------------------
(* Types, and the cards of the summary.                                    *)

LEMMA TypesInit == Init => TypeOK
  BY DEF Init, TypeOK, NoSettings, SettingNames

LEMMA TypesStep == TypeOK /\ IInv' /\ [Next]_vars => TypeOK'
<1> SUFFICES ASSUME TypeOK, IInv', [Next]_vars
             PROVE  TypeOK'
  OBVIOUS
<1>1. \A i, j \in DOMAIN profiles' : profiles'[i].id = profiles'[j].id => i = j
  <2>1. CASE Untouched'
    BY <2>1 DEF Untouched
  <2>2. CASE SaveAccepted(profiles', settings')
    BY <2>2 DEF SaveAccepted, ProfilesOk
  <2> QED
    BY <2>1, <2>2 DEF IInv
<1>2. CASE settings' = settings
  BY <1>1, <1>2 DEF TypeOK
<1>3. ASSUME NEW body \in Saves, SaveSettings(body)
      PROVE  TypeOK'
  <2> DEFINE change == body.change
             named == WithCoordinates(change)
  <2>1. DOMAIN named \subseteq SettingNames
    BY SavesAssumption DEF WithCoordinates, Over, SettingNames
  <2>2. \A name \in {"dailyStatsV2", "dailyStatsAlternate"} :
            /\ name \in DOMAIN named <=> name \in DOMAIN change
            /\ name \in DOMAIN change => named[name] = change[name]
    BY DEF WithCoordinates, Over
  <2>3. settings' = Over(named, settings)
    BY <1>3 DEF SaveSettings, SavedSettings
  <2>4. DOMAIN settings' = SettingNames
    BY <2>1, <2>3 DEF Over, TypeOK
  <2> HIDE DEF named
  <2>5. ASSUME NEW name \in {"dailyStatsV2", "dailyStatsAlternate"}, settings'[name] # None
        PROVE  CardsAreLists(settings'[name])
    <3>1. CASE name \in DOMAIN change
      <4>1. settings'[name] = change[name]
        BY <2>2, <2>3, <3>1 DEF Over
      <4> QED
        BY <4>1, <3>1, <2>5, SavesAssumption
    <3>2. CASE name \notin DOMAIN change
      <4>1. settings'[name] = settings[name]
        BY <2>2, <2>3, <3>2 DEF Over, TypeOK, SettingNames
      <4> QED
        BY <4>1, <2>5 DEF TypeOK
    <3> QED
      BY <3>1, <3>2
  <2> QED
    BY <1>1, <2>4, <2>5 DEF TypeOK
<1> QED
  BY <1>2, <1>3 DEF Next, Publish, vars

\* Every reachable catalog is well formed.
THEOREM RulesTypes == Spec => []TypeOK
<1>1. Init => TypeOK
  BY TypesInit
<1>2. TypeOK /\ IInv' /\ [Next]_vars => TypeOK'
  BY TypesStep
<1> QED
  BY <1>1, <1>2, StoredAccepted, PTL DEF Spec

LEMMA CardsFromInv == IInv /\ TypeOK => CardsHaveSources
<1> SUFFICES ASSUME IInv, TypeOK, settings.dailyStatsV2 # None
             PROVE  CardsHaveSources
  BY DEF CardsHaveSources
<1> DEFINE v2 == settings.dailyStatsV2
           alt == settings.dailyStatsAlternate
           recordable(x, source) == \E i \in DOMAIN profiles :
            /\ profiles[i].visible = "yes" /\ profiles[i].id = x[1]
            /\ IF source = "result" THEN x[2] \in DOMAIN profiles[i].gradeMap
               ELSE \E n \in DOMAIN profiles[i].entries : profiles[i].entries[n].id = x[2]
           counts(cards, id, source) == \E c \in DOMAIN cards : \E n \in DOMAIN cards[c].selectors :
            cards[c].id = id /\ recordable(cards[c].selectors[n], source)
<1>1. DailyStatsV2Ok(v2, profiles) /\ AlternateStatsOk(alt, v2, profiles)
  BY StoredStats DEF StatsOk
<1>2. \A x \in VisibleResultPairs(profiles) : recordable(x, "result")
  BY DEF VisibleResultPairs
<1>3. \A x \in UniqueEntryPairs(profiles) : recordable(x, "entry")
  BY DEF UniqueEntryPairs
<1>4. Selected(v2.groups) \cup Selected(v2.flats) \subseteq VisibleResultPairs(profiles)
  BY <1>1 DEF DailyStatsV2Ok
<1> HIDE DEF recordable
<1>5. ASSUME NEW cards, NEW c \in DOMAIN cards, NEW n \in DOMAIN cards[c].selectors
      PROVE  cards[c].selectors[n] \in Selected(cards)
  BY DEF Selected, Range
<1>6. ASSUME NEW id \in Ids(v2.groups)
      PROVE  counts(v2.groups, id, "result")
  <2>1. PICK c \in DOMAIN v2.groups : v2.groups[c].id = id
    BY DEF Ids
  <2>2. 1 \in DOMAIN v2.groups[c].selectors
    BY <1>1 DEF DailyStatsV2Ok, TypeOK, CardsAreLists, IsList
  <2> QED
    BY <2>1, <2>2, <1>2, <1>4, <1>5
<1>7. ASSUME NEW id \in Ids(v2.flats)
      PROVE  counts(v2.flats, id, "result") \/ (alt # None /\ counts(alt.flats, id, "entry"))
  <2>1. PICK c \in DOMAIN v2.flats : v2.flats[c].id = id
    BY DEF Ids
  <2>2. CASE Len(v2.flats[c].selectors) # 0
    <3>1. 1 \in DOMAIN v2.flats[c].selectors
      BY <2>2 DEF TypeOK, CardsAreLists, IsList
    <3> QED
      BY <2>1, <3>1, <1>2, <1>4, <1>5
  <2>3. CASE Len(v2.flats[c].selectors) = 0
    <3>1. id \in AlternateOnlyFlats(v2)
      BY <2>1, <2>3 DEF AlternateOnlyFlats
    <3>2. alt # None /\ id \in Ids(alt.flats)
      BY <1>1, <3>1 DEF AlternateStatsOk
    <3>3. PICK d \in DOMAIN alt.flats : alt.flats[d].id = id
      BY <3>2 DEF Ids
    <3>4. 1 \in DOMAIN alt.flats[d].selectors
      BY <1>1, <3>2 DEF AlternateStatsOk, TypeOK, CardsAreLists, IsList
    <3>5. Selected(alt.flats) \subseteq UniqueEntryPairs(profiles)
      BY <1>1, <3>2 DEF AlternateStatsOk
    <3> QED
      BY <3>2, <3>3, <3>4, <3>5, <1>3, <1>5
  <2> QED
    BY <2>2, <2>3
<1> QED
  BY <1>6, <1>7 DEF CardsHaveSources, recordable

\* No card of the summary is left without something it counts.
THEOREM CardsNeverEmpty == Spec => []CardsHaveSources
  BY CardsFromInv, RulesTypes, StoredAccepted, PTL

-----------------------------------------------------------------------------
(* Another backend.                                                        *)

\* A save that moves everything to adapter a: what it leaves, what it brings.
LEMMA MovedSettings ==
    ASSUME TypeOK, NEW a, DOMAIN a.auth = Signals
    PROVE  LET saved == SavedSettings(MoveTo(a)) IN
           /\ \A name \in SettingNames \ ({"backendAdapter", "backendApiBase", "endpoints"} \cup Signals) :
                  saved[name] = settings[name]
           /\ saved.backendAdapter = a /\ saved.backendApiBase = None /\ saved.endpoints = <<>>
           /\ \A name \in Signals : saved[name] = a.auth[name]
<1> DEFINE change == MoveTo(a)
<1>1. DOMAIN change = {"backendAdapter", "backendApiBase", "endpoints"} \cup Signals
  BY DEF MoveTo, Over
<1>2. /\ change.backendAdapter = a /\ change.backendApiBase = None /\ change.endpoints = <<>>
      /\ \A name \in Signals : change[name] = a.auth[name]
  BY DEF MoveTo, Over, Signals
<1>3. WithCoordinates(change) = change
  BY <1>1 DEF WithCoordinates, Signals
<1>4. DOMAIN settings = SettingNames
  BY DEF TypeOK
<1> HIDE DEF change
<1>5. \A name \in DOMAIN change \cup SettingNames :
          SavedSettings(change)[name] = IF name \in DOMAIN change THEN change[name] ELSE settings[name]
  BY <1>3, <1>4 DEF SavedSettings, Over
<1> QED
  BY <1>1, <1>2, <1>5 DEF change

LEMMA ReplaceableFromInv == IInv /\ TypeOK => BackendReplaceable
<1> SUFFICES ASSUME IInv, TypeOK, Resolves(settings), NEW a \in Offered,
                    ChangeOk([backendAdapter |-> a]),
                    Resolves(SavedSettings(MoveTo(a))),
                    WorkflowSupported(profiles, Adapter(SavedSettings(MoveTo(a))))
             PROVE  ChangeOk(MoveTo(a)) /\ SaveAccepted(profiles, SavedSettings(MoveTo(a)))
  BY DEF BackendReplaceable
<1> DEFINE saved == SavedSettings(MoveTo(a))
<1>1. a # None /\ AdapterOk(a, ValidBases) /\ DOMAIN a.auth = Signals
  BY DEF ChangeOk, AdapterOk
<1>2. /\ \A name \in {"dailyStats", "dailyStatsV2", "dailyStatsAlternate", "notifier",
                       "updateSource", "updateOwner", "updateRepo"} : saved[name] = settings[name]
      /\ saved.backendAdapter = a /\ saved.backendApiBase = None /\ saved.endpoints = <<>>
      /\ \A name \in Signals : saved[name] = a.auth[name]
  BY <1>1, MovedSettings DEF SettingNames, Signals
<1> HIDE DEF saved
<1>3. UpdateSourceOk(saved) /\ StatsOk(saved, profiles) /\ ProfilesOk(profiles, profiles)
      /\ NotificationSupported(profiles, saved.notifier)
  <2>1. SaveAccepted(profiles, settings)
    BY EmptyAccepted DEF IInv, Untouched
  <2> QED
    BY <1>2, <2>1 DEF SaveAccepted, UpdateSourceOk, StatsOk
<1>4. LegacyBackendOk(saved)
  <2>1. \A name \in Signals : name \in DOMAIN Adapter(saved).auth
                              /\ Adapter(saved).auth[name] = a.auth[name]
    BY <1>1, <1>2 DEF Adapter, Merged, Or, Over
  <2>2. DOMAIN saved.endpoints = {}
    BY <1>2
  <2> QED
    BY <1>2, <2>1, <2>2 DEF LegacyBackendOk, IfSet
<1>5. ChangeOk(MoveTo(a))
  <2>1. DOMAIN MoveTo(a) = {"backendAdapter", "backendApiBase", "endpoints"} \cup Signals
    BY <1>1 DEF MoveTo, Over
  <2>2. MoveTo(a).backendAdapter = a /\ \A name \in Signals : MoveTo(a)[name] = a.auth[name]
    BY <1>1 DEF MoveTo, Over, Signals
  <2>3. \A name \in Signals : a.auth[name] # None
    BY <1>1 DEF AdapterOk, Range
  <2> QED
    BY <1>1, <2>1, <2>2, <2>3 DEF ChangeOk, Signals
<1>6. SaveAccepted(profiles, saved)
  BY <1>3, <1>4 DEF SaveAccepted, saved
<1> QED
  BY <1>5, <1>6 DEF saved

\* No stored setting keeps a deployment on its backend.
THEOREM BackendsReplaceable == Spec => []BackendReplaceable
  BY ReplaceableFromInv, RulesTypes, StoredAccepted, PTL

=============================================================================
