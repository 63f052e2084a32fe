-------------------------- MODULE AlternateEntries --------------------------
(***************************************************************************)
(* Alternate entries: a profile the operator picks (the source) submits    *)
(* into another, hidden profile (the target), with overrides of the fields *)
(* of the target (api/profile-alternate-entries.js, the rules one profile  *)
(* can be checked for, and api/profile-alternate-references.js, the ones   *)
(* that need the target out of the final catalog).                         *)
(***************************************************************************)
EXTENDS ProfileRules

\* Fields that name the target itself; no override may write them.
CONSTANT IdentityFields

-----------------------------------------------------------------------------
(* One entry in its own profile *)

ToggleKeys(e) == {e.toggles[i].key : i \in DOMAIN e.toggles}
\* resultPresets may be absent: the same as no item, where the rules end early.
HasPresets(e) == e.presets # None
Presets(e) == IF HasPresets(e) THEN Range(e.presets.items) ELSE {}

ToggledFields(e) == UNION {e.toggles[i].overrides : i \in DOMAIN e.toggles}
PresetFields(e) == UNION {q.overrides : q \in Presets(e)}
StaticFields(e) == e.overrides \cup ToggledFields(e) \cup PresetFields(e)

\* The target fields are the serial and the photos the entry asks for, and the
\* lengths of its source's primary scanner apply.
EntryScannerOk(p, e) ==
    LET primary == {p.snPlugins[i].scanner : i \in {j \in DOMAIN p.snPlugins :
                        p.snPlugins[j].key = "primary"}} \ {None}
        scanner == IF primary # {} THEN CHOOSE s \in primary : TRUE ELSE p.scanner
        allowed == scanner # None /\ scanner.allowed \notin {None, <<>>}
        length  == IF scanner # None /\ scanner.expected # None
                   THEN scanner.expected ELSE p.expectedSnLength
    IN  /\ e.expectedTo # None /\ SourcesOk(e.expectedTo)
        /\ SourcesOk(e.allowedTo) /\ (e.allowedTo # None => allowed)
        /\ (length # None /\ length \in 1..256) \/ allowed

TogglesOk(e) == Len(e.toggles) <= 16 /\ UniqueKeys(e.toggles)

PresetsOk(e) == HasPresets(e) =>
    LET items == e.presets.items IN
    /\ Len(items) \in 2..8
    /\ UniqueKeys(items)
    /\ \A i, j \in DOMAIN items : items[i].code = items[j].code => i = j
    /\ \A i \in DOMAIN items :
        items[i].key \notin ToggleKeys(e) /\ items[i].activeToggles \subseteq ToggleKeys(e)
    /\ e.presets.default \in {items[i].key : i \in DOMAIN items}
    /\ ~(e.presets.showCodes /\ e.presets.splitLabels)

\* A dynamic field is read from the live template when its toggle is on: it has
\* exactly one provider, and nothing static writes it.
ProvidersOk(e) ==
    /\ Len(e.providers) <= 32
    /\ \A i, j \in DOMAIN e.providers :
        (e.providers[i].id = e.providers[j].id \/ e.providers[i].field = e.providers[j].field)
            => i = j
    /\ \A i \in DOMAIN e.providers :
        /\ e.providers[i].trigger \in ToggleKeys(e)
        /\ e.providers[i].field \notin StaticFields(e)
        /\ e.providers[i].template > 0
    /\ Fields(e.providers) = Range(e.dynamicFields)

EntryOk(p, e) ==
    /\ e.photoFields # <<>> /\ IsInjective(e.photoFields) /\ Len(e.photoFields) <= 32
    /\ e.minPhotos \in 1..20 /\ e.maxPhotos >= 0
    /\ e.maxPhotos # 0 => e.maxPhotos >= e.minPhotos
    /\ EntryScannerOk(p, e)
    /\ IfSet(e.maxAttempts, 1..10)
    /\ TogglesOk(e) /\ PresetsOk(e)
    /\ e.flags = {}
    /\ IsInjective(e.dynamicFields) /\ Len(e.dynamicFields) <= 32
    /\ ProvidersOk(e)

EntriesOk(p) ==
    /\ Len(p.entries) <= 16
    /\ (p.entriesEnabled <=> p.entries # <<>>)
    /\ \A i, j \in DOMAIN p.entries : p.entries[i].id = p.entries[j].id => i = j
    /\ \A i \in DOMAIN p.entries : EntryOk(p, p.entries[i])

-----------------------------------------------------------------------------
(* One entry and its target *)

\* The result field and the base fields of a submission into t, each with its
\* owner: serial, result, operations, visible choices, photos.
ResultFields(t, key) == IF key \in DOMAIN t.gradeMap THEN {t.gradeMap[key]} ELSE {}

BaseOwners(e, t) ==
    {<<<<"serial", 0>>, t.snPrimary>>}
    \cup {<<<<"result", 0>>, f>> : f \in ResultFields(t, e.resultKey)}
    \cup Listed("operationFields", t.operationFields)
    \cup {<<<<"choiceFields", i>>, t.choiceFields[i].field>> :
            i \in {j \in DOMAIN t.choiceFields : t.choiceFields[j].visible # FALSE}}
    \cup {<<<<"photoTargetFields", i>>, e.photoFields[i]>> : i \in DOMAIN e.photoFields}

DeclaredPhotoFields(t) ==
    Fields(t.uploadFields) \cup Fields(t.photoSlots) \cup Fields(t.optionalSlots)

\* No photo field of the target is declared twice, in one list or in two.
PhotoFieldsDistinct(t) ==
    \A v, w \in Listed("uploadFields", t.uploadFields) \cup Listed("photoSlots", t.photoSlots)
                  \cup Listed("optionalSlots", t.optionalSlots) : v[2] = w[2] => v = w

SerialFields(t) == {t.snPrimary, t.snSecondary} \ {None}

DeclaredFields(t) ==
    SerialFields(t) \cup GradeFields(t) \cup DeclaredPhotoFields(t)
    \cup Fields(t.snPlugins) \cup Fields(t.snPluginsHidden) \cup Fields(t.conditionalFields)
    \cup Fields(t.operationFields) \cup Fields(t.choiceFields) \cup Fields(t.materialGroups)

\* Toggles may all be on together, presets exclude each other: a field is
\* claimed once by the entry and its toggles, and once more by a preset only
\* if neither of them has it.
OwnersOk(e) ==
    /\ \A i \in DOMAIN e.toggles :
        /\ e.toggles[i].overrides \cap e.overrides = {}
        /\ \A j \in DOMAIN e.toggles \ {i} : e.toggles[i].overrides \cap e.toggles[j].overrides = {}
    /\ \A q \in Presets(e) : q.overrides \cap (e.overrides \cup ToggledFields(e)) = {}
    /\ Range(e.dynamicFields) \cap StaticFields(e) = {}

OverridesOk(e, t) ==
    /\ StaticFields(e) \subseteq DeclaredFields(t) \ (IdentityFields \cup {t.snPrimary})
    /\ Range(e.dynamicFields) \subseteq
          DeclaredFields(t) \ (IdentityFields \cup SerialFields(t)
                                  \cup GradeFields(t) \cup DeclaredPhotoFields(t))
    /\ OwnersOk(e)
    /\ \A i \in DOMAIN e.providers : e.providers[i].template = t.templateId

ResultsOk(e, t) ==
    /\ e.resultKey \in DOMAIN t.gradeMap
    /\ \A q \in Presets(e) : /\ q.resultKey \in DOMAIN t.gradeMap
                             /\ t.gradeMap[q.resultKey] = t.gradeMap[e.resultKey]

EntryTargetOk(e, t) ==
    /\ t.visible = "no"
    /\ t.templateId > 0 /\ t.warehouseId > 0 /\ t.sku # None /\ t.snPrimary # None
    /\ ResultsOk(e, t)
    /\ PhotoFieldsDistinct(t) /\ Range(e.photoFields) \subseteq DeclaredPhotoFields(t)
    /\ \A v, w \in BaseOwners(e, t) : v[2] = w[2] => v[1] = w[1]
    /\ OverridesOk(e, t)

\* The profiles of the catalog with the id an entry points at.
Targets(e, catalog) ==
    {catalog[i] : i \in {j \in DOMAIN catalog : catalog[j].id = e.target}}

\* validateAlternateEntryReferences for one source profile.
ReferencesOk(p, catalog) == \A i \in DOMAIN p.entries :
    LET e == p.entries[i] IN
    /\ e.target # p.id
    /\ \E j \in DOMAIN catalog :
        /\ catalog[j].id = e.target
        /\ \A k \in DOMAIN catalog : catalog[k].id = e.target => k = j
        /\ EntryTargetOk(e, catalog[j])

-----------------------------------------------------------------------------
(* What a submission through an entry writes besides the base fields, with  *)
(* its writer, when the operator has the toggles `on` and the preset q.     *)

Overrides(e, on, q) ==
    {<<<<"entry", 0>>, f>> : f \in e.overrides}
    \cup (UNION {{<<<<"toggle", i>>, f>> : f \in e.toggles[i].overrides} :
                 i \in {j \in DOMAIN e.toggles : e.toggles[j].key \in on}})
    \cup {<<<<"preset", 0>>, f>> : f \in q}
    \cup {<<<<"provider", i>>, e.providers[i].field>> :
            i \in {j \in DOMAIN e.providers : e.providers[j].trigger \in on}}

=============================================================================
