---------------------------- MODULE ProfileRules ----------------------------
(***************************************************************************)
(* What one profile must satisfy to be published: its scanners, the fields *)
(* of its payload and who writes them, its previous steps, materials and   *)
(* submission policy (api/profile-validate.js and the modules it calls).   *)
(*                                                                         *)
(* A profile is a record with the fields of the source that the rules      *)
(* relate to each other; an optional one that is absent is None.  Names,   *)
(* labels, translations, colours and the JSON shape of a value, which the  *)
(* code checks one by one, are left out: the values here have their shape. *)
(* A rule of the code that reports errors is a predicate here.             *)
(***************************************************************************)
EXTENDS Integers, Sequences, Functions

CONSTANT None   \* an optional value that is absent

AndroidIntMax == 2147483647
Sources == {"ocr", "barcode", "entered"}

IfSet(value, S) == value = None \/ value \in S
Fields(items) == {items[i].field : i \in DOMAIN items}
UniqueFields(items) ==
    \A i, j \in DOMAIN items : items[i].field = items[j].field => i = j
UniqueKeys(items) == \A i, j \in DOMAIN items : items[i].key = items[j].key => i = j

-----------------------------------------------------------------------------
(* Scanners *)

EmptyScanner == [expected |-> None, min |-> None, max |-> None, allowed |-> None,
                 expectedTo |-> None, allowedTo |-> None, autoText |-> None, mode |-> None,
                 order |-> None, rulesTo |-> None, prefixes |-> {}, labels |-> {}, labelsFrom |-> {}]

\* Length n keeps the bounds of scanner s.
Within(s, n) == /\ s.min # None => n >= s.min
                /\ s.max # None => n <= s.max

SourcesOk(list) == list # None =>
    list # <<>> /\ IsInjective(list) /\ Range(list) \subseteq Sources

LengthsOk(s) ==
    /\ \A n \in {s.expected, s.min, s.max} : IfSet(n, 1..256)
    /\ s.min # None /\ s.max # None => s.min <= s.max
    /\ s.expected # None => Within(s, s.expected)
    /\ s.allowed # None =>
        /\ Range(s.allowed) # {} /\ IsInjective(s.allowed)
        /\ \A n \in Range(s.allowed) : n \in 1..256 /\ Within(s, n)
        /\ s.expected # None => s.expected \in Range(s.allowed)

CandidatesOk(s) ==
    /\ s.mode = "ordered" => s.order # None
    /\ s.order # None =>
        /\ s.order # <<>> /\ IsInjective(s.order)
        /\ Range(s.order) \subseteq {"label", "prefix", "general"}
        /\ "label" \in Range(s.order) => s.labels # {}
        /\ s.mode = "ordered" /\ "prefix" \in Range(s.order) => s.prefixes # {}
    /\ SourcesOk(s.rulesTo) /\ (s.rulesTo # None => "ocr" \in Range(s.rulesTo))
    /\ s.labelsFrom # {} => s.labelsFrom \subseteq Sources /\ s.labels # {}

ScannerPolicyOk(s) == s # None =>
    /\ LengthsOk(s) /\ CandidatesOk(s)
    /\ SourcesOk(s.expectedTo) /\ (s.expectedTo # None => s.expected # None)
    /\ SourcesOk(s.allowedTo) /\ (s.allowedTo # None => s.allowed # None)

SnPluginsOk(plugins) ==
    /\ UniqueKeys(plugins)
    /\ \A i \in DOMAIN plugins :
        /\ plugins[i].key \notin {"primary", "secondary"} =>
              plugins[i].scan # TRUE /\ plugins[i].scanner = None
        /\ plugins[i].scan = FALSE /\ plugins[i].scanner # None =>
              plugins[i].scanner.autoText \notin {"always", "fallback"}
        /\ ScannerPolicyOk(plugins[i].scanner)

\* An explicit scan=true needs a scanner that says something; only the primary
\* role may rely on the scanner of the profile.
ScannerBindingsOk(p) == \A i \in DOMAIN p.snPlugins :
    LET plugin == p.snPlugins[i] IN
    plugin.key \in {"primary", "secondary"} /\ plugin.scan = TRUE =>
        \/ plugin.scanner \notin {None, EmptyScanner}
        \/ plugin.key = "primary" /\ p.scanner \notin {None, EmptyScanner}

\* The scanner the primary role works with, before the fallback length.
PrimaryScanners(p) ==
    {p.snPlugins[i].scanner : i \in {j \in DOMAIN p.snPlugins :
        p.snPlugins[j].key = "primary"}} \ {None}
PrimaryScanner(p) ==
    IF PrimaryScanners(p) # {} THEN CHOOSE s \in PrimaryScanners(p) : TRUE
    ELSE IF p.scanner # None THEN p.scanner ELSE EmptyScanner

\* A bug: the fallback length is held against the bounds only.
FallbackOkBounds(p) ==
    PrimaryScanner(p).expected = None /\ p.expectedSnLength # None =>
        p.expectedSnLength <= 256 /\ Within(PrimaryScanner(p), p.expectedSnLength)

\* validateEffectivePrimaryScannerFallback: expectedSnLength stands in for a
\* missing expectedLength and must keep the other bounds of the scanner.
FallbackOk(p) ==
    LET s == PrimaryScanner(p)
    IN  s.expected = None /\ p.expectedSnLength # None =>
            /\ p.expectedSnLength <= 256
            /\ Within(s, p.expectedSnLength)
            /\ s.allowed # None => p.expectedSnLength \in Range(s.allowed)

\* Whether an App takes identifiers of length n when it applies every length
\* rule of the scanner and of the profile.
EffectiveLength(p) ==
    IF PrimaryScanner(p).expected # None THEN PrimaryScanner(p).expected ELSE p.expectedSnLength
Takes(p, n) ==
    LET s == PrimaryScanner(p)
    IN  /\ Within(s, n)
        /\ IfSet(EffectiveLength(p), {n})
        /\ s.allowed # None => n \in Range(s.allowed)

-----------------------------------------------------------------------------
(* The payload: every field has one writer *)

SlotMode(p) == p.photoSlots # <<>>
ActivePhotos(p) ==
    IF SlotMode(p)
    THEN p.photoSlots \o (IF p.includeOptionalSlots THEN p.optionalSlots ELSE <<>>)
    ELSE p.uploadFields

GradeFields(p) == {p.gradeMap[k] : k \in DOMAIN p.gradeMap}

Listed(list, items) == {<<<<list, i>>, items[i].field>> : i \in DOMAIN items}

\* validatePayloadFieldOwnership: each writer of the payload, with the field it
\* writes.  All results of the gradeMap are one writer.
Writers(p) ==
    {<<<<"primary", 0>>, p.snPrimary>>}
    \cup (IF p.requiresSecondSn THEN {<<<<"secondary", 0>>, p.snSecondary>>} ELSE {})
    \cup {<<<<"snPlugins", i>>, p.snPlugins[i].field>> :
            i \in {j \in DOMAIN p.snPlugins :
                     p.snPlugins[j].key \notin {"primary", "secondary"}}}
    \cup Listed("photos", ActivePhotos(p))
    \cup Listed("conditionalFields", p.conditionalFields)
    \cup Listed("operationFields", p.operationFields)
    \cup Listed("choiceFields", p.choiceFields)
    \cup Listed("materialGroups", p.materialGroups)
    \cup {<<<<"gradeMap", 0>>, f>> : f \in GradeFields(p)}

PayloadOwnershipOk(p) ==
    /\ \A i \in DOMAIN p.snPlugins :
        LET plugin == p.snPlugins[i] IN
        /\ plugin.key = "primary" => IfSet(p.snPrimary, {plugin.field})
        /\ plugin.key = "secondary" => IfSet(p.snSecondary, {plugin.field})
    /\ \A list \in {p.uploadFields, p.photoSlots, p.optionalSlots, p.conditionalFields,
                    p.operationFields, p.choiceFields, p.materialGroups} : UniqueFields(list)
    /\ \A v, w \in Writers(p) : v[2] = w[2] /\ v[2] # None => v[1] = w[1]

PhotoSlotsOk(slots) == \A i \in DOMAIN slots :
    slots[i].min >= 0 /\ slots[i].max >= 1 /\ slots[i].max >= slots[i].min

\* A choice submits declared options only, and a required one at least one.
ChoiceFieldsOk(choices) == \A i \in DOMAIN choices :
    LET choice == choices[i] IN
    /\ choice.options # <<>> /\ IsInjective(choice.options)
    /\ choice.selected \subseteq Range(choice.options)
    /\ choice.required => choice.selected # {}
    /\ ~choice.reviewRequired

\* References to results are checked as soon as a profile has any.
ResultKeysOk(p, keys) == DOMAIN p.gradeMap # {} => keys \subseteq DOMAIN p.gradeMap

ConditionalFieldsOk(p) ==
    \A i \in DOMAIN p.conditionalFields : ResultKeysOk(p, p.conditionalFields[i].results)

-----------------------------------------------------------------------------
(* Materials *)

MaterialCodes(p) ==
    UNION {Range(p.materialGroups[g].materials) : g \in DOMAIN p.materialGroups}

MaterialsOk(p) ==
    /\ \A g, h \in DOMAIN p.materialGroups :
        \A i \in DOMAIN p.materialGroups[g].materials, j \in DOMAIN p.materialGroups[h].materials :
            p.materialGroups[g].materials[i] = p.materialGroups[h].materials[j]
                => g = h /\ i = j
    /\ p.notifySkipMaterials \subseteq MaterialCodes(p)
    /\ p.refreshBeforeSubmit =>
        /\ p.materialGroups # <<>>
        /\ \A g \in DOMAIN p.materialGroups : p.materialGroups[g].materials # <<>>

-----------------------------------------------------------------------------
(* Previous steps: the records made in other templates before the submission *)

ArtifactKeys(p) == {p.artifacts[i].key : i \in DOMAIN p.artifacts}
PhotoSources(p) == ArtifactKeys(p) \cup Fields(ActivePhotos(p))

\* A recipe lists what it writes (static), or is resolved from the template
\* detail by the adapter (dynamic), which knows its photo sources by an alias.
SourcesOf(t) ==
    IF t.dynamic THEN Range(t.sources) ELSE {t.bindings[i].source : i \in DOMAIN t.bindings}

WorkflowTemplateOk(p, t) ==
    /\ SourcesOf(t) \subseteq PhotoSources(p)
    /\ ~t.dynamic =>
        /\ UniqueFields(t.bindings)
        /\ t.serialField \notin t.fixedData \cup Fields(t.bindings)
        /\ Fields(t.bindings) \cap t.fixedData = {}

\* At the limit of missing prechecks the operator must take an artifact: one
\* exists, and some recipe sends it.
ArtifactAtLimitOk(p) == p.atLimitAction = "require_artifact" =>
    LET required == {p.artifacts[i].key : i \in {j \in DOMAIN p.artifacts : p.artifacts[j].required}}
        bound == UNION {SourcesOf(p.templates[i]) : i \in DOMAIN p.templates}
    IN  required # {} /\ p.templates # <<>> /\ required \cap bound # {}

\* Characters an identifier may be read wrongly as, each corrected in one way.
CorrectionOk(p) == p.correction # None =>
    LET list == p.correction.substitutions IN
    /\ Len(list) <= 8
    /\ \A i, j \in DOMAIN list : list[i].from = list[j].from => i = j
    /\ ResultKeysOk(p, p.correction.resultKeys)
    /\ p.correction.enabled => p.previousSteps /\ list # <<>>

PreviousStepsOk(p) ==
    /\ ResultKeysOk(p, p.triggerResultKeys) /\ ResultKeysOk(p, p.precheckExcludedKeys)
    /\ CorrectionOk(p)
    /\ IsInjective(p.directCreateResultKeys)
    /\ Range(p.directCreateResultKeys) \subseteq DOMAIN p.gradeMap \cap p.triggerResultKeys
    /\ p.directCreateResultKeys # <<>> \/ p.scanPrecheck => p.previousSteps
    /\ p.recipeMaxAttempts \in 1..10
    /\ UniqueKeys(p.artifacts)
    /\ IfSet(p.legacyDraftArtifactKey, ArtifactKeys(p))
    /\ ArtifactAtLimitOk(p)
    /\ Len(p.templates) <= 16
    /\ \A i \in DOMAIN p.templates : WorkflowTemplateOk(p, p.templates[i])
    /\ p.triggerResultKeys # {} => p.templates # <<>>

-----------------------------------------------------------------------------
(* Submission, printing and photos *)

BaseDelays == 250..60000    \* milliseconds
MaxDelays == 250..300000

SubmissionOk(p) ==
    /\ p.maxAttempts \in 1..10
    /\ p.networkRetry.maxAttempts \in 0..100
    /\ p.networkRetry.baseDelayMs \in BaseDelays
    /\ p.networkRetry.maxDelayMs \in MaxDelays
    /\ p.networkRetry.maxDelayMs >= p.networkRetry.baseDelayMs
    /\ p.missingRecovery => p.maxAttempts >= 2

\* An enabled duplicate check says how old is old, and what follows from it.
DuplicateCheckOk(p) == p.duplicateCheck =>
    p.agePolicy # None /\ {"unknownDate", "recent", "eligible"} \subseteq p.duplicateActions

PrintingOk(p) ==
    /\ IsInjective(p.manualReprintStatuses)
    /\ Range(p.manualReprintStatuses) \subseteq {"failed", "ongoing", "unknown"}
    /\ p.manualReprintEnabled => p.manualReprintStatuses # <<>>

RuntimePolicyOk(p) ==
    /\ p.requiresSecondSn => p.snSecondary # None
    /\ IfSet(p.expectedSnLength, Nat \ {0})
    /\ p.includeOptionalSlots => p.photoSlots # <<>>
    /\ PreviousStepsOk(p) /\ SubmissionOk(p) /\ DuplicateCheckOk(p) /\ PrintingOk(p)

\* validateFormProfile without the alternate entries (module AlternateEntries).
FormOk(p) ==
    /\ PhotoSlotsOk(p.photoSlots) /\ PhotoSlotsOk(p.optionalSlots)
    /\ ScannerPolicyOk(p.scanner)
    /\ SnPluginsOk(p.snPlugins) /\ SnPluginsOk(p.snPluginsHidden)
    /\ ScannerBindingsOk(p) /\ FallbackOk(p)
    /\ MaterialsOk(p) /\ ConditionalFieldsOk(p) /\ ChoiceFieldsOk(p.choiceFields)
    /\ RuntimePolicyOk(p) /\ PayloadOwnershipOk(p)

=============================================================================
