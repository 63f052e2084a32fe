--------------------------- MODULE MCCatalogRules ---------------------------
(* TLC instance of CatalogRules: a source profile with an alternate entry,   *)
(* the hidden profile it submits into, and the settings about them.          *)
EXTENDS CatalogRules, TLC

\* A profile that passes every rule and asks for nothing.
Plain == [
    id |-> "source", visible |-> "yes", graded |-> TRUE, gradeMap |-> [ok |-> "result"],
    snPrimary |-> "sn", snSecondary |-> None, requiresSecondSn |-> FALSE,
    expectedSnLength |-> 10, scanner |-> None, snPlugins |-> <<>>, snPluginsHidden |-> <<>>,
    photoSlots |-> <<>>, optionalSlots |-> <<>>, includeOptionalSlots |-> FALSE,
    uploadFields |-> <<[field |-> "photo"]>>,
    conditionalFields |-> <<>>, operationFields |-> <<[field |-> "operation"]>>,
    choiceFields |-> <<>>, materialGroups |-> <<[field |-> "used", materials |-> <<"m1">>]>>,
    notifySkipMaterials |-> {}, refreshBeforeSubmit |-> FALSE, missingRecovery |-> FALSE,
    materialCodePattern |-> None, artifacts |-> <<>>, templates |-> <<>>,
    atLimitAction |-> "skip", triggerResultKeys |-> {}, directCreateResultKeys |-> <<>>,
    scanPrecheck |-> FALSE, precheckExcludedKeys |-> {}, correction |-> None,
    previousSteps |-> FALSE, recipeMaxAttempts |-> 1,
    legacyDraftArtifactKey |-> None, maxAttempts |-> 1,
    networkRetry |-> [maxAttempts |-> 3, baseDelayMs |-> 500, maxDelayMs |-> 500],
    manualReprintStatuses |-> <<>>, manualReprintEnabled |-> FALSE, printing |-> FALSE,
    duplicateCheck |-> FALSE, agePolicy |-> None, duplicateActions |-> {}, submissionSummary |-> FALSE, profileLabel |-> None,
    reviewed |-> TRUE, unsetPolicies |-> {}, sku |-> "sku", templateId |-> 1,
    warehouseId |-> 1, entries |-> <<>>, entriesEnabled |-> FALSE]

\* An entry with everything an entry may have.
Entry == [
    id |-> "spare", target |-> "target", resultKey |-> "ok", photoFields |-> <<"photo">>,
    minPhotos |-> 1, maxPhotos |-> 0, expectedTo |-> <<"barcode">>, allowedTo |-> None,
    maxAttempts |-> 1,
    toggles |-> <<[key |-> "broken", overrides |-> {"note"}], [key |-> "lost", overrides |-> {}]>>,
    presets |-> [default |-> "new", showCodes |-> TRUE, splitLabels |-> FALSE, items |-> <<
        [key |-> "new", code |-> "A", resultKey |-> "ok", activeToggles |-> {}, overrides |-> {"used"}],
        [key |-> "old", code |-> "B", resultKey |-> "ok", activeToggles |-> {"lost"}, overrides |-> {}]>>],
    overrides |-> {"operation"}, dynamicFields |-> <<"reason">>,
    providers |-> <<[id |-> "why", trigger |-> "lost", template |-> 1, resolver |-> "byLabel",
                     field |-> "reason"]>>,
    flags |-> {}]

With(e) == [Plain EXCEPT !.entries = <<e>>, !.entriesEnabled = TRUE]
Choice(field) == [field |-> field, visible |-> TRUE, options |-> <<1, 2>>, selected |-> {1},
                  required |-> TRUE, reviewRequired |-> FALSE]
Target == [Plain EXCEPT !.id = "target", !.visible = "no", !.templateId = 1,
              !.conditionalFields = <<[field |-> "note", results |-> {"ok"}]>>,
              !.choiceFields = <<Choice("reason")>>]

Recipe == [dynamic |-> TRUE, sources |-> [front |-> "photo"], resolver |-> "create",
           serialField |-> None, fixedData |-> {}, bindings |-> <<>>]

\* What a field of an operator's form may turn into between two publishes.
SourceDrafts == {
    Plain, With(Entry), With([Entry EXCEPT !.maxAttempts = 2]),
    With([Entry EXCEPT !.providers[1].field = "result", !.dynamicFields = <<"result">>]),
    With([Entry EXCEPT !.toggles[2].overrides = {"note"}]),
    With([Entry EXCEPT !.target = "source"]),
    [With(Entry) EXCEPT !.visible = "no"], [With(Entry) EXCEPT !.graded = FALSE, !.gradeMap = <<>>],
    [Plain EXCEPT !.maxAttempts = 2, !.missingRecovery = TRUE, !.materialCodePattern = "m[0-9]"],
    [Plain EXCEPT !.scanner = [EmptyScanner EXCEPT !.allowed = <<12>>]],
    [Plain EXCEPT !.conditionalFields = <<[field |-> "photo", results |-> {"ok"}]>>],
    [Plain EXCEPT !.submissionSummary = TRUE],
    [Plain EXCEPT !.duplicateCheck = TRUE, !.agePolicy = "days",
                  !.duplicateActions = {"unknownDate", "recent", "eligible"}],
    [Plain EXCEPT !.previousSteps = TRUE, !.triggerResultKeys = {"ok"}, !.templates = <<Recipe>>] }

TargetDrafts == {
    Target, [Target EXCEPT !.visible = "yes"], [Target EXCEPT !.templateId = 2],
    [Target EXCEPT !.snPrimary = "note", !.conditionalFields = <<>>],
    [Target EXCEPT !.choiceFields = <<>>],
    [Target EXCEPT !.gradeMap = [ok |-> "reason"], !.choiceFields = <<>>] }

Body(list, replace) == [profiles |-> list, replace |-> replace]
MCPublishes ==
    {Body(<<p>>, FALSE) : p \in SourceDrafts \cup TargetDrafts}
    \cup {Body(<<Target, With(Entry)>>, FALSE), Body(<<Plain>>, TRUE), Body(<<>>, TRUE),
          Body(<<Plain, [Plain EXCEPT !.maxAttempts = 1, !.sku = "other"]>>, TRUE)}

-----------------------------------------------------------------------------

Card(id, selectors) == [id |-> id, selectors |-> selectors, legacy |-> None]
V2(flats) == [groups |-> <<Card("good", <<<<"source", "ok">>>>)>>, flats |-> flats]
Counting(id) == [groups |-> <<Card("good", <<<<id, "ok">>>>)>>, flats |-> <<>>]
Alternate == [groups |-> <<>>, flats |-> <<Card("spares", <<<<"source", "spare">>>>)>>]

\* What every adapter has, one that can do everything once the flat endpoints
\* of older settings add what it asks for duplicates, and one of another place.
Environment == [NoAdapter EXCEPT !.endpoints = [name \in RequiredEndpoints |-> "/env"],
                   !.auth = [name \in Signals |-> {}], !.parts = [core |-> TRUE]]
Rich == [Environment EXCEPT !.base = "https",
            !.endpoints = [name \in RequiredEndpoints \cup {"detectionData"} |-> "/v1"],
            !.auth = [name \in Signals |-> IF name = "sessionInvalidCodes" THEN {"401"} ELSE {}],
            !.submitRules = [rule \in SubmitRules |-> TRUE],
            !.parts = [part \in Parts \ {"legacyAlreadyExists", "duplicateCheck"} |-> TRUE],
            !.resolvers = [create |-> {"front"}], !.overrideResolvers = {"byLabel"}]
Elsewhere == [Rich EXCEPT !.base = "other",
                 !.endpoints = [name \in RequiredEndpoints \cup {"snRepetition"} |-> "/v2"],
                 !.auth = [name \in Signals |-> IF name = "sessionInvalidCodes" THEN {"403"} ELSE {}],
                 !.submitRules = [rule \in SubmitRules |-> rule = "missingMaterialNotWritten"],
                 !.parts = [part \in {"core", "dateParsing", "idParam", "overrideResolvers"} |-> TRUE]]

Save(order, list, change) == [order |-> order, profiles |-> list, change |-> change]
MCSaves ==
    {Save(<<>>, <<>>, change) : change \in {
        [dailyStatsV2 |-> V2(<<>>)], [dailyStatsV2 |-> Counting("target")], [dailyStatsV2 |-> None],
        [dailyStatsV2 |-> V2(<<Card("spares", <<>>)>>), dailyStatsAlternate |-> Alternate],
        [dailyStatsV2 |-> [V2(<<>>) EXCEPT !.groups = @ \o <<Card("more", <<<<"source", "ok">>>>)>>]],
        [dailyStatsAlternate |-> None], [dailyStatsAlternate |-> Alternate],
        [backendAdapter |-> Rich], [backendAdapter |-> Elsewhere],
        [sessionInvalidCodes |-> {"401"}], [sessionInvalidCodes |-> {"403"}],
        [backendApiBase |-> "https", endpoints |-> [snRepetition |-> "/v1"]],
        [endpoints |-> <<>>], [backendApiBase |-> "other"],
        [notifier |-> [version |-> 2, events |-> {"submission.summary"}],
         dailyStats |-> <<Card("all", <<"ok">>)>>],
        [notifier |-> None, dailyStats |-> None],
        [updateSource |-> [owner |-> "o", repo |-> "r"]],
        [updateOwner |-> "x"], [updateSource |-> None, updateOwner |-> None] }}
    \cup {Save(<<"target", "nobody", "target">>, <<>>, <<>>),
          Save(<<>>, <<Target, With(Entry)>>, <<>>),
          Save(<<>>, <<With(Entry)>>, <<>>)}

MCIdentityFields == {"templateId", "warehouseId", "sku"}

=============================================================================
