---------------------------- MODULE Capabilities ----------------------------
(***************************************************************************)
(* Whether the backend adapter and the notification adapter can run what   *)
(* the profiles of a catalog ask for (api/worker-capabilities.js and the   *)
(* capability checks it takes from api/backend-adapter-*.js).              *)
(*                                                                         *)
(* A backend adapter is a record of what these checks tell apart.          *)
(* `endpoints` gives each named endpoint its path, "" when blank; `auth`   *)
(* gives each signal that a session ended its values, trimmed and without  *)
(* repetition; `parts` says of each operation or policy it configures      *)
(* whether its own schema holds; the rules of an outcome policy say of     *)
(* each list of attested "not written" answers whether it names any;       *)
(* `resolvers` gives each recipe resolver the photo aliases its rules use. *)
(***************************************************************************)
EXTENDS ProfileRules

Parts == {"core", "previousSteps", "recipeResponse", "idParam", "dynamicSteps",
          "overrideResolvers", "printing", "duplicateCheck", "dateParsing",
          "missingPatterns", "legacyAlreadyExists", "materialRefresh"}
RequiredEndpoints == {"captcha", "login", "userInfo", "templateList", "templateDetail",
                      "uploadFile", "submitEntry"}
EndpointKeys == RequiredEndpoints \cup {"loginVerify", "printerState", "messageList",
                                        "labelRetry", "detectionData", "snRepetition"}
Signals == {"sessionInvalidHttpStatuses", "sessionInvalidCodes", "sessionInvalidMessagePatterns"}
SubmitRules == {"retryableNotWritten", "missingMaterialNotWritten"}
RecipeRules == {"retryableNotWritten", "alreadyExistsAcknowledged"}

Has(a, part) == part \in DOMAIN a.parts /\ a.parts[part]
Endpoint(a, name) == name \in DOMAIN a.endpoints /\ a.endpoints[name] # ""
Attests(rules, name) == name \in DOMAIN rules /\ rules[name]

\* validateBackendAdapter.  A policy brings all of its rule lists or is left out,
\* and an operation brings the endpoint it calls; the rest of the schema is "core".
AdapterOk(a, bases) ==
    /\ a.base \in bases /\ Has(a, "core")
    /\ DOMAIN a.endpoints \subseteq EndpointKeys
    /\ \A name \in RequiredEndpoints : Endpoint(a, name)
    /\ DOMAIN a.auth = Signals /\ None \notin Range(a.auth)
    /\ DOMAIN a.submitRules \in {{}, SubmitRules} /\ DOMAIN a.recipeRules \in {{}, RecipeRules}
    /\ "previousSteps" \in DOMAIN a.parts => Endpoint(a, "detectionData")
    /\ "duplicateCheck" \in DOMAIN a.parts => Endpoint(a, "snRepetition")

\* mergeObjects, documents within documents: every key goes to the document that
\* wins, a, where it has it, and lists are taken whole.
Over(f, g) == [k \in DOMAIN f \cup DOMAIN g |-> IF k \in DOMAIN f THEN f[k] ELSE g[k]]
Or(value, default) == IF value # None THEN value ELSE default
Merged(a, b) == [base        |-> Or(a.base, b.base),
                 endpoints   |-> Over(a.endpoints, b.endpoints),
                 auth        |-> Over(a.auth, b.auth),
                 parts       |-> Over(a.parts, b.parts),
                 submitRules |-> Over(a.submitRules, b.submitRules),
                 recipeRules |-> Over(a.recipeRules, b.recipeRules),
                 resolvers   |-> Over(a.resolvers, b.resolvers),
                 overrideResolvers |-> a.overrideResolvers \cup b.overrideResolvers]

-----------------------------------------------------------------------------
(* What the profiles ask for *)

StepProfiles(P) == {p \in P : p.previousSteps}
DynamicRecipes(P) == UNION {{t \in Range(p.templates) : t.dynamic} : p \in StepProfiles(P)}
RecipeProfiles(P) == {p \in StepProfiles(P) : p.triggerResultKeys # {} /\ p.templates # <<>>}
EntriesOf(P) == UNION {Range(p.entries) : p \in P}
Providers(P) == UNION {Range(e.providers) : e \in EntriesOf(P)}
\* A bug: the retries of alternate entries are forgotten.
RetryingProfiles(P) == \E p \in P : p.maxAttempts > 1
Retrying(P) == \/ \E p \in P : p.maxAttempts > 1
               \/ \E e \in EntriesOf(P) : e.maxAttempts # None /\ e.maxAttempts > 1

PreviousStepsSupported(P, a) == StepProfiles(P) # {} =>
    Endpoint(a, "detectionData") /\ Has(a, "previousSteps") /\ Has(a, "recipeResponse")

\* Aliases close both ways: every photo a resolver sends has a source, and
\* every source is sent.
DynamicRecipesSupported(P, a) == DynamicRecipes(P) # {} =>
    /\ Endpoint(a, "templateDetail") /\ Has(a, "idParam") /\ Has(a, "dynamicSteps")
    /\ \A t \in DynamicRecipes(P) :
        t.resolver \in DOMAIN a.resolvers /\ a.resolvers[t.resolver] = DOMAIN t.sources

\* A repeated or an acknowledged recipe needs answers the backend attests.
RecipeOutcomesAttested(P, a) ==
    LET retried == \E p \in RecipeProfiles(P) : p.recipeMaxAttempts > 1
        exists  == RecipeProfiles(P) # {} /\ Has(a, "legacyAlreadyExists")
    IN  retried \/ exists =>
            /\ DOMAIN a.recipeRules # {}
            /\ retried => Attests(a.recipeRules, "retryableNotWritten")
            /\ exists => Attests(a.recipeRules, "alreadyExistsAcknowledged")

OverridesSupported(P, a) == Providers(P) # {} =>
    /\ Endpoint(a, "templateDetail") /\ Has(a, "idParam") /\ Has(a, "overrideResolvers")
    /\ \A provider \in Providers(P) : provider.resolver \in a.overrideResolvers

PrintingSupported(P, a) == (\E p \in P : p.printing) => Has(a, "printing")

DuplicateCheckSupported(P, a) == (\E p \in P : p.duplicateCheck) =>
    Endpoint(a, "snRepetition") /\ Has(a, "dateParsing")

RecoverySupported(P, a) ==
    LET recovering == {p \in P : p.missingRecovery}
    IN  recovering # {} =>
            /\ Has(a, "missingPatterns")
            /\ Attests(a.submitRules, "missingMaterialNotWritten")
            /\ \A p \in recovering : MaterialCodes(p) # {} => p.materialCodePattern # None

RetriesAttested(P, a) ==
    Retrying(P) => Attests(a.submitRules, "retryableNotWritten")

RefreshSupported(P, a) == (\E p \in P : p.refreshBeforeSubmit) =>
    Endpoint(a, "templateDetail") /\ Has(a, "idParam") /\ Has(a, "materialRefresh")

\* validateWorkflowCapabilities
WorkflowSupported(profiles, a) ==
    LET P == Range(profiles) IN
    /\ PreviousStepsSupported(P, a) /\ DynamicRecipesSupported(P, a)
    /\ RecipeOutcomesAttested(P, a) /\ OverridesSupported(P, a)
    /\ PrintingSupported(P, a) /\ DuplicateCheckSupported(P, a)
    /\ RecoverySupported(P, a) /\ RetriesAttested(P, a) /\ RefreshSupported(P, a)

\* validateNotificationWorkflowCapabilities; a notifier is [version, events].
NotificationSupported(profiles, notifier) ==
    LET requested == {p \in Range(profiles) : p.submissionSummary}
    IN  requested # {} =>
            /\ notifier # None
            /\ IF notifier.version = 3
               THEN "submission.round" \in notifier.events
                    /\ \A p \in requested : p.profileLabel # None
               ELSE "submission.summary" \in notifier.events

=============================================================================
