----------------------------- MODULE DailyStats -----------------------------
(***************************************************************************)
(* The three settings that attribute recorded results to the cards of the  *)
(* App's daily summary (api/daily-stats-*.js): dailyStats, which groups     *)
(* result keys whatever their profile; dailyStatsV2, which groups exact     *)
(* profile/result pairs and may have flat summaries beside the groups; and  *)
(* dailyStatsAlternateEntries, which attributes successful alternate        *)
(* entries to the cards of dailyStatsV2.                                    *)
(*                                                                          *)
(* A card is [id, selectors], a group of dailyStatsV2 also [legacy], the    *)
(* result keys an older App counts for it.  Labels and colours are left     *)
(* out.                                                                     *)
(***************************************************************************)
EXTENDS AlternateEntries

MaxGroups == 16
MaxFlats == 8
MaxSelectors == 512
MaxResultKeys == 128

\* Where the selectors of a sequence of cards stand, and no two of them alike:
\* neither within a card nor in two cards.
Places(cards) == UNION {{c} \X DOMAIN cards[c].selectors : c \in DOMAIN cards}
SelectorAt(cards, place) == cards[place[1]].selectors[place[2]]
CountedOnce(cards) ==
    \A a, b \in Places(cards) : SelectorAt(cards, a) = SelectorAt(cards, b) => a = b

Selected(cards) == UNION {Range(cards[c].selectors) : c \in DOMAIN cards}

UniqueIds(cards) == \A c, d \in DOMAIN cards : cards[c].id = cards[d].id => c = d
Ids(cards) == {cards[c].id : c \in DOMAIN cards}

\* pickerVisible is "yes", "no" or "unset"; only an explicit yes counts here.
VisibleResultKeys(profiles) ==
    UNION {DOMAIN profiles[i].gradeMap : i \in {j \in DOMAIN profiles : profiles[j].visible = "yes"}}
\* A bug: the results of hidden profiles may be selected too.
VisibleResultPairsAny(profiles) ==
    UNION {{<<profiles[i].id, k>> : k \in DOMAIN profiles[i].gradeMap} : i \in DOMAIN profiles}
VisibleResultPairs(profiles) ==
    UNION {{<<profiles[i].id, k>> : k \in DOMAIN profiles[i].gradeMap} :
           i \in {j \in DOMAIN profiles : profiles[j].visible = "yes"}}

\* Alternate entries that a source and an entry id name without doubt.
UniqueEntryPairs(profiles) ==
    UNION {{<<profiles[i].id, profiles[i].entries[n].id>> : n \in {m \in DOMAIN profiles[i].entries :
                \A k \in DOMAIN profiles[i].entries :
                    profiles[i].entries[k].id = profiles[i].entries[m].id => k = m}} :
           i \in {j \in DOMAIN profiles :
                    /\ profiles[j].visible = "yes" /\ profiles[j].entriesEnabled
                    /\ \A k \in DOMAIN profiles : profiles[k].id = profiles[j].id => k = j}}

DailyStatsOk(groups, profiles) == groups # None =>
    /\ Len(groups) \in 1..MaxGroups
    /\ UniqueIds(groups) /\ CountedOnce(groups)
    /\ \A g \in DOMAIN groups : Len(groups[g].selectors) \in 1..MaxResultKeys
    /\ Selected(groups) \subseteq VisibleResultKeys(profiles)

\* Legacy keys stand for selectors of their own group, each in one group.
LegacyKeysOk(groups) == \A g \in DOMAIN groups : groups[g].legacy # None =>
    /\ Len(groups[g].legacy) \in 1..MaxResultKeys
    /\ IsInjective(groups[g].legacy)
    /\ \A k \in Range(groups[g].legacy) :
        /\ \E i \in DOMAIN groups[g].selectors : groups[g].selectors[i][2] = k
        /\ \A h \in DOMAIN groups \ {g} : groups[h].legacy # None => k \notin Range(groups[h].legacy)

DailyStatsV2Ok(v2, profiles) == v2 # None =>
    /\ Len(v2.groups) \in 1..MaxGroups /\ Len(v2.flats) \in 0..MaxFlats
    /\ UniqueIds(v2.groups \o v2.flats)
    /\ \A g \in DOMAIN v2.groups : Len(v2.groups[g].selectors) \in 1..MaxSelectors
    /\ \A f \in DOMAIN v2.flats : Len(v2.flats[f].selectors) \in 0..MaxSelectors
    /\ CountedOnce(v2.groups) /\ CountedOnce(v2.flats)
    /\ Selected(v2.groups) \cup Selected(v2.flats) \subseteq VisibleResultPairs(profiles)
    /\ LegacyKeysOk(v2.groups)

\* Flat summaries with no selector of their own live on alternate entries.
AlternateOnlyFlats(v2) ==
    {v2.flats[f].id : f \in {g \in DOMAIN v2.flats : Len(v2.flats[g].selectors) = 0}}

AlternateStatsOk(alternate, v2, profiles) ==
    IF alternate = None
    THEN v2 # None /\ DailyStatsV2Ok(v2, profiles) => AlternateOnlyFlats(v2) = {}
    ELSE /\ v2 # None /\ DailyStatsV2Ok(v2, profiles)
         /\ Len(alternate.groups) <= MaxGroups /\ Len(alternate.flats) <= MaxFlats
         /\ UniqueIds(alternate.groups \o alternate.flats)
         /\ Ids(alternate.groups) \subseteq Ids(v2.groups)
         /\ Ids(alternate.flats) \subseteq Ids(v2.flats)
         /\ \A cards \in {alternate.groups, alternate.flats} :
              /\ \A c \in DOMAIN cards : Len(cards[c].selectors) \in 1..MaxSelectors
              /\ CountedOnce(cards)
              /\ Selected(cards) \subseteq UniqueEntryPairs(profiles)
         /\ AlternateOnlyFlats(v2) \subseteq Ids(alternate.flats)

\* The three validators of the routes, in their order.
StatsOk(settings, profiles) ==
    /\ DailyStatsOk(settings.dailyStats, profiles)
    /\ DailyStatsV2Ok(settings.dailyStatsV2, profiles)
    /\ AlternateStatsOk(settings.dailyStatsAlternate, settings.dailyStatsV2, profiles)

=============================================================================
