----------------------------- MODULE CatalogData -----------------------------
(***************************************************************************)
(* The data of the catalog and the pure part of a publish: what one        *)
(* version holds, what a request asks for, and the version it makes        *)
(* (api/worker-api-routes.js, api/catalog-publish.js).                     *)
(*                                                                         *)
(* The SHA-256 of a stored state covers the digest of its parent and the   *)
(* exact bytes of its files (encodeR2CatalogState), so it names the whole  *)
(* line of states that led to it.  A digest is therefore modelled by that  *)
(* line: a non-empty sequence of entries, oldest first.  A snapshot object *)
(* is the line it is stored under, and the current pointer, whose text     *)
(* (and so its ETag, the MD5 of the text) is a function of the digest, is  *)
(* the line it names.  The notes and updatedAt fields of a manifest are    *)
(* left out: two publishes of the same content over the same parent have   *)
(* one digest here, as they do in the code within one millisecond.         *)
(***************************************************************************)
EXTENDS Integers, Sequences

CONSTANTS
    Publishers,   \* POST /api/publish and /api/settings requests, one each
    Readers,      \* requests to /catalog/* and /api/config, one each
    Profiles,     \* profile ids
    Caps,         \* workflow capabilities a profile may need
    Absent,       \* no profile under an id
    Requests,     \* the bodies each publisher may post
    Earlier,      \* the versions earlier runs of the server left, oldest first
    MaxVersion    \* MAX_APP_CATALOG_VERSION: the last version an App accepts

ProfileMap == [Profiles -> Caps \cup {Absent}]

\* One version of the catalog: each profile with the capability its workflow
\* needs, and the capabilities the stored adapters offer.
Entry == [version : 1..MaxVersion, profiles : ProfileMap, settings : SUBSET Caps]

Request == [route    : {"publish", "settings"},
            base     : 0..MaxVersion,             \* baseVersion
            incoming : ProfileMap,                \* profiles in the body
            replace  : BOOLEAN,                   \* take exactly these
            adapters : BOOLEAN,                   \* the body brings adapters,
            settings : SUBSET Caps]               \* which offer these

ASSUME CatalogAssumption ==
    /\ MaxVersion \in Nat \ {0}
    /\ \A r \in Publishers : /\ Requests[r] \subseteq Request
                            /\ \A q \in Requests[r] : q.route = "publish" => ~q.adapters
    /\ Absent \notin Caps
    /\ Publishers \cap Readers = {}

Clients == Publishers \cup Readers
Bodies == {b \in [Publishers -> UNION {Requests[r] : r \in Publishers}] :
              \A r \in Publishers : b[r] \in Requests[r]}
Lines == Seq(Entry) \ {<<>>}
Latest(line) == line[Len(line)]
Version(line) == Latest(line).version

\* config/seed-catalog: version 1, no profiles, no adapter.
Seed == [version |-> 1, profiles |-> [i \in Profiles |-> Absent], settings |-> {}]

-----------------------------------------------------------------------------

HasProfiles(q) == \E i \in Profiles : q.incoming[i] # Absent

\* /api/publish upserts by id unless it replaces; /api/settings keeps the stored
\* profiles unless it brings a full array, which it takes verbatim.
FinalProfiles(q, current) ==
    [i \in Profiles |->
        IF q.incoming[i] # Absent \/ (HasProfiles(q) /\ (q.replace \/ q.route = "settings"))
        THEN q.incoming[i] ELSE current[i]]

\* Incoming settings are merged over the stored ones, incoming keys win.
FinalSettings(q, current) == IF q.adapters THEN q.settings ELSE current

\* validateWorkflowCapabilities: no profile needs what the adapters do not offer.
Executable(profiles, settings) == \A i \in Profiles : profiles[i] \in settings \cup {Absent}

\* Earlier runs stored what every run stores: versions numbered from 1, each of
\* them executable.  A fresh install has <<Seed>>.
ASSUME EarlierAssumption ==
    /\ Earlier \in Lines
    /\ \A i \in 1..Len(Earlier) : /\ Earlier[i].version = i
                                 /\ Executable(Earlier[i].profiles, Earlier[i].settings)

\* The entry publishCatalog writes when the route took the profiles and the
\* settings it validated from `read` and publishCatalog then read `entry`.
Written(q, read, entry) == [version  |-> entry.version + 1,
                            profiles |-> FinalProfiles(q, read.profiles),
                            settings |-> FinalSettings(q, entry.settings)]

\* What request q means when both reads are of the same version.
Apply(q, entry) == Written(q, entry, entry)

\* The checks a route makes of what it is about to publish.
Admissible(q, read) ==
    /\ q.route = "publish" => HasProfiles(q)
    /\ Executable(FinalProfiles(q, read.profiles), FinalSettings(q, read.settings))

=============================================================================
