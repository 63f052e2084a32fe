----------------------------- MODULE PanelEditing -----------------------------
(***************************************************************************)
(* Several browsers edit the catalog at once (public/index.html).  Each    *)
(* keeps the lists it last downloaded, one optimistic-lock token for all   *)
(* its writes, and copies its user works on: the draft in the editor card, *)
(* and the order and the settings in the modal dialog.  The server is the  *)
(* register of CatalogRegister, which CatalogStore implements: a write is  *)
(* applied in one step, to the version it was based on.                    *)
(*                                                                         *)
(* A version gives each part of the catalog (a profile, or the settings    *)
(* block) a stamp: the version that last changed its content.              *)
(***************************************************************************)
EXTENDS Naturals, Sequences

CONSTANTS
    Panels,       \* open browser tabs
    Profiles,     \* profiles of the catalog
    Settings,     \* the settings block
    Uses,         \* bound on the clicks: the save buttons each panel uses
    MaxVersion,   \* bound on the published versions
    None          \* no working copy, no request, no author

ASSUME PanelAssumption ==
    /\ Settings \notin Profiles
    /\ Uses \in [Panels -> SUBSET {"publish", "order", "settings"}]
    /\ MaxVersion \in Nat \ {0}
    /\ None \notin Panels

VARIABLES
    line,      \* the published versions, oldest first
    author,    \* the panel that wrote each of them, None for the seed
    token,     \* CATALOG_VERSION
    lists,     \* versions CATALOG_PROFILES and CATALOG_SETTINGS are of
    work,      \* the copy behind each button: DRAFT, ORDER_WORKING, the form
    loads,     \* GET /api/profiles of each caller of loadCatalog
    post,      \* the write each button waits for
    loaded     \* history: the latest version the panel ever downloaded

server == <<line, author>>
vars == <<line, author, token, lists, work, loads, post, loaded>>

Buttons  == {"publish", "order", "settings"}
Parts    == Profiles \cup {Settings}
Versions == 0..MaxVersion
Callers  == {"reload", "publish", "order"}

\* A copy taken of one version (0: before anything was loaded), not yet posted
\* or posted since it was taken.
Work == [of : Versions, covers : SUBSET Parts, posted : BOOLEAN]
Load == [stage : {"idle", "sent", "read"}, version : Versions]
\* A posted copy; its version is the base it is sent with, then what it became.
Post == [stage : {"sent", "written", "refused", "loading"}, of : Versions,
         covers : SUBSET Parts, version : Versions]

Idle == [stage |-> "idle", version |-> 0]
Sent == [stage |-> "sent", version |-> 0]

Version   == Len(line)
Stamp(v, a) == IF v = 0 THEN 0 ELSE line[v][a]

\* A list not loaded yet is empty.
Copy(v, parts) == [of |-> v, covers |-> parts, posted |-> FALSE]
OrderCopy(v)   == Copy(v, IF v = 0 THEN {} ELSE Profiles)

\* The dialog is modal: while it is open nothing else of the page is clicked.
DialogOpen(p) == work[p]["settings"] # None

\* Logging in loads the lists.
Init ==
    /\ line = <<[a \in Parts |-> 1]>>
    /\ author = <<None>>
    /\ token = [p \in Panels |-> 0]
    /\ lists = [p \in Panels |-> [profiles |-> 0, settings |-> 0]]
    /\ work = [p \in Panels |-> [b \in Buttons |-> None]]
    /\ loads = [p \in Panels |-> [c \in Callers |-> IF c = "reload" THEN Sent ELSE Idle]]
    /\ post = [p \in Panels |-> [b \in Buttons |-> None]]
    /\ loaded = [p \in Panels |-> 0]

-----------------------------------------------------------------------------
(* loadCatalog.  One load of each caller is in flight at a time: a bound    *)
(* for the reload button, a fact for the other two.                        *)

\* The reload button, and a new login after the session ended.
Reload(p) ==
    /\ ~DialogOpen(p)
    /\ loads[p]["reload"].stage = "idle"
    /\ loads' = [loads EXCEPT ![p]["reload"] = Sent]
    /\ UNCHANGED <<server, token, lists, work, post, loaded>>

ServerReads(p, c) ==
    /\ loads[p][c].stage = "sent"
    /\ loads' = [loads EXCEPT ![p][c] = [stage |-> "read", version |-> Version]]
    /\ UNCHANGED <<server, token, lists, work, post, loaded>>

\* The handler that awaited the load goes on, whether or not it succeeded: the
\* publish button is released, the order is copied afresh from the list.
Resume(p, c, v) ==
    /\ post' = IF c = "reload" THEN post ELSE [post EXCEPT ![p][c] = None]
    /\ work' = IF c = "order" /\ DialogOpen(p)
               THEN [work EXCEPT ![p]["order"] = OrderCopy(v)] ELSE work

\* An answer replaces lists and token, whatever answers came before it.
Loaded(p, c) ==
    LET v == loads[p][c].version IN
    /\ loads[p][c].stage = "read"
    /\ loads' = [loads EXCEPT ![p][c] = Idle]
    /\ lists' = [lists EXCEPT ![p] = [profiles |-> v, settings |-> v]]
    /\ token' = [token EXCEPT ![p] = v]
    /\ loaded' = [loaded EXCEPT ![p] = IF v > @ THEN v ELSE @]
    /\ Resume(p, c, v)
    /\ UNCHANGED server

\* loadCatalog shows the error and returns normally.
LoadFailed(p, c) ==
    /\ loads[p][c].stage # "idle"
    /\ loads' = [loads EXCEPT ![p][c] = Idle]
    /\ Resume(p, c, lists[p].profiles)
    /\ UNCHANGED <<server, token, lists, loaded>>

-----------------------------------------------------------------------------
(* Working copies.                                                         *)

\* The edit button of a row of the list.
OpenDraft(p, f) ==
    /\ ~DialogOpen(p)
    /\ lists[p].profiles # 0
    /\ "publish" \in Uses[p]
    /\ work' = [work EXCEPT ![p]["publish"] = Copy(lists[p].profiles, {f})]
    /\ UNCHANGED <<server, token, lists, loads, post, loaded>>

\* openGlobalSettings.
OpenDialog(p) ==
    /\ ~DialogOpen(p)
    /\ Uses[p] # {"publish"}
    /\ work' = [work EXCEPT ![p]["order"] = OrderCopy(lists[p].profiles),
                            ![p]["settings"] = Copy(lists[p].settings, {Settings})]
    /\ UNCHANGED <<server, token, lists, loads, post, loaded>>

CloseDialog(p) ==
    /\ DialogOpen(p)
    /\ work' = [work EXCEPT ![p]["order"] = None, ![p]["settings"] = None]
    /\ UNCHANGED <<server, token, lists, loads, post, loaded>>

-----------------------------------------------------------------------------
(* Saving: the button is disabled until its handler ends.                  *)

Save(p, b) ==
    /\ work[p][b] # None
    /\ post[p][b] = None
    /\ b = "publish" => ~DialogOpen(p)
    /\ post' = [post EXCEPT ![p][b] = [stage |-> "sent", of |-> work[p][b].of,
                          covers |-> work[p][b].covers, version |-> token[p]]]
    /\ work' = [work EXCEPT ![p][b].posted = TRUE]
    /\ UNCHANGED <<server, token, lists, loads, loaded>>

\* As BaseIsCurrent would be if the server took the base for a lower bound.
BaseNotAhead(q) == q.version <= Version

BaseIsCurrent(q) == q.version = Version

\* The server takes the write.  An order posts the profiles it was given as they
\* are; a draft or a form is new content.  From here on the copy that was posted
\* is one of the version it became.
ServerWrites(p, b) ==
    LET q == post[p][b] IN
    /\ q # None
    /\ q.stage = "sent"
    /\ BaseIsCurrent(q)
    /\ Version < MaxVersion
    /\ line' = Append(line, [a \in Parts |-> IF a \notin q.covers THEN line[Version][a]
                                             ELSE IF b = "order" THEN Stamp(q.of, a)
                                             ELSE Version + 1])
    /\ author' = Append(author, p)
    /\ post' = [post EXCEPT ![p][b].stage = "written", ![p][b].version = Version + 1]
    /\ work' = IF work[p][b] # None /\ work[p][b].posted
               THEN [work EXCEPT ![p][b].of = Version + 1] ELSE work
    /\ UNCHANGED <<token, lists, loads, loaded>>

\* 409: the base is not the current version.
ServerRefuses(p, b) ==
    /\ post[p][b] # None
    /\ post[p][b].stage = "sent"
    /\ ~BaseIsCurrent(post[p][b])
    /\ post' = [post EXCEPT ![p][b].stage = "refused"]
    /\ UNCHANGED <<server, token, lists, work, loads, loaded>>

\* As NewToken would be if the answer did not carry the version.
NewTokenMissing(q) == None

NewToken(q) == q.version

\* The answer to a publish moves the token and then reloads the lists.
Published(p) ==
    /\ post[p]["publish"] # None
    /\ post[p]["publish"].stage = "written"
    /\ token' = [token EXCEPT ![p] = NewToken(post[p]["publish"])]
    /\ loads' = [loads EXCEPT ![p]["publish"] = Sent]
    /\ post' = [post EXCEPT ![p]["publish"].stage = "loading"]
    /\ UNCHANGED <<server, lists, work, loaded>>

\* The answer to an order only reloads.
OrderSaved(p) ==
    /\ post[p]["order"] # None
    /\ post[p]["order"].stage = "written"
    /\ loads' = [loads EXCEPT ![p]["order"] = Sent]
    /\ post' = [post EXCEPT ![p]["order"].stage = "loading"]
    /\ UNCHANGED <<server, token, lists, work, loaded>>

\* The answer to the settings moves the token and patches the settings list.
SettingsSaved(p) ==
    /\ post[p]["settings"] # None
    /\ post[p]["settings"].stage = "written"
    /\ token' = [token EXCEPT ![p] = NewToken(post[p]["settings"])]
    /\ lists' = [lists EXCEPT ![p].settings = post[p]["settings"].version]
    /\ post' = [post EXCEPT ![p]["settings"] = None]
    /\ UNCHANGED <<server, work, loads, loaded>>

\* An error answer, a lost request or a lost answer: the message is shown and
\* the button released.
SaveFailed(p, b) ==
    /\ post[p][b] # None
    /\ post[p][b].stage # "loading"
    /\ post' = [post EXCEPT ![p][b] = None]
    /\ UNCHANGED <<server, token, lists, work, loads, loaded>>

-----------------------------------------------------------------------------

Click(p) ==
    \/ Reload(p)
    \/ \E f \in Profiles : OpenDraft(p, f)
    \/ OpenDialog(p)
    \/ CloseDialog(p)
    \/ \E b \in Uses[p] : Save(p, b)

\* What the network and the handlers do with a request of panel p.
LoadStep(p, c) == ServerReads(p, c) \/ Loaded(p, c) \/ LoadFailed(p, c)
SaveStep(p, b) == ServerWrites(p, b) \/ ServerRefuses(p, b) \/ SaveFailed(p, b)
Answered(p)    == Published(p) \/ OrderSaved(p) \/ SettingsSaved(p)

Next ==
    \E p \in Panels :
        \/ Click(p)
        \/ \E c \in Callers : LoadStep(p, c)
        \/ \E b \in Buttons : SaveStep(p, b)
        \/ Answered(p)

Spec == Init /\ [][Next]_vars

-----------------------------------------------------------------------------
(* Properties.                                                             *)

\* Each variable has its type.
TypeOK ==
    /\ line \in Seq([Parts -> Versions]) /\ Len(line) \in 1..MaxVersion
    /\ author \in Seq(Panels \cup {None}) /\ Len(author) = Len(line)
    /\ token \in [Panels -> Versions]
    /\ lists \in [Panels -> [profiles : Versions, settings : Versions]]
    /\ work \in [Panels -> [Buttons -> Work \cup {None}]]
    /\ loads \in [Panels -> [Callers -> Load]]
    /\ post \in [Panels -> [Buttons -> Post \cup {None}]]
    /\ loaded \in [Panels -> Versions]

Takes(p, b) == post[p][b] # None /\ post'[p][b] # None
               /\ post[p][b].stage = "sent" /\ post'[p][b].stage = "written"

\* What a write replaces although the copy it posts is not of it.
Overwritten(p, b) ==
    {a \in post[p][b].covers : Stamp(post[p][b].of, a) # line[Version][a]}

\* Blind overwriting is impossible: whatever content an accepted write replaces,
\* the panel that posted it had downloaded that content or written it itself,
\* however its loads, saves and their answers overtook each other.
NothingUnseenOverwritten ==
    [][\A p \in Panels, b \in Buttons : Takes(p, b) =>
          \A a \in Overwritten(p, b) :
              line[Version][a] <= loaded[p] \/ author[line[Version][a]] = p]_vars

\* "optimistic-lock token: every write targets the version the editor loaded"
\* (index.html:328), so an accepted write replaces no work of another panel that
\* its copy was taken before.
OthersWorkKept ==
    [][\A p \in Panels, b \in Buttons : Takes(p, b) =>
          \A a \in Overwritten(p, b) : author[line[Version][a]] = p]_vars

\* By the same sentence, nor does a panel undo what it wrote itself through a
\* copy that is older than that.
OwnWorkKept ==
    [][\A p \in Panels, b \in Buttons : Takes(p, b) =>
          \A a \in Overwritten(p, b) : author[line[Version][a]] # p]_vars

=============================================================================
