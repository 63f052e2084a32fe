-------------------------- MODULE PanelEditingProofs --------------------------
(***************************************************************************)
(* What the optimistic lock of the panel guarantees, for any number of     *)
(* panels, profiles and versions.                                          *)
(***************************************************************************)
EXTENDS PanelEditing, SequenceTheorems, TLAPS

-----------------------------------------------------------------------------
(* The inductive invariant.                                                *)

\* Every version up to v was downloaded by panel p, or followed by p's own writes only.
Known(p, v) == \A w \in 1..v : w <= loaded[p] \/ author[w] = p

\* Nobody holds a version that does not exist yet.
Existing ==
    /\ \A p \in Panels : token[p] <= Version
                         /\ lists[p].profiles <= Version /\ lists[p].settings <= Version
    /\ \A p \in Panels, b \in Buttons : work[p][b] # None => work[p][b].of <= Version
    /\ \A p \in Panels, c \in Callers : loads[p][c].version <= Version
    /\ \A p \in Panels, b \in Buttons :
          post[p][b] # None => post[p][b].of <= Version /\ post[p][b].version <= Version

\* No content is newer than the version it is in.
Stamped == \A v \in 1..Version, a \in Parts : line[v][a] <= v

TokenKnown == \A p \in Panels : Known(p, token[p])
PostKnown  == \A p \in Panels, b \in Buttons : post[p][b] # None => Known(p, post[p][b].version)

IInv == TypeOK /\ Existing /\ Stamped /\ TokenKnown /\ PostKnown

-----------------------------------------------------------------------------

\* The initial state satisfies the invariant.
LEMMA InitInv == Init => IInv
<1> SUFFICES ASSUME Init PROVE IInv
  OBVIOUS
<1> USE PanelAssumption
<1>1. line \in Seq([Parts -> Versions]) /\ Len(line) = 1 /\ line[1] = [a \in Parts |-> 1]
  BY DEF Init, Versions
<1>2. author \in Seq(Panels \cup {None}) /\ Len(author) = 1
  BY DEF Init
<1>3. TypeOK
  BY <1>1, <1>2 DEF Init, TypeOK, Versions, Load, Idle, Sent
<1>4. Existing
  BY <1>1 DEF Init, Existing, Version, Idle, Sent
<1>5. Stamped
  BY <1>1 DEF Stamped, Version
<1>6. TokenKnown /\ PostKnown
  BY DEF Init, TokenKnown, PostKnown, Known
<1> QED
  BY <1>3, <1>4, <1>5, <1>6 DEF IInv

\* What is known stays known while the downloads grow and the line only gets longer.
LEMMA KnownStays ==
    ASSUME IInv, NEW p \in Panels, NEW v \in Versions, v <= Version, Known(p, v),
           loaded[p] \in Nat, loaded'[p] \in Nat, loaded[p] <= loaded'[p],
           \A w \in 1..Version : author'[w] = author[w]
    PROVE  Known(p, v)'
<1> SUFFICES ASSUME NEW w \in 1..v PROVE w <= loaded'[p] \/ author'[w] = p
  BY DEF Known
<1>1. v \in Nat /\ Version \in Nat
  BY PanelAssumption DEF IInv, TypeOK, Version, Versions
<1>2. w \in 1..Version
  BY <1>1
<1>3. w <= loaded[p] \/ author[w] = p
  BY DEF Known
<1> QED
  BY <1>2, <1>3

\* While nothing is written, typed variables whose posts and tokens are known keep
\* the invariant.
LEMMA QuietStep ==
    ASSUME IInv, UNCHANGED server, TypeOK', Existing',
           \A p \in Panels : loaded[p] <= loaded'[p],
           \A p \in Panels : Known(p, token'[p]) \/ token'[p] <= loaded'[p],
           \A p \in Panels, b \in Buttons : post'[p][b] # None =>
               Known(p, post'[p][b].version)
    PROVE  IInv'
<1>1. Stamped'
  BY DEF IInv, Stamped, server, Version
<1>2. ASSUME NEW p \in Panels, NEW v \in Versions, Known(p, v) \/ v <= loaded'[p],
             v <= Version
      PROVE  Known(p, v)'
  <2>1. loaded[p] \in Nat /\ loaded'[p] \in Nat /\ loaded[p] <= loaded'[p]
    BY PanelAssumption DEF IInv, TypeOK, Versions
  <2>2. CASE Known(p, v)
    BY <2>1, <2>2, <1>2, KnownStays DEF server
  <2>3. CASE v <= loaded'[p]
    BY <2>1, <2>3, PanelAssumption DEF Known, Versions
  <2> QED
    BY <1>2, <2>2, <2>3
<1>3. Version' = Version
  BY DEF server, Version
<1>4. TokenKnown'
  BY <1>2, <1>3 DEF TokenKnown, TypeOK, Existing
<1>5. PostKnown'
  <2> SUFFICES ASSUME NEW p \in Panels, NEW b \in Buttons, post'[p][b] # None
               PROVE  Known(p, post[p][b].version)'
    BY DEF PostKnown
  <2>1. post'[p][b] \in Post
    BY DEF TypeOK
  <2>2. post'[p][b].version \in Versions /\ post'[p][b].version <= Version
    BY <2>1, <1>3 DEF Post, Existing
  <2> QED
    BY <2>2, <1>2
<1> QED
  BY <1>1, <1>4, <1>5 DEF IInv

-----------------------------------------------------------------------------
(* Steps that write nothing.                                               *)

\* The types of a panel's variables under IInv, as the steps below use them.
LEMMA Held ==
    ASSUME IInv, NEW p \in Panels
    PROVE  /\ Version \in Nat \ {0} /\ Version <= MaxVersion /\ Version \in Versions
           /\ token[p] \in Versions /\ loaded[p] \in Versions
           /\ lists[p] \in [profiles : Versions, settings : Versions]
           /\ \A b \in Buttons : work[p][b] \in Work \cup {None} /\ post[p][b] \in Post \cup {None}
           /\ \A c \in Callers : loads[p][c] \in Load
BY PanelAssumption DEF IInv, TypeOK, Version, Versions

\* A copy taken of a version that exists.
LEMMA CopyHeld ==
    ASSUME IInv, NEW v \in Versions, v <= Version, NEW parts \in SUBSET Parts
    PROVE  /\ Copy(v, parts) \in Work /\ Copy(v, parts).of = v
           /\ OrderCopy(v) \in Work /\ OrderCopy(v).of = v
BY DEF Copy, OrderCopy, Work, Parts

\* A click on the list, the dialog or the reload button keeps the invariant.
LEMMA ViewStep ==
    ASSUME IInv, NEW p \in Panels,
           \/ Reload(p)
           \/ \E f \in Profiles : OpenDraft(p, f)
           \/ OpenDialog(p)
           \/ CloseDialog(p)
    PROVE  IInv'
<1>1. CASE Reload(p)
  <2>1. loads' = [loads EXCEPT ![p]["reload"] = Sent]
        /\ UNCHANGED <<server, token, lists, work, post, loaded>>
    BY <1>1 DEF Reload
  <2>2. Sent \in Load /\ Sent.version <= Version
    BY Held, PanelAssumption DEF Sent, Load, Versions
  <2>3. TypeOK'
    BY <2>1, <2>2 DEF IInv, TypeOK, server, Callers
  <2>4. Existing'
    BY <2>1, <2>2 DEF IInv, TypeOK, Existing, server, Version
  <2> QED
    BY <2>1, <2>3, <2>4, Held, QuietStep DEF IInv, TokenKnown, PostKnown, Versions
<1>2. ASSUME NEW f \in Profiles, OpenDraft(p, f)
      PROVE  IInv'
  <2>1. work' = [work EXCEPT ![p]["publish"] = Copy(lists[p].profiles, {f})]
        /\ UNCHANGED <<server, token, lists, loads, post, loaded>>
    BY <1>2 DEF OpenDraft
  <2>2. Copy(lists[p].profiles, {f}) \in Work /\ Copy(lists[p].profiles, {f}).of <= Version
    BY Held, CopyHeld DEF IInv, Existing, Parts
  <2>3. TypeOK'
    BY <2>1, <2>2 DEF IInv, TypeOK, server, Buttons
  <2>4. Existing'
    BY <2>1, <2>2 DEF IInv, TypeOK, Existing, server, Version
  <2> QED
    BY <2>1, <2>3, <2>4, Held, QuietStep DEF IInv, TokenKnown, PostKnown, Versions
<1>3. CASE OpenDialog(p)
  <2>1. work' = [work EXCEPT ![p]["order"] = OrderCopy(lists[p].profiles),
                             ![p]["settings"] = Copy(lists[p].settings, {Settings})]
        /\ UNCHANGED <<server, token, lists, loads, post, loaded>>
    BY <1>3 DEF OpenDialog
  <2>2. /\ OrderCopy(lists[p].profiles) \in Work /\ OrderCopy(lists[p].profiles).of <= Version
        /\ Copy(lists[p].settings, {Settings}) \in Work
        /\ Copy(lists[p].settings, {Settings}).of <= Version
    <3>1. lists[p].profiles \in Versions /\ lists[p].profiles <= Version
          /\ lists[p].settings \in Versions /\ lists[p].settings <= Version
      BY Held DEF IInv, Existing
    <3>2. OrderCopy(lists[p].profiles) \in Work /\ OrderCopy(lists[p].profiles).of <= Version
      BY <3>1, CopyHeld
    <3>3. {Settings} \in SUBSET Parts
      BY DEF Parts
    <3>4. /\ Copy(lists[p].settings, {Settings}) \in Work
          /\ Copy(lists[p].settings, {Settings}).of <= Version
      BY <3>1, <3>3, CopyHeld
    <3> QED
      BY <3>2, <3>4
  <2>3. TypeOK'
    BY <2>1, <2>2 DEF IInv, TypeOK, server, Buttons
  <2>4. Existing'
    BY <2>1, <2>2 DEF IInv, TypeOK, Existing, server, Version
  <2> QED
    BY <2>1, <2>3, <2>4, Held, QuietStep DEF IInv, TokenKnown, PostKnown, Versions
<1>4. CASE CloseDialog(p)
  <2>1. work' = [work EXCEPT ![p]["order"] = None, ![p]["settings"] = None]
        /\ UNCHANGED <<server, token, lists, loads, post, loaded>>
    BY <1>4 DEF CloseDialog
  <2>2. TypeOK'
    BY <2>1 DEF IInv, TypeOK, server, Buttons
  <2>3. Existing'
    BY <2>1 DEF IInv, TypeOK, Existing, server, Version
  <2> QED
    BY <2>1, <2>2, <2>3, Held, QuietStep DEF IInv, TokenKnown, PostKnown, Versions
<1> QED
  BY <1>1, <1>2, <1>3, <1>4

\* The answer of a load keeps the invariant: what it brings is downloaded now.
LEMMA LoadKeeps ==
    ASSUME IInv, NEW p \in Panels, NEW c \in Callers, LoadStep(p, c)
    PROVE  IInv'
<1>1. CASE ServerReads(p, c)
  <2> DEFINE read == [stage |-> "read", version |-> Version]
  <2>1. loads' = [loads EXCEPT ![p][c] = read]
        /\ UNCHANGED <<server, token, lists, work, post, loaded>>
    BY <1>1 DEF ServerReads
  <2>2. read \in Load /\ read.version <= Version
    BY Held DEF Load, Versions
  <2> HIDE DEF read
  <2>3. TypeOK'
    BY <2>1, <2>2 DEF IInv, TypeOK, server
  <2>4. Existing'
    BY <2>1, <2>2 DEF IInv, TypeOK, Existing, server, Version
  <2> QED
    BY <2>1, <2>3, <2>4, Held, QuietStep DEF IInv, TokenKnown, PostKnown, Versions
<1>2. ASSUME NEW v \in Versions, v <= Version, Resume(p, c, v),
             UNCHANGED server, loads' = [loads EXCEPT ![p][c] = Idle]
      PROVE  /\ work' \in [Panels -> [Buttons -> Work \cup {None}]]
             /\ post' \in [Panels -> [Buttons -> Post \cup {None}]]
             /\ loads' \in [Panels -> [Callers -> Load]]
             /\ \A q \in Panels, b \in Buttons : work'[q][b] # None => work'[q][b].of <= Version
             /\ \A q \in Panels, b \in Buttons : post'[q][b] # None => post'[q][b] = post[q][b]
             /\ \A q \in Panels, d \in Callers : loads'[q][d].version <= Version
  <2>1. Idle \in Load /\ Idle.version <= Version
    BY Held, PanelAssumption DEF Idle, Load, Versions
  <2>2. OrderCopy(v) \in Work /\ OrderCopy(v).of <= Version
    BY <1>2, CopyHeld DEF Parts
  <2>3. loads' \in [Panels -> [Callers -> Load]]
        /\ \A q \in Panels, d \in Callers : loads'[q][d].version <= Version
    BY <1>2, <2>1 DEF IInv, TypeOK, Existing
  <2>4. work' \in [Panels -> [Buttons -> Work \cup {None}]]
        /\ \A q \in Panels, b \in Buttons : work'[q][b] # None => work'[q][b].of <= Version
    BY <1>2, <2>2 DEF IInv, TypeOK, Existing, Resume, Buttons
  <2>5. post' \in [Panels -> [Buttons -> Post \cup {None}]]
        /\ \A q \in Panels, b \in Buttons : post'[q][b] # None => post'[q][b] = post[q][b]
    BY <1>2 DEF IInv, TypeOK, Resume, Buttons
  <2> QED
    BY <2>3, <2>4, <2>5
<1>3. CASE Loaded(p, c)
  <2> DEFINE v == loads[p][c].version
  <2>1. v \in Versions /\ v <= Version /\ Version \in Nat
    BY Held DEF Load, IInv, Existing
  <2>2. /\ loads' = [loads EXCEPT ![p][c] = Idle]
        /\ lists' = [lists EXCEPT ![p] = [profiles |-> v, settings |-> v]]
        /\ token' = [token EXCEPT ![p] = v]
        /\ loaded' = [loaded EXCEPT ![p] = IF v > @ THEN v ELSE @]
        /\ Resume(p, c, v)
        /\ UNCHANGED server
    BY <1>3 DEF Loaded
  <2> HIDE DEF v
  <2>3. /\ lists' \in [Panels -> [profiles : Versions, settings : Versions]]
        /\ token' \in [Panels -> Versions]
        /\ loaded' \in [Panels -> Versions]
    BY <2>1, <2>2 DEF IInv, TypeOK
  <2>4. TypeOK'
    BY <1>2, <2>1, <2>2, <2>3 DEF IInv, TypeOK, server
  <2>5. Existing'
    BY <1>2, <2>1, <2>2 DEF IInv, TypeOK, Existing, server, Version
  <2>6. \A q \in Panels : loaded[q] <= loaded'[q]
    BY <2>1, <2>2, PanelAssumption DEF IInv, TypeOK, Versions
  <2>7. \A q \in Panels : Known(q, token'[q]) \/ token'[q] <= loaded'[q]
    BY <2>1, <2>2, PanelAssumption DEF IInv, TypeOK, TokenKnown, Versions
  <2>8. \A q \in Panels, b \in Buttons : post'[q][b] # None => Known(q, post'[q][b].version)
    BY <1>2, <2>1, <2>2 DEF IInv, PostKnown
  <2> QED
    BY <2>2, <2>4, <2>5, <2>6, <2>7, <2>8, QuietStep
<1>4. CASE LoadFailed(p, c)
  <2>1. lists[p].profiles \in Versions /\ lists[p].profiles <= Version
    BY Held DEF IInv, Existing
  <2>2. /\ loads' = [loads EXCEPT ![p][c] = Idle]
        /\ Resume(p, c, lists[p].profiles)
        /\ UNCHANGED <<server, token, lists, loaded>>
    BY <1>4 DEF LoadFailed
  <2>3. TypeOK'
    BY <1>2, <2>1, <2>2 DEF IInv, TypeOK, server
  <2>4. Existing'
    BY <1>2, <2>1, <2>2 DEF IInv, TypeOK, Existing, server, Version
  <2>5. \A q \in Panels, b \in Buttons : post'[q][b] # None => Known(q, post'[q][b].version)
    BY <1>2, <2>1, <2>2 DEF IInv, PostKnown
  <2> QED
    BY <2>2, <2>3, <2>4, <2>5, Held, QuietStep DEF IInv, TokenKnown, Versions
<1> QED
  BY <1>1, <1>3, <1>4 DEF LoadStep

\* A click on a save button keeps the invariant: the base is the token.
LEMMA SaveKeeps ==
    ASSUME IInv, NEW p \in Panels, NEW b \in Buttons, Save(p, b)
    PROVE  IInv'
<1> DEFINE q == [stage |-> "sent", of |-> work[p][b].of,
                 covers |-> work[p][b].covers, version |-> token[p]]
<1>1. /\ work[p][b] # None
      /\ post' = [post EXCEPT ![p][b] = q]
      /\ work' = [work EXCEPT ![p][b].posted = TRUE]
      /\ UNCHANGED <<server, token, lists, loads, loaded>>
  BY DEF Save
<1>2. work[p][b] \in Work /\ work[p][b].of <= Version
  BY <1>1, Held DEF IInv, Existing
<1>3. q \in Post /\ q.of <= Version /\ q.version = token[p] /\ token[p] <= Version
  BY <1>2, Held DEF Work, Post, IInv, Existing
<1> HIDE DEF q
<1>4. work' \in [Panels -> [Buttons -> Work \cup {None}]]
      /\ \A r \in Panels, d \in Buttons : work'[r][d] # None => work'[r][d].of <= Version
  <2>1. work' = [work EXCEPT ![p] = [work[p] EXCEPT ![b] = [work[p][b] EXCEPT !.posted = TRUE]]]
    BY <1>1
  <2>2. [work[p][b] EXCEPT !.posted = TRUE] \in Work
        /\ [work[p][b] EXCEPT !.posted = TRUE].of <= Version
    BY <1>2 DEF Work
  <2> QED
    BY <2>1, <2>2 DEF IInv, TypeOK, Existing
<1>5. TypeOK'
  BY <1>1, <1>3, <1>4 DEF IInv, TypeOK, server
<1>6. Existing'
  BY <1>1, <1>3, <1>4 DEF IInv, TypeOK, Existing, server, Version
<1>7. \A r \in Panels, d \in Buttons : post'[r][d] # None => Known(r, post'[r][d].version)
  BY <1>1, <1>3 DEF IInv, TypeOK, TokenKnown, PostKnown
<1> QED
  BY <1>1, <1>5, <1>6, <1>7, Held, QuietStep DEF IInv, TokenKnown, Versions

-----------------------------------------------------------------------------
(* Steps of a posted write.                                                *)

\* A post that only changes its stage, or goes, keeps what holds of posts.
LEMMA StageKeeps ==
    ASSUME IInv, NEW p \in Panels, NEW b \in Buttons, post[p][b] # None, UNCHANGED line,
           NEW s \in {"refused", "loading"},
           \/ post' = [post EXCEPT ![p][b].stage = s]
           \/ post' = [post EXCEPT ![p][b] = None]
    PROVE  /\ post' \in [Panels -> [Buttons -> Post \cup {None}]]
           /\ \A r \in Panels, d \in Buttons : post'[r][d] # None =>
                 /\ post[r][d] # None
                 /\ post'[r][d].of = post[r][d].of
                 /\ post'[r][d].version = post[r][d].version
<1>1. post[p][b] \in Post
  BY Held
<1>2. CASE post' = [post EXCEPT ![p][b].stage = s]
  <2>1. post' = [post EXCEPT ![p] = [post[p] EXCEPT ![b] = [post[p][b] EXCEPT !.stage = s]]]
    BY <1>2
  <2>2. /\ [post[p][b] EXCEPT !.stage = s] \in Post
        /\ [post[p][b] EXCEPT !.stage = s].of = post[p][b].of
        /\ [post[p][b] EXCEPT !.stage = s].version = post[p][b].version
    BY <1>1 DEF Post
  <2> QED
    BY <2>1, <2>2 DEF IInv, TypeOK
<1>3. CASE post' = [post EXCEPT ![p][b] = None]
  BY <1>3 DEF IInv, TypeOK
<1> QED
  BY <1>2, <1>3

\* A refusal or a failure keeps the invariant.
LEMMA FailureKeeps ==
    ASSUME IInv, NEW p \in Panels, NEW b \in Buttons,
           ServerRefuses(p, b) \/ SaveFailed(p, b)
    PROVE  IInv'
<1>1. /\ post[p][b] # None
      /\ \/ post' = [post EXCEPT ![p][b].stage = "refused"]
         \/ post' = [post EXCEPT ![p][b] = None]
      /\ UNCHANGED <<server, token, lists, work, loads, loaded>>
  BY DEF ServerRefuses, SaveFailed
<1>2. /\ post' \in [Panels -> [Buttons -> Post \cup {None}]]
      /\ \A r \in Panels, d \in Buttons : post'[r][d] # None =>
            /\ post[r][d] # None
            /\ post'[r][d].of = post[r][d].of
            /\ post'[r][d].version = post[r][d].version
  BY <1>1, StageKeeps DEF server
<1>3. TypeOK'
  BY <1>1, <1>2 DEF IInv, TypeOK, server
<1>4. Existing'
  BY <1>1, <1>2 DEF IInv, Existing, server, Version
<1>5. \A r \in Panels, d \in Buttons : post'[r][d] # None => Known(r, post'[r][d].version)
  BY <1>2 DEF IInv, PostKnown
<1> QED
  BY <1>1, <1>3, <1>4, <1>5, Held, QuietStep DEF IInv, TokenKnown, Versions

\* The answer to an accepted write keeps the invariant: the token moves to a
\* version all of which is known.
LEMMA AnswerKeeps ==
    ASSUME IInv, NEW p \in Panels, Answered(p)
    PROVE  IInv'
<1>1. Sent \in Load /\ Sent.version <= Version
  BY Held, PanelAssumption DEF Sent, Load, Versions
<1>2. ASSUME NEW b \in Buttons, post[p][b] # None, UNCHANGED server, UNCHANGED <<work, loaded>>,
             \/ post' = [post EXCEPT ![p][b].stage = "loading"]
             \/ post' = [post EXCEPT ![p][b] = None],
             \/ loads' = loads
             \/ \E c \in Callers : loads' = [loads EXCEPT ![p][c] = Sent],
             \/ token' = token
             \/ token' = [token EXCEPT ![p] = post[p][b].version],
             \/ lists' = lists
             \/ lists' = [lists EXCEPT ![p].settings = post[p][b].version]
      PROVE  IInv'
  <2>1. post[p][b].version \in Versions /\ post[p][b].version <= Version
        /\ Known(p, post[p][b].version)
    BY <1>2, Held DEF Post, IInv, Existing, PostKnown
  <2>2. /\ post' \in [Panels -> [Buttons -> Post \cup {None}]]
        /\ \A r \in Panels, d \in Buttons : post'[r][d] # None =>
              /\ post[r][d] # None
              /\ post'[r][d].of = post[r][d].of
              /\ post'[r][d].version = post[r][d].version
    BY <1>2, StageKeeps DEF server
  <2>3. /\ loads' \in [Panels -> [Callers -> Load]]
        /\ \A r \in Panels, c \in Callers : loads'[r][c].version <= Version
    <3>1. CASE loads' = loads
      BY <3>1 DEF IInv, TypeOK, Existing
    <3>2. ASSUME NEW c \in Callers, loads' = [loads EXCEPT ![p][c] = Sent]
          PROVE  /\ loads' \in [Panels -> [Callers -> Load]]
                 /\ \A r \in Panels, d \in Callers : loads'[r][d].version <= Version
      BY <1>1, <3>2 DEF IInv, TypeOK, Existing
    <3> QED
      BY <1>2, <3>1, <3>2
  <2>4. /\ token' \in [Panels -> Versions]
        /\ \A r \in Panels : token'[r] <= Version /\ Known(r, token'[r])
    <3>1. CASE token' = token
      BY <3>1 DEF IInv, TypeOK, Existing, TokenKnown
    <3>2. CASE token' = [token EXCEPT ![p] = post[p][b].version]
      <4>1. ASSUME NEW r \in Panels
            PROVE  token'[r] = IF r = p THEN post[p][b].version ELSE token[r]
        BY <3>2 DEF IInv, TypeOK
      <4> QED
        BY <2>1, <3>2, <4>1 DEF IInv, TypeOK, Existing, TokenKnown
    <3> QED
      BY <1>2, <3>1, <3>2
  <2>5. /\ lists' \in [Panels -> [profiles : Versions, settings : Versions]]
        /\ \A r \in Panels : lists'[r].profiles <= Version /\ lists'[r].settings <= Version
    <3>1. CASE lists' = lists
      BY <3>1 DEF IInv, TypeOK, Existing
    <3>2. CASE lists' = [lists EXCEPT ![p].settings = post[p][b].version]
      BY <2>1, <3>2 DEF IInv, TypeOK, Existing
    <3> QED
      BY <1>2, <3>1, <3>2
  <2>6. TypeOK'
    BY <1>2, <2>2, <2>3, <2>4, <2>5 DEF IInv, TypeOK, server
  <2>7. Existing'
    <3>1. Version' = Version /\ work' = work
      BY <1>2 DEF server, Version
    <3> QED
      BY <3>1, <2>2, <2>3, <2>4, <2>5 DEF IInv, Existing
  <2>8. \A r \in Panels, d \in Buttons : post'[r][d] # None => Known(r, post'[r][d].version)
    BY <2>2 DEF IInv, PostKnown
  <2> QED
    BY <1>2, <2>4, <2>6, <2>7, <2>8, Held, QuietStep DEF Versions
<1>3. CASE Published(p)
  BY <1>2, <1>3 DEF Published, NewToken, Buttons, Callers
<1>4. CASE OrderSaved(p)
  BY <1>2, <1>4 DEF OrderSaved, Buttons, Callers
<1>5. CASE SettingsSaved(p)
  BY <1>2, <1>5 DEF SettingsSaved, NewToken, Buttons
<1> QED
  BY <1>3, <1>4, <1>5 DEF Answered

-----------------------------------------------------------------------------
(* The write itself.                                                       *)

\* The entry an accepted write appends is typed, and no stamp of it is newer than it.
LEMMA EntryWritten ==
    ASSUME IInv, NEW p \in Panels, NEW b \in Buttons, post[p][b] # None, Version < MaxVersion,
           NEW e, e = [a \in Parts |-> IF a \notin post[p][b].covers THEN line[Version][a]
                                       ELSE IF b = "order" THEN Stamp(post[p][b].of, a)
                                       ELSE Version + 1]
    PROVE  e \in [Parts -> Versions] /\ \A a \in Parts : e[a] <= Version + 1
<1> USE PanelAssumption
<1>1. Version \in Nat \ {0} /\ Version = Len(line) /\ Version + 1 \in Versions
  BY Held DEF Version, Versions
<1>2. \A v \in 1..Version, a \in Parts : line[v][a] \in Versions /\ line[v][a] <= v
  <2>1. \A v \in 1..Version : line[v] \in [Parts -> Versions]
    BY <1>1, ElementOfSeq DEF IInv, TypeOK
  <2> QED
    BY <2>1 DEF IInv, Stamped
<1>3. post[p][b].of \in Versions /\ post[p][b].of <= Version
  BY Held DEF Post, IInv, Existing
<1>4. \A a \in Parts : Stamp(post[p][b].of, a) \in Versions /\ Stamp(post[p][b].of, a) <= Version
  BY <1>1, <1>2, <1>3 DEF Stamp, Versions
<1>5. \A a \in Parts : e[a] \in Versions /\ e[a] <= Version + 1
  BY <1>1, <1>2, <1>4 DEF Versions
<1> QED
  BY <1>5

\* An accepted write keeps the invariant: all its base was known, and the version
\* it makes is the panel's own.
LEMMA WriteKeeps ==
    ASSUME IInv, NEW p \in Panels, NEW b \in Buttons, ServerWrites(p, b)
    PROVE  IInv'
<1> USE PanelAssumption
<1> DEFINE q == post[p][b]
           e == [a \in Parts |-> IF a \notin q.covers THEN line[Version][a]
                                 ELSE IF b = "order" THEN Stamp(q.of, a)
                                 ELSE Version + 1]
<1>1. /\ q # None /\ q.version = Version /\ Version < MaxVersion
      /\ line' = Append(line, e)
      /\ author' = Append(author, p)
      /\ post' = [post EXCEPT ![p][b].stage = "written", ![p][b].version = Version + 1]
      /\ work' = IF work[p][b] # None /\ work[p][b].posted
                 THEN [work EXCEPT ![p][b].of = Version + 1] ELSE work
      /\ UNCHANGED <<token, lists, loads, loaded>>
  BY DEF ServerWrites, BaseIsCurrent
<1>2. e \in [Parts -> Versions] /\ \A a \in Parts : e[a] <= Version + 1
  BY <1>1, EntryWritten
<1>3. Version \in Nat \ {0} /\ Version = Len(line) /\ Version + 1 \in Versions
  BY <1>1, Held DEF Version, Versions
<1> HIDE DEF e
<1>4. /\ line' \in Seq([Parts -> Versions]) /\ Version' = Version + 1 /\ Len(line') = Version + 1
      /\ \A v \in 1..Version : line'[v] = line[v]
      /\ line'[Version + 1] = e
  BY <1>1, <1>2, <1>3, AppendProperties DEF IInv, TypeOK, Version
<1>5. /\ author' \in Seq(Panels \cup {None}) /\ Len(author') = Version + 1
      /\ \A v \in 1..Version : author'[v] = author[v]
      /\ author'[Version + 1] = p
  BY <1>1, <1>3, AppendProperties DEF IInv, TypeOK
<1>6. /\ post' \in [Panels -> [Buttons -> Post \cup {None}]]
      /\ post'[p][b].of = q.of /\ post'[p][b].version = Version + 1 /\ q.of <= Version
      /\ \A r \in Panels, d \in Buttons : (r # p \/ d # b) => post'[r][d] = post[r][d]
  <2>1. q \in Post /\ q.of <= Version
    BY <1>1, Held DEF IInv, Existing
  <2> DEFINE w == [q EXCEPT !.stage = "written", !.version = Version + 1]
  <2>2. w \in Post /\ w.of = q.of /\ w.version = Version + 1
    BY <2>1, <1>3 DEF Post
  <2>3. post' = [post EXCEPT ![p] = [post[p] EXCEPT ![b] = w]]
    BY <1>1 DEF IInv, TypeOK
  <2> HIDE DEF w, q
  <2>4. post'[p][b] = w
    BY <2>3 DEF IInv, TypeOK
  <2> QED
    BY <2>1, <2>2, <2>3, <2>4 DEF IInv, TypeOK
<1>7. /\ work' \in [Panels -> [Buttons -> Work \cup {None}]]
      /\ \A r \in Panels, d \in Buttons : work'[r][d] # None => work'[r][d].of <= Version + 1
  <2>1. CASE work' = work
    <3>1. ASSUME NEW r \in Panels, NEW d \in Buttons, work[r][d] # None
          PROVE  work[r][d].of <= Version + 1
      <4>1. work[r][d] \in Work /\ work[r][d].of <= Version
        BY <3>1, Held DEF IInv, Existing
      <4> QED
        BY <4>1, <1>3 DEF Work, Versions
    <3> QED
      BY <2>1, <3>1 DEF IInv, TypeOK
  <2>2. CASE work[p][b] # None /\ work' = [work EXCEPT ![p][b].of = Version + 1]
    <3> DEFINE w == [work[p][b] EXCEPT !.of = Version + 1]
    <3>1. w \in Work /\ w.of = Version + 1
      BY <2>2, <1>3, Held DEF Work
    <3>2. work' = [work EXCEPT ![p] = [work[p] EXCEPT ![b] = w]]
      BY <2>2
    <3> HIDE DEF w
    <3>3. work' \in [Panels -> [Buttons -> Work \cup {None}]]
      BY <3>1, <3>2 DEF IInv, TypeOK
    <3>4. ASSUME NEW r \in Panels, NEW d \in Buttons, work'[r][d] # None
          PROVE  work'[r][d].of <= Version + 1
      <4>1. CASE r = p /\ d = b
        BY <4>1, <3>1, <3>2, <1>3 DEF IInv, TypeOK
      <4>2. CASE ~(r = p /\ d = b)
        <5>1. work'[r][d] = work[r][d]
          BY <4>2, <3>2 DEF IInv, TypeOK
        <5>2. work[r][d] \in Work /\ work[r][d].of <= Version
          BY <5>1, <3>4, Held DEF IInv, Existing
        <5> QED
          BY <5>1, <5>2, <1>3 DEF Work, Versions
      <4> QED
        BY <4>1, <4>2
    <3> QED
      BY <3>3, <3>4
  <2> QED
    BY <1>1, <2>1, <2>2
<1>8. TypeOK'
  <2>1. Len(line') \in 1..MaxVersion /\ Len(author') = Len(line')
    BY <1>1, <1>3, <1>4, <1>5
  <2>2. UNCHANGED <<token, lists, loads, loaded>>
    BY <1>1
  <2> QED
    BY <2>1, <2>2, <1>4, <1>5, <1>6, <1>7 DEF IInv, TypeOK
<1>9. Existing'
  <2>1. \A r \in Panels : token'[r] <= Version' /\ lists'[r].profiles <= Version'
                          /\ lists'[r].settings <= Version'
    BY <1>1, <1>3, <1>4, Held DEF IInv, Existing, Versions
  <2>2. \A r \in Panels, c \in Callers : loads'[r][c].version <= Version'
    BY <1>1, <1>3, <1>4, Held DEF IInv, Existing, Versions, Load
  <2>3. ASSUME NEW r \in Panels, NEW d \in Buttons, post'[r][d] # None
        PROVE  post'[r][d].of <= Version' /\ post'[r][d].version <= Version'
    <3>1. CASE r = p /\ d = b
      <4>1. post'[p][b] \in Post
        BY <1>8, <2>3, <3>1 DEF TypeOK
      <4> QED
        BY <3>1, <4>1, <1>3, <1>4, <1>6 DEF Post, Versions
    <3>2. CASE ~(r = p /\ d = b)
      <4>1. post[r][d] \in Post /\ post'[r][d] = post[r][d]
            /\ post[r][d].of <= Version /\ post[r][d].version <= Version
        BY <2>3, <3>2, <1>6, Held DEF IInv, Existing
      <4> QED
        BY <4>1, <1>3, <1>4 DEF Post, Versions
    <3> QED
      BY <3>1, <3>2
  <2> QED
    BY <1>4, <1>7, <2>1, <2>2, <2>3 DEF Existing
<1>10. Stamped'
  <2> SUFFICES ASSUME NEW v \in 1..Version + 1, NEW a \in Parts PROVE line'[v][a] <= v
    BY <1>4 DEF Stamped
  <2>1. CASE v = Version + 1
    BY <2>1, <1>2, <1>4
  <2>2. CASE v # Version + 1
    BY <2>2, <1>3, <1>4 DEF IInv, Stamped
  <2> QED
    BY <2>1, <2>2
<1>11. ASSUME NEW r \in Panels, NEW v \in Versions, Known(r, v), v <= Version
       PROVE  Known(r, v)'
  <2>1. loaded' = loaded /\ loaded[r] \in Nat
    BY <1>1, Held DEF Versions
  <2>2. \A w \in 1..Version : author'[w] = author[w]
    BY <1>5
  <2> QED
    BY <2>1, <2>2, <1>11, KnownStays
<1>12. TokenKnown'
  BY <1>1, <1>11, Held DEF IInv, TokenKnown, Existing
<1>13. ASSUME NEW w \in 1..Version + 1
       PROVE  w <= loaded'[p] \/ author'[w] = p
  <2>1. CASE w = Version + 1
    BY <2>1, <1>5
  <2>2. CASE w # Version + 1
    <3>1. w \in 1..Version
      BY <2>2, <1>3
    <3>2. w <= loaded[p] \/ author[w] = p
      BY <3>1, <1>1 DEF IInv, PostKnown, Known
    <3> QED
      BY <3>1, <3>2, <1>1, <1>5
  <2> QED
    BY <2>1, <2>2
<1>14. PostKnown'
  <2> SUFFICES ASSUME NEW r \in Panels, NEW d \in Buttons, post'[r][d] # None
               PROVE  Known(r, post[r][d].version)'
    BY DEF PostKnown
  <2>1. CASE r = p /\ d = b
    BY <2>1, <1>6, <1>13 DEF Known
  <2>2. CASE ~(r = p /\ d = b)
    <3>1. post[r][d] \in Post /\ post'[r][d] = post[r][d]
      BY <2>2, <1>6, Held
    <3>2. post[r][d].version \in Versions /\ post[r][d].version <= Version
          /\ Known(r, post[r][d].version)
      BY <3>1 DEF Post, IInv, Existing, PostKnown
    <3>3. \A v \in Versions : Known(r, v) /\ v <= Version => Known(r, v)'
      BY <1>11
    <3> QED
      BY <3>1, <3>2, <3>3 DEF Known
  <2> QED
    BY <2>1, <2>2
<1> QED
  BY <1>8, <1>9, <1>10, <1>12, <1>14 DEF IInv

-----------------------------------------------------------------------------
(* Theorems.                                                               *)

\* Every step keeps the invariant.
LEMMA StepInv == IInv /\ [Next]_vars => IInv'
<1> SUFFICES ASSUME IInv, [Next]_vars PROVE IInv'
  OBVIOUS
<1>1. ASSUME NEW p \in Panels, Click(p) PROVE IInv'
  <2>1. \A b \in Uses[p] : b \in Buttons
    BY PanelAssumption DEF Buttons
  <2> QED
    BY <1>1, <2>1, ViewStep, SaveKeeps DEF Click
<1>2. ASSUME NEW p \in Panels, NEW c \in Callers, LoadStep(p, c) PROVE IInv'
  BY <1>2, LoadKeeps
<1>3. ASSUME NEW p \in Panels, NEW b \in Buttons, SaveStep(p, b) PROVE IInv'
  BY <1>3, WriteKeeps, FailureKeeps DEF SaveStep
<1>4. ASSUME NEW p \in Panels, Answered(p) PROVE IInv'
  BY <1>4, AnswerKeeps
<1>5. CASE UNCHANGED vars
  BY <1>5 DEF vars, server, IInv, TypeOK, Existing, Stamped, TokenKnown, PostKnown, Known, Version
<1> QED
  BY <1>1, <1>2, <1>3, <1>4, <1>5 DEF Next

\* The invariant holds in every reachable state.
THEOREM PanelInvariance == Spec => []IInv
<1> QED
  BY InitInv, StepInv, PTL DEF Spec

\* Every reachable state of the panels is well typed.
THEOREM PanelTypes == Spec => []TypeOK
<1>1. IInv => TypeOK
  BY DEF IInv
<1> QED
  BY <1>1, PanelInvariance, PTL

\* A post is only accepted on the version it was based on.
LEMMA TakenOnBase ==
    ASSUME IInv, [Next]_vars, NEW p \in Panels, NEW b \in Buttons, Takes(p, b)
    PROVE  post[p][b] # None /\ post[p][b].version = Version
<1>1. /\ post[p][b] # None /\ post[p][b].stage = "sent" /\ post[p][b] \in Post
      /\ post'[p][b] # None /\ post'[p][b].stage = "written"
  BY Held DEF Takes
<1>2. ASSUME NEW r \in Panels, Click(r) \/ Answered(r) \/ \E c \in Callers : LoadStep(r, c)
      PROVE  FALSE
  <2>1. CASE post' = post
    BY <1>1, <2>1
  <2>2. ASSUME NEW d \in Buttons, post' = [post EXCEPT ![r][d] = None] PROVE FALSE
    BY <1>1, <2>2 DEF IInv, TypeOK
  <2>3. ASSUME NEW d \in Buttons, post' = [post EXCEPT ![r][d].stage = "loading"],
               post[r][d].stage = "written"
        PROVE  FALSE
    BY <1>1, <2>3 DEF IInv, TypeOK
  <2>4. ASSUME NEW d \in Buttons, Save(r, d) PROVE FALSE
    BY <1>1, <2>4 DEF Save, IInv, TypeOK
  <2>5. CASE Click(r)
    <3>1. CASE \E d \in Uses[r] : Save(r, d)
      BY <2>4, <3>1, PanelAssumption DEF Buttons
    <3>2. CASE ~\E d \in Uses[r] : Save(r, d)
      BY <2>1, <2>5, <3>2 DEF Click, Reload, OpenDraft, OpenDialog, CloseDialog
    <3> QED
      BY <3>1, <3>2
  <2>6. CASE Answered(r)
    BY <2>2, <2>3, <2>6 DEF Answered, Published, OrderSaved, SettingsSaved, Buttons
  <2>7. CASE \E c \in Callers : LoadStep(r, c)
    BY <2>1, <2>2, <2>7 DEF LoadStep, ServerReads, Loaded, LoadFailed, Resume, Buttons, Callers
  <2> QED
    BY <1>2, <2>5, <2>6, <2>7
<1>3. ASSUME NEW r \in Panels, NEW d \in Buttons, SaveStep(r, d), r # p \/ d # b
      PROVE  FALSE
  <2>1. post'[p][b] = post[p][b]
    BY <1>3 DEF SaveStep, ServerWrites, ServerRefuses, SaveFailed, IInv, TypeOK
  <2> QED
    BY <1>1, <2>1
<1>4. CASE SaveStep(p, b)
  <2>1. ~ServerRefuses(p, b) /\ ~SaveFailed(p, b)
    BY <1>1 DEF ServerRefuses, SaveFailed, IInv, TypeOK, Post
  <2> QED
    BY <1>1, <1>4, <2>1 DEF SaveStep, ServerWrites, BaseIsCurrent
<1>5. CASE UNCHANGED vars
  BY <1>1, <1>5 DEF vars
<1> QED
  BY <1>2, <1>3, <1>4, <1>5 DEF Next

\* Whatever an accepted write replaces, its panel had downloaded or written itself:
\* the base of an accepted write is the current version, a panel only holds bases it
\* knows all of, and no content is newer than the version it is in.
THEOREM SeenBeforeOverwritten == Spec => NothingUnseenOverwritten
<1> DEFINE Seen == \A p \in Panels, b \in Buttons : Takes(p, b) =>
                     \A a \in Overwritten(p, b) :
                        line[Version][a] <= loaded[p] \/ author[line[Version][a]] = p
<1>1. ASSUME IInv, [Next]_vars PROVE Seen
  <2> SUFFICES ASSUME NEW p \in Panels, NEW b \in Buttons, Takes(p, b),
                      NEW a \in Overwritten(p, b)
               PROVE  line[Version][a] <= loaded[p] \/ author[line[Version][a]] = p
    BY Zenon
  <2>1. post[p][b] # None /\ post[p][b].version = Version
    BY <1>1, TakenOnBase
  <2>2. Version \in Nat \ {0} /\ a \in Parts
    <3>1. post[p][b] \in Post
      BY <1>1, <2>1, Held
    <3> QED
      BY <1>1, <3>1, Held DEF Overwritten, Post
  <2>3. line[Version][a] \in Nat /\ line[Version][a] <= Version
    <3>1. line[Version] \in [Parts -> Versions]
      BY <1>1, <2>2, ElementOfSeq DEF IInv, TypeOK, Version
    <3> QED
      BY <1>1, <2>2, <3>1, PanelAssumption DEF IInv, Stamped, Versions
  <2>4. loaded[p] \in Nat
    BY <1>1, Held, PanelAssumption DEF Versions
  <2>5. \A w \in 1..Version : w <= loaded[p] \/ author[w] = p
    BY <1>1, <2>1 DEF IInv, PostKnown, Known
  <2>6. CASE line[Version][a] = 0
    BY <2>4, <2>6
  <2>7. CASE line[Version][a] # 0
    BY <2>2, <2>3, <2>5, <2>7
  <2> QED
    BY <2>6, <2>7
<1>2. IInv /\ [Next]_vars => [Seen]_vars
  BY <1>1
<1> QED
  BY <1>2, PanelInvariance, PTL DEF Spec, NothingUnseenOverwritten

=============================================================================
