----------------------- MODULE WebhookIdentityProofs -----------------------
(***************************************************************************)
(* Proofs about the sync of webhook identities, for any routes, channels   *)
(* and numbers of renames and mishaps.                                     *)
(***************************************************************************)
EXTENDS WebhookIdentity, WellFoundedInduction, TLAPS

(* A look that an identity may be the hash of. *)
Matches(look, i) ==
    /\ look.title = i.title
    /\ i.photo # NoPhoto => look.photo = i.photo

(* What the proofs need to know of the types. *)
IdentityTypes ==
    /\ shown \in [HookNames -> [title : Titles \cup {NoIdentity}, photo : Photos \cup {NoPhoto}]]
    /\ hash \in [HookNames -> Identities \cup {NoIdentity}]
    /\ channel \in [Channels -> Identities]
    /\ found \in [Channels -> Identities \cup {NoIdentity}]
    /\ hop \in Nat
    /\ half => hop \in DOMAIN Hops /\ Wanted # NoIdentity

(* An element of a sequence over a set is in the set.                      *)
LEMMA ElementsAreOf ==
    ASSUME NEW S, NEW s \in Seq(S), NEW i \in 1..Len(s)
    PROVE  s[i] \in S
  OBVIOUS

(* Every pair of the file names a webhook and a channel. *)
LEMMA HopsAreKnown ==
    ASSUME NEW i \in DOMAIN Hops
    PROVE  Hops[i].hook \in HookNames /\ Hops[i].chat \in Channels /\ i \in Nat
<1>1. Hops \in Seq([chat : Channels, hook : STRING]) /\ DOMAIN Hops = 1..Len(Hops) /\ Len(Hops) \in Nat
  BY IdentityAssumption
<1>2. Hops[i] \in [chat : Channels, hook : STRING]
  BY <1>1, ElementsAreOf
<1>3. QED BY <1>1, <1>2 DEF HookNames

(* A PATCH makes the webhook look like the identity that is wanted. *)
LEMMA DressedMatches ==
    ASSUME IdentityTypes, NEW h \in HookNames, Wanted \in Identities
    PROVE  /\ Dressed(h) \in [HookNames -> [title : Titles \cup {NoIdentity}, photo : Photos \cup {NoPhoto}]]
           /\ Matches(Dressed(h)[h], Wanted)
           /\ \A g \in HookNames \ {h} : Dressed(h)[g] = shown[g]
  BY DEF Dressed, Matches, IdentityTypes, Identities

(* Where there is something to sync, it is an identity, for a webhook.     *)
LEMMA AtHopFacts ==
    ASSUME IdentityTypes, hop \in DOMAIN Hops, Wanted # NoIdentity
    PROVE  Hook \in HookNames /\ Wanted \in Identities
  BY HopsAreKnown DEF IdentityTypes, Hook, Wanted

(* Every step of a sync keeps the types.                                   *)
LEMMA TypesStay ==
    ASSUME IdentityTypes, [IdentityNext]_identityVars
    PROVE  IdentityTypes'
<1>1. ASSUME NEW c \in Channels, NEW i \in Identities, Rename(c, i)
      PROVE  IdentityTypes'
  BY <1>1 DEF Rename, IdentityTypes, Wanted
<1>2. CASE Begin
  <2>1. hop = 0 /\ half' = half /\ hop' = 1 /\ UNCHANGED <<shown, hash, channel, found>>
    BY <1>2 DEF Begin
  <2>2. ~half
    BY <2>1, IdentityAssumption DEF IdentityTypes
  <2>3. QED BY <2>1, <2>2 DEF IdentityTypes
<1>l. ASSUME NEW c \in Channels, Lookup(c)
      PROVE  IdentityTypes'
  <2>1. hop = 0 /\ UNCHANGED <<shown, hash, channel, half, hop>>
    BY <1>l DEF Lookup
  <2>2. ~half
    BY <2>1, IdentityAssumption DEF IdentityTypes
  <2>3. channel[c] \in Identities /\ [channel[c] EXCEPT !.photo = NoPhoto] \in Identities
    BY DEF IdentityTypes, Identities
  <2>4. found' \in [Channels -> Identities \cup {NoIdentity}]
    BY <1>l, <2>3 DEF Lookup, IdentityTypes
  <2>5. QED BY <2>1, <2>2, <2>4 DEF IdentityTypes
<1>3. CASE PassBy \/ UpToDate
  BY <1>3, HopsAreKnown DEF PassBy, UpToDate, MaySync, AtHop, IdentityTypes
<1>4. CASE PatchWebhook
  <2>1. /\ hop \in DOMAIN Hops /\ Wanted # NoIdentity
        /\ shown' = Dressed(Hook) /\ half' = TRUE
        /\ UNCHANGED <<channel, hash, found, hop>>
    BY <1>4 DEF PatchWebhook, MaySync, AtHop
  <2>2. shown' \in [HookNames -> [title : Titles \cup {NoIdentity}, photo : Photos \cup {NoPhoto}]]
    BY <2>1, AtHopFacts, DressedMatches
  <2>3. QED BY <2>1, <2>2 DEF IdentityTypes, Wanted
<1>5. ASSUME NEW e \in BOOLEAN, WebhookDropped(e)
      PROVE  IdentityTypes'
  <2>1. /\ hop \in DOMAIN Hops /\ Wanted # NoIdentity /\ ~half
        /\ shown' = Dressed(Hook) \/ shown' = shown
        /\ hop' = hop + 1 /\ UNCHANGED <<channel, hash, found, half>>
    BY <1>5 DEF WebhookDropped, MaySync, AtHop
  <2>2. shown' \in [HookNames -> [title : Titles \cup {NoIdentity}, photo : Photos \cup {NoPhoto}]]
    BY <2>1, AtHopFacts, DressedMatches DEF IdentityTypes
  <2>3. QED BY <2>1, <2>2 DEF IdentityTypes
<1>6. CASE RecordHash
  <2>1. /\ half /\ half' = FALSE /\ hop' = hop + 1
        /\ hash' = [hash EXCEPT ![Hook] = Wanted]
        /\ UNCHANGED <<channel, shown, found>>
    BY <1>6 DEF RecordHash
  <2>2. Hook \in HookNames /\ Wanted \in Identities
    BY <2>1, AtHopFacts DEF IdentityTypes
  <2>3. QED BY <2>1, <2>2 DEF IdentityTypes
<1>7. CASE RecordHashFails \/ Leave
  <2>1. ~half' /\ UNCHANGED <<channel, shown, hash, found>>
    BY <1>7 DEF RecordHashFails, Leave
  <2>2. hop' \in Nat
    BY <1>7 DEF RecordHashFails, Leave, IdentityTypes
  <2>3. QED BY <2>1, <2>2 DEF IdentityTypes
<1>8. CASE UNCHANGED identityVars
  BY <1>8 DEF identityVars, IdentityTypes, Wanted
<1>9. QED BY <1>1, <1>2, <1>3, <1>4, <1>5, <1>6, <1>7, <1>8, <1>l DEF IdentityNext

(* They hold at first.                                                     *)
LEMMA TypesStart == IdentityInit => IdentityTypes
<1> SUFFICES ASSUME IdentityInit PROVE IdentityTypes
  OBVIOUS
<1>1. channel \in [Channels -> Identities]
  BY DEF IdentityInit, Identities
<1>2. found \in [Channels -> Identities \cup {NoIdentity}] /\ hash \in [HookNames -> Identities \cup {NoIdentity}]
  BY DEF IdentityInit
<1>3. shown \in [HookNames -> [title : Titles \cup {NoIdentity}, photo : Photos \cup {NoPhoto}]]
  BY DEF IdentityInit
<1>4. hop \in Nat /\ ~half
  BY DEF IdentityInit
<1>5. QED BY <1>1, <1>2, <1>3, <1>4 DEF IdentityTypes

(* Between a PATCH and its record the webhook shows what is to be recorded *)
(* and is excused.                                                         *)
HalfIsTorn == half => Hook \in torn /\ Matches(shown[Hook], Wanted)

(* HashTellsShown, with the comparison named.                              *)
HashTells ==
    \A h \in HookNames \ torn : hash[h] # NoIdentity => Matches(shown[h], hash[h])

(* The inductive invariant of the hashes.                                  *)
LEMMA HashInvariant == IdentitySpec => [](IdentityTypes /\ HalfIsTorn /\ HashTells)
<1> DEFINE Inv == IdentityTypes /\ HalfIsTorn /\ HashTells
<1>1. IdentityInit => Inv
  BY TypesStart DEF IdentityInit, HalfIsTorn, HashTells
<1>2. Inv /\ [IdentityNext]_identityVars => Inv'
  <2> SUFFICES ASSUME Inv, [IdentityNext]_identityVars
               PROVE  HalfIsTorn' /\ HashTells'
    BY TypesStay
  <2>1. ASSUME UNCHANGED <<shown, hash, torn>>, ~half'
        PROVE  HalfIsTorn' /\ HashTells'
    BY <2>1 DEF HalfIsTorn, HashTells
  <2>2. ASSUME NEW c \in Channels, NEW i \in Identities, Rename(c, i)
        PROVE  HalfIsTorn' /\ HashTells'
    BY <2>2 DEF Rename, HalfIsTorn, HashTells, Hook, Wanted
  <2>3. CASE Begin \/ Leave \/ RecordHashFails
    <3>1. ~half'
      BY <2>3, IdentityAssumption DEF Begin, Leave, RecordHashFails, IdentityTypes
    <3>2. QED BY <2>1, <2>3, <3>1 DEF Begin, Leave, RecordHashFails
  <2>l. ASSUME NEW c \in Channels, Lookup(c)
        PROVE  HalfIsTorn' /\ HashTells'
    <3>1. ~half'
      BY <2>l, IdentityAssumption DEF Lookup, IdentityTypes
    <3>2. QED BY <2>1, <2>l, <3>1 DEF Lookup
  <2>4. CASE PassBy \/ UpToDate
    BY <2>1, <2>4 DEF PassBy, UpToDate, MaySync, AtHop
  <2>5. CASE PatchWebhook
    <3>1. /\ hop \in DOMAIN Hops /\ Wanted # NoIdentity
          /\ shown' = Dressed(Hook) /\ torn' = torn \cup {Hook}
          /\ UNCHANGED <<hash, found, hop>>
      BY <2>5 DEF PatchWebhook, MaySync, AtHop
    <3>2. /\ Matches(shown'[Hook], Wanted)
          /\ \A g \in HookNames \ {Hook} : shown'[g] = shown[g]
      BY <3>1, AtHopFacts, DressedMatches
    <3>3. HalfIsTorn'
      BY <3>1, <3>2 DEF HalfIsTorn, Hook, Wanted
    <3>4. HashTells'
      BY <3>1, <3>2 DEF HashTells
    <3>5. QED BY <3>3, <3>4
  <2>6. ASSUME NEW e \in BOOLEAN, WebhookDropped(e)
        PROVE  HalfIsTorn' /\ HashTells'
    <3>1. /\ hop \in DOMAIN Hops /\ Wanted # NoIdentity /\ ~half'
          /\ hash' = hash
      BY <2>6 DEF WebhookDropped, MaySync, AtHop
    <3>2. CASE e
      <4>1. shown' = Dressed(Hook) /\ torn' = torn \cup {Hook}
        BY <2>6, <3>2 DEF WebhookDropped
      <4>2. \A g \in HookNames \ {Hook} : shown'[g] = shown[g]
        BY <3>1, <4>1, AtHopFacts, DressedMatches
      <4>3. QED BY <3>1, <4>1, <4>2 DEF HashTells, HalfIsTorn
    <3>3. CASE ~e
      BY <2>1, <2>6, <3>1, <3>3 DEF WebhookDropped
    <3>4. QED BY <3>2, <3>3
  <2>7. CASE RecordHash
    <3>1. /\ half /\ ~half' /\ shown' = shown
          /\ hash' = [hash EXCEPT ![Hook] = Wanted] /\ torn' = torn \ {Hook}
      BY <2>7 DEF RecordHash
    <3>2. Hook \in HookNames /\ Matches(shown[Hook], Wanted)
      BY <3>1, AtHopFacts DEF IdentityTypes, HalfIsTorn
    <3>3. QED BY <3>1, <3>2 DEF HashTells, HalfIsTorn, IdentityTypes
  <2>8. CASE UNCHANGED identityVars
    BY <2>8 DEF identityVars, HalfIsTorn, HashTells, Hook, Wanted
  <2>9. QED BY <2>2, <2>3, <2>4, <2>5, <2>6, <2>7, <2>8, <2>l DEF IdentityNext
<1>3. QED BY <1>1, <1>2, PTL DEF IdentitySpec

(* A hash in the store tells what the webhook shows, so that a start that  *)
(* skips the PATCH is right to (sync_webhook_identities).                  *)
THEOREM HashTellsShownAlways == IdentitySpec => []HashTellsShown
<1>1. HashTells => HashTellsShown
  BY DEF HashTells, HashTellsShown, Matches
<1>2. QED BY <1>1, HashInvariant, PTL

(* The pairs a sync has been through. *)
Resolved(i) == found[Hops[i].chat] # NoIdentity
Past(i) == i < hop \/ (i = hop /\ half)

(* What a sync that met no mishap has done so far: the webhooks claimed    *)
(* are those of the resolved pairs it has been through, and each has its   *)
(* first route's identity recorded, or is about to.                        *)
SyncedSoFar ==
    hop > 0 /\ mishaps = before =>
        /\ \A i \in DOMAIN Hops : Past(i) /\ Resolved(i) => Hops[i].hook \in claimed
        /\ \A h \in claimed : \E i \in DOMAIN Hops : Past(i) /\ Resolved(i) /\ Hops[i].hook = h
        /\ half => \A i \in DOMAIN Hops : i < hop /\ Hops[i].hook = Hook => ~Resolved(i)
        /\ \A i \in DOMAIN Hops : i < hop /\ IsFirst(i) =>
              hash[Hops[i].hook] = found[Hops[i].chat]

(* The mishaps before this start are among all of them.                    *)
MishapsCount == mishaps \in Nat /\ before \in Nat /\ before <= mishaps

(* Mishaps are only ever added; a step that adds one is told from one that *)
(* does not by the count at the start.                                     *)
LEMMA MishapsGrow ==
    ASSUME MishapsCount, [IdentityNext]_identityVars
    PROVE  /\ MishapsCount'
           /\ mishaps' = before' => mishaps = before \/ Begin \/ Leave
<1>1. CASE Begin
  BY <1>1 DEF Begin, Mishaps, MishapsCount
<1>l. ASSUME NEW c \in Channels, Lookup(c)
      PROVE  MishapsCount' /\ (mishaps' = before' => mishaps = before)
  BY <1>l DEF Lookup, Mishaps, MishapsCount
<1>2. CASE Leave
  BY <1>2 DEF Leave, Mishaps, MishapsCount
<1>3. CASE PatchWebhook
  BY <1>3 DEF PatchWebhook, Mishaps, Unread, MishapsCount
<1>4. ASSUME NEW e \in BOOLEAN, WebhookDropped(e)
      PROVE  MishapsCount' /\ mishaps' # before'
  BY <1>4 DEF WebhookDropped, Mishaps, Unread, MishapsCount
<1>5. CASE RecordHashFails
  BY <1>5 DEF RecordHashFails, Mishaps, MishapsCount
<1>6. ASSUME NEW c \in Channels, NEW i \in Identities, Rename(c, i)
      PROVE  UNCHANGED <<mishaps, before>>
  BY <1>6 DEF Rename
<1>7. CASE PassBy \/ UpToDate \/ RecordHash \/ UNCHANGED identityVars
  BY <1>7 DEF PassBy, UpToDate, RecordHash, identityVars, MishapsCount
<1>8. QED BY <1>1, <1>2, <1>3, <1>4, <1>5, <1>6, <1>7, <1>l DEF IdentityNext, MishapsCount

(* When a sync has met no mishap, every webhook bears the title of the     *)
(* first route that sends to it and resolved, whatever later routes share  *)
(* it (sync_webhook_identities, claimed).                                  *)
THEOREM FirstRouteNamesAlways == IdentitySpec => []FirstRouteNames
<1> DEFINE Inv == MishapsCount /\ SyncedSoFar
<1>1. IdentityInit => Inv
  BY DEF IdentityInit, MishapsCount, SyncedSoFar
<1>2. IdentityTypes /\ Inv /\ [IdentityNext]_identityVars => Inv'
  <2> SUFFICES ASSUME IdentityTypes, Inv, [IdentityNext]_identityVars
               PROVE  SyncedSoFar'
    BY MishapsGrow
  <2>0. \A i \in DOMAIN Hops : i \in Nat /\ i > 0
    BY HopsAreKnown, IdentityAssumption
  <2>1. ASSUME UNCHANGED <<hash, found, claimed, hop, half, mishaps, before>>
        PROVE  SyncedSoFar'
    BY <2>1 DEF SyncedSoFar, Past, Resolved, Hook, IsFirst
  <2>2. ASSUME NEW c \in Channels, NEW i \in Identities, Rename(c, i)
        PROVE  SyncedSoFar'
    BY <2>1, <2>2 DEF Rename
  <2>l. ASSUME NEW c \in Channels, Lookup(c)
        PROVE  SyncedSoFar'
    BY <2>l DEF Lookup, SyncedSoFar
  <2>3. CASE Begin
    <3>1. hop' = 1 /\ claimed' = {} /\ ~half'
      BY <2>3, IdentityAssumption DEF Begin, IdentityTypes
    <3>2. QED BY <2>0, <3>1 DEF SyncedSoFar, Past
  <2>4. CASE Leave
    BY <2>4 DEF Leave, SyncedSoFar
  <2>5. CASE PassBy
    <3>1. /\ hop \in DOMAIN Hops /\ ~half /\ ~half' /\ hop' = hop + 1
          /\ Wanted = NoIdentity \/ Hook \in claimed
          /\ UNCHANGED <<hash, found, claimed, mishaps, before>>
      BY <2>5 DEF PassBy, AtHop
    <3>2. QED BY <2>0, <3>1 DEF SyncedSoFar, Past, Resolved, IsFirst, Hook, Wanted
  <2>6. CASE UpToDate
    <3>1. /\ hop \in DOMAIN Hops /\ ~half /\ ~half' /\ hop' = hop + 1
          /\ hash[Hook] = Wanted /\ Wanted # NoIdentity
          /\ claimed' = claimed \cup {Hook}
          /\ UNCHANGED <<hash, found, mishaps, before>>
      BY <2>6 DEF UpToDate, MaySync, AtHop
    <3> SUFFICES ASSUME mishaps = before
                 PROVE  SyncedSoFar'
      BY <3>1 DEF SyncedSoFar
    <3>2. hop > 0
      BY <2>0, <3>1
    <3>3. \A i \in DOMAIN Hops : Past(i)' /\ Resolved(i)' => Hops[i].hook \in claimed'
      BY <2>0, <3>1, <3>2 DEF SyncedSoFar, Past, Resolved, Hook
    <3>4. \A h \in claimed' : \E i \in DOMAIN Hops : Past(i)' /\ Resolved(i)' /\ Hops[i].hook = h
      BY <2>0, <3>1, <3>2 DEF SyncedSoFar, Past, Resolved, Hook, Wanted
    <3>5. \A i \in DOMAIN Hops : i < hop' /\ IsFirst(i)' => hash'[Hops[i].hook] = found'[Hops[i].chat]
      BY <2>0, <3>1, <3>2 DEF SyncedSoFar, IsFirst, Hook, Wanted
    <3>6. QED BY <3>1, <3>3, <3>4, <3>5 DEF SyncedSoFar
  <2>7. CASE PatchWebhook
    <3>1. /\ hop \in DOMAIN Hops /\ ~half /\ half' /\ hop' = hop
          /\ Wanted # NoIdentity /\ Hook \notin claimed
          /\ claimed' = claimed \cup {Hook}
          /\ UNCHANGED <<hash, found, before>>
      BY <2>7 DEF PatchWebhook, MaySync, AtHop
    <3>2. mishaps' = before' => mishaps = before
      BY <2>7, MishapsGrow DEF PatchWebhook, Begin, Leave
    <3>3. QED BY <2>0, <3>1, <3>2 DEF SyncedSoFar, Past, Resolved, IsFirst, Hook, Wanted
  <2>8. ASSUME NEW e \in BOOLEAN, WebhookDropped(e)
        PROVE  SyncedSoFar'
    <3>1. mishaps' # before'
      BY <2>8 DEF WebhookDropped, Mishaps, Unread, MishapsCount
    <3>2. QED BY <3>1 DEF SyncedSoFar
  <2>9. CASE RecordHash
    <3>1. /\ half /\ ~half' /\ hop' = hop + 1 /\ hop \in DOMAIN Hops
          /\ hash' = [hash EXCEPT ![Hook] = Wanted]
          /\ UNCHANGED <<found, claimed, mishaps, before>>
      BY <2>9 DEF RecordHash, IdentityTypes
    <3> SUFFICES ASSUME mishaps = before
                 PROVE  SyncedSoFar'
      BY <3>1 DEF SyncedSoFar
    <3>2. hop > 0
      BY <2>0, <3>1
    <3>3. /\ \A i \in DOMAIN Hops : Past(i)' /\ Resolved(i)' => Hops[i].hook \in claimed'
          /\ \A h \in claimed' : \E i \in DOMAIN Hops :
                Past(i)' /\ Resolved(i)' /\ Hops[i].hook = h
      BY <2>0, <3>1, <3>2 DEF SyncedSoFar, Past, Resolved
    <3>4. ASSUME NEW i \in DOMAIN Hops, i < hop', IsFirst(i)'
          PROVE  hash'[Hops[i].hook] = found'[Hops[i].chat]
      <4>1. IsFirst(i)
        BY <3>1, <3>4 DEF IsFirst
      <4>2. CASE i = hop
        BY <3>1, <4>2, HopsAreKnown DEF Hook, Wanted, IdentityTypes
      <4>3. CASE i # hop
        <5>1. i < hop
          BY <2>0, <3>1, <3>4, <4>3
        <5>2. hash[Hops[i].hook] = found[Hops[i].chat]
          BY <3>2, <4>1, <5>1 DEF SyncedSoFar
        <5>3. Hops[i].hook # Hook
          BY <3>1, <3>2, <4>1, <5>1 DEF SyncedSoFar, Resolved, IsFirst
        <5>4. QED BY <3>1, <5>2, <5>3, HopsAreKnown DEF IdentityTypes
      <4>4. QED BY <4>2, <4>3
    <3>5. QED BY <3>1, <3>3, <3>4 DEF SyncedSoFar
  <2>10. CASE RecordHashFails
    <3>1. mishaps' # before'
      BY <2>10 DEF RecordHashFails, Mishaps, MishapsCount
    <3>2. QED BY <3>1 DEF SyncedSoFar
  <2>11. CASE UNCHANGED identityVars
    BY <2>1, <2>11 DEF identityVars
  <2>12. QED BY <2>2, <2>3, <2>4, <2>5, <2>6, <2>7, <2>8, <2>9, <2>10, <2>11, <2>l
             DEF IdentityNext
<1>3. IdentityTypes /\ HashTells /\ Inv => FirstRouteNames
  <2> SUFFICES ASSUME IdentityTypes, HashTells, SyncedSoFar, hop = Len(Hops) + 1, mishaps = before,
                      NEW i \in DOMAIN Hops, IsFirst(i)
               PROVE  /\ hash[Hops[i].hook] = found[Hops[i].chat]
                      /\ Hops[i].hook \notin torn =>
                            shown[Hops[i].hook].title = found[Hops[i].chat].title
    BY DEF FirstRouteNames
  <2>1. i < hop /\ hop > 0
    BY IdentityAssumption
  <2>2. hash[Hops[i].hook] = found[Hops[i].chat]
    BY <2>1 DEF SyncedSoFar
  <2>3. QED BY <2>2, HopsAreKnown DEF HashTells, Matches, IsFirst
<1>4. QED BY <1>1, <1>2, <1>3, HashInvariant, PTL DEF IdentitySpec
-----------------------------------------------------------------------------
(* What PATCHes are paid for with.                                         *)

Bound == 1 + renames + 2 * mishaps

Differ(a, b) == IF a = b THEN 0 ELSE 1

(* The first pair of a webhook: a start without mishap gives the webhook   *)
(* the identity of this pair's channel.                                    *)
IsOwner(h, f) ==
    /\ f \in DOMAIN Hops /\ Hops[f].hook = h
    /\ \A j \in 1..f - 1 : Hops[j].hook # h

Target(f) == channel[Hops[f].chat]

(* The hash of a webhook, or the one that is about to be recorded.         *)
Recorded(h) == IF half /\ Hook = h THEN Wanted ELSE hash[h]

(* The pair from which a webhook will be synced in the present start: once *)
(* the sync is on, and once the lookups have come to it.                   *)
NextFor(h, i) ==
    /\ i \in DOMAIN Hops /\ hop \in 0..i /\ Hops[i].hook = h
    /\ hop > 0 => h \notin claimed
    /\ found[Hops[i].chat] # NoIdentity
    /\ \A j \in 1..i - 1 : hop <= j /\ Hops[j].hook = h => found[Hops[j].chat] = NoIdentity
    /\ hop = 0 => \A j \in 1..i : Hops[j].hook = h => Hops[j].chat \notin unasked

(* A pair whose channel this start did not find.                           *)
Missed(f) ==
    /\ hop = 0 /\ Hops[f].chat \notin unasked
    /\ found[Hops[f].chat] = NoIdentity

(* The PATCHes sent for a webhook, and those it takes to get from its hash *)
(* to what this start has found, and on to what the channel is now.  A     *)
(* first pair that was missed has paid for another's turn and the way back.*)
PaidAt(h, f) ==
    /\ patches[h] + Differ(Recorded(h), Target(f)) <= Bound
    /\ \A i \in DOMAIN Hops : NextFor(h, i) =>
          patches[h] + Differ(Recorded(h), found[Hops[i].chat])
                     + Differ(found[Hops[i].chat], Target(f)) <= Bound
    /\ Missed(f) => patches[h] + 2 <= Bound

Paid(h) == \A f \in DOMAIN Hops : IsOwner(h, f) => PaidAt(h, f)

Counts ==
    /\ renames \in Nat /\ mishaps \in Nat
    /\ patches \in [HookNames -> Nat]
    /\ half => Hook \in claimed

(* The counts are numbers, before and after a step.                        *)
LEMMA CountsAreNumbers ==
    /\ Counts  => Bound \in Nat /\ \A h \in HookNames : patches[h] \in Nat
    /\ Counts' => Bound' \in Nat /\ \A h \in HookNames : patches'[h] \in Nat
<1>1. Counts => renames \in Nat /\ mishaps \in Nat /\ patches \in [HookNames -> Nat]
  BY DEF Counts
<1>2. Counts' => renames' \in Nat /\ mishaps' \in Nat /\ patches' \in [HookNames -> Nat]
  BY DEF Counts
<1>3. QED BY <1>1, <1>2 DEF Bound

(* A step that does not concern the webhook.                               *)
LEMMA NotConcerned ==
    ASSUME Counts, Counts', NEW h \in HookNames, Paid(h),
           UNCHANGED <<channel, found>>, patches'[h] = patches[h],
           Recorded(h)' = Recorded(h), Bound <= Bound',
           \A i \in DOMAIN Hops : NextFor(h, i)' => NextFor(h, i),
           \A i \in DOMAIN Hops : Missed(i)' => Missed(i)
    PROVE  Paid(h)'
<1> SUFFICES ASSUME NEW f \in DOMAIN Hops, IsOwner(h, f)
             PROVE  PaidAt(h, f)'
  BY DEF Paid, IsOwner
<1>1. PaidAt(h, f) /\ Target(f)' = Target(f)
  BY DEF Paid, Target
<1>2. patches[h] \in Nat /\ Bound \in Nat /\ Bound' \in Nat
  BY CountsAreNumbers
<1>3. \A a, b : Differ(a, b) \in {0, 1}
  BY DEF Differ
<1>4. patches'[h] + Differ(Recorded(h)', Target(f)') <= Bound'
  BY <1>1, <1>2, <1>3 DEF PaidAt
<1>5. ASSUME NEW i \in DOMAIN Hops, NextFor(h, i)'
      PROVE  patches'[h] + Differ(Recorded(h)', found'[Hops[i].chat])
                         + Differ(found'[Hops[i].chat], Target(f)') <= Bound'
  <2>1. /\ patches[h] + Differ(Recorded(h), found[Hops[i].chat])
                      + Differ(found[Hops[i].chat], Target(f)) <= Bound
        /\ found' = found
    BY <1>1, <1>5 DEF PaidAt
  <2>2. QED BY <1>1, <1>2, <1>3, <2>1
<1>7. Missed(f)' => patches'[h] + 2 <= Bound'
  BY <1>1, <1>2 DEF PaidAt
<1>8. QED BY <1>4, <1>5, <1>7 DEF PaidAt, Differ

(* A mishap pays for a PATCH and its record, or for a start that found     *)
(* something else.                                                         *)
LEMMA MishapPays ==
    ASSUME Counts, Counts', NEW h \in HookNames, Paid(h),
           Bound' >= Bound + 2,
           \/ patches'[h] = patches[h]
           \/ /\ patches'[h] = patches[h] + 1 /\ hop' # 0
              /\ \A i \in DOMAIN Hops : ~NextFor(h, i)'
    PROVE  Paid(h)'
<1> SUFFICES ASSUME NEW f \in DOMAIN Hops, IsOwner(h, f)
             PROVE  PaidAt(h, f)'
  BY DEF Paid, IsOwner
<1>1. patches[h] \in Nat /\ Bound \in Nat /\ Bound' \in Nat /\ patches'[h] \in Nat
  BY CountsAreNumbers
<1>2. \A a, b : Differ(a, b) \in {0, 1}
  BY DEF Differ
<1>3. patches[h] <= Bound
  BY <1>1, <1>2 DEF Paid, PaidAt
<1>4. patches'[h] + Differ(Recorded(h)', Target(f)') <= Bound'
  BY <1>1, <1>2, <1>3
<1>5. ASSUME NEW i \in DOMAIN Hops, NextFor(h, i)'
      PROVE  patches'[h] + Differ(Recorded(h)', found'[Hops[i].chat])
                         + Differ(found'[Hops[i].chat], Target(f)') <= Bound'
  <2>1. patches'[h] = patches[h]
    BY <1>5
  <2>2. QED BY <1>1, <1>2, <1>3, <2>1
<1>6. Missed(f)' => patches'[h] + 2 <= Bound'
  <2> SUFFICES ASSUME Missed(f)' PROVE patches'[h] + 2 <= Bound'
    OBVIOUS
  <2>1. patches'[h] = patches[h]
    BY DEF Missed
  <2>2. QED BY <1>1, <1>3, <2>1
<1>7. QED BY <1>4, <1>5, <1>6 DEF PaidAt, Differ

(* A change of a channel pays for one PATCH more.                          *)
LEMMA RenamePays ==
    ASSUME Counts, Counts', NEW c \in Channels, NEW i \in Identities, Rename(c, i),
           NEW h \in HookNames, Paid(h)
    PROVE  Paid(h)'
<1> SUFFICES ASSUME NEW f \in DOMAIN Hops, IsOwner(h, f)
             PROVE  PaidAt(h, f)'
  BY DEF Paid, IsOwner
<1>1. patches[h] \in Nat /\ Bound \in Nat /\ Bound' = Bound + 1 /\ patches' = patches
  BY DEF Counts, Bound, Rename
<1>2. \A a, b : Differ(a, b) \in {0, 1}
  BY DEF Differ
<1>3. PaidAt(h, f)
  BY DEF Paid
<1>4. Recorded(h)' = Recorded(h) /\ found' = found
  BY DEF Rename, Recorded, Hook, Wanted
<1>5. \A k \in DOMAIN Hops : NextFor(h, k)' <=> NextFor(h, k)
  BY DEF Rename, NextFor
<1>6. patches'[h] + Differ(Recorded(h)', Target(f)') <= Bound'
  BY <1>1, <1>2, <1>3 DEF PaidAt
<1>7. ASSUME NEW k \in DOMAIN Hops, NextFor(h, k)'
      PROVE  patches'[h] + Differ(Recorded(h)', found'[Hops[k].chat])
                         + Differ(found'[Hops[k].chat], Target(f)') <= Bound'
  <2>1. patches[h] + Differ(Recorded(h), found[Hops[k].chat])
                   + Differ(found[Hops[k].chat], Target(f)) <= Bound
    BY <1>3, <1>5, <1>7 DEF PaidAt
  <2>2. QED BY <1>1, <1>2, <1>4, <2>1
<1>8. Missed(f)' => patches'[h] + 2 <= Bound'
  <2>1. Missed(f)' => Missed(f)
    BY DEF Rename, Missed
  <2>2. QED BY <1>1, <1>3, <2>1 DEF PaidAt
<1>9. QED BY <1>6, <1>7, <1>8 DEF PaidAt, Differ

(* The counts keep their types.                                            *)
LEMMA CountsStay ==
    ASSUME IdentityTypes, Counts, [IdentityNext]_identityVars
    PROVE  Counts' /\ Bound <= Bound'
<1>1. renames' \in Nat /\ mishaps' \in Nat /\ renames <= renames' /\ mishaps <= mishaps'
  BY DEF Counts, IdentityNext, identityVars, Rename, Lookup, Begin, PassBy, UpToDate, PatchWebhook,
         WebhookDropped, RecordHash, RecordHashFails, Leave, Mishaps, Unread
<1>2. patches' \in [HookNames -> Nat]
  <2>1. hop \in DOMAIN Hops => Hook \in HookNames
    BY HopsAreKnown DEF Hook
  <2>2. CASE PatchWebhook \/ \E e \in BOOLEAN : WebhookDropped(e)
    <3>1. patches' = [patches EXCEPT ![Hook] = @ + 1] /\ hop \in DOMAIN Hops
      BY <2>2 DEF PatchWebhook, WebhookDropped, MaySync, AtHop
    <3>2. QED BY <2>1, <3>1 DEF Counts
  <2>3. CASE ~(PatchWebhook \/ \E e \in BOOLEAN : WebhookDropped(e))
    <3>1. patches' = patches
      BY <2>3 DEF IdentityNext, identityVars, Rename, Lookup, Begin, PassBy, UpToDate, RecordHash,
                  RecordHashFails, Leave
    <3>2. QED BY <3>1 DEF Counts
  <2>4. QED BY <2>2, <2>3
<1>3. half' => Hook' \in claimed'
  <2>1. CASE Begin
    <3>1. hop = 0 /\ half' = half
      BY <2>1 DEF Begin
    <3>2. QED BY <3>1, IdentityAssumption DEF IdentityTypes
  <2>2. CASE PatchWebhook
    <3>1. Hook' = Hook /\ Hook \in claimed'
      BY <2>2 DEF PatchWebhook, Hook
    <3>2. QED BY <3>1
  <2>3. CASE PassBy \/ UpToDate \/ (\E e \in BOOLEAN : WebhookDropped(e)) \/ RecordHash
             \/ RecordHashFails \/ Leave
    BY <2>3 DEF PassBy, UpToDate, WebhookDropped, RecordHash, RecordHashFails, Leave, MaySync, AtHop
  <2>4. CASE (\E c \in Channels, i \in Identities : Rename(c, i)) \/ UNCHANGED identityVars
    <3>1. half' = half /\ hop' = hop /\ claimed' = claimed
      BY <2>4 DEF Rename, identityVars
    <3>2. QED BY <3>1 DEF Counts, Hook
  <2>l. ASSUME NEW c \in Channels, Lookup(c)
        PROVE  ~half'
    BY <2>l, IdentityAssumption DEF Lookup, IdentityTypes
  <2>5. QED BY <2>1, <2>2, <2>3, <2>4, <2>l DEF IdentityNext
<1>4. Counts'
  BY <1>1, <1>2, <1>3 DEF Counts
<1>5. renames \in Nat /\ mishaps \in Nat
  BY DEF Counts
<1>6. ASSUME NEW a \in Nat, NEW b \in Nat, NEW c \in Nat, NEW d \in Nat, a <= c, b <= d
      PROVE  1 + a + 2 * b <= 1 + c + 2 * d
  BY <1>6
<1>7. Bound <= Bound'
  BY <1>1, <1>5, <1>6 DEF Bound
<1>8. QED BY <1>4, <1>7

(* A lookup that finds the channel as it is.                               *)
LEMMA CleanLookup ==
    ASSUME IdentityTypes, Counts, Counts', NEW c \in Channels, Lookup(c),
           found' = [found EXCEPT ![c] = channel[c]], Bound <= Bound',
           NEW h \in HookNames, Paid(h)
    PROVE  Paid(h)'
<1>1. /\ hop = 0 /\ hop' = 0 /\ ~half /\ ~half' /\ hash' = hash /\ patches' = patches
      /\ channel' = channel /\ c \in unasked /\ unasked' = unasked \ {c}
  <2>1. hop = 0 /\ hop' = hop /\ half' = half
    BY DEF Lookup
  <2>2. ~half
    BY <2>1, IdentityAssumption DEF IdentityTypes
  <2>3. QED BY <2>1, <2>2 DEF Lookup
<1> SUFFICES ASSUME NEW f \in DOMAIN Hops, IsOwner(h, f)
             PROVE  PaidAt(h, f)'
  BY DEF Paid, IsOwner
<1>2. patches[h] \in Nat /\ Bound \in Nat /\ Bound' \in Nat
  BY CountsAreNumbers
<1>3. Recorded(h)' = Recorded(h) /\ Target(f)' = Target(f)
  BY <1>1 DEF Recorded, Target
<1>4. PaidAt(h, f)
  BY DEF Paid
<1>5. \A a, b : Differ(a, b) \in {0, 1}
  BY DEF Differ
<1>6. /\ channel[c] # NoIdentity
      /\ found'[c] = channel[c]
      /\ \A d \in Channels \ {c} : found'[d] = found[d]
  BY IdentityAssumption DEF IdentityTypes
<1>7. Missed(f)' => Missed(f)
  <2>1. Hops[f].chat \in Channels
    BY HopsAreKnown
  <2>2. QED BY <1>1, <1>6, <2>1 DEF Missed
<1>8. ASSUME NEW i \in DOMAIN Hops, NextFor(h, i)'
      PROVE  patches'[h] + Differ(Recorded(h)', found'[Hops[i].chat])
                         + Differ(found'[Hops[i].chat], Target(f)') <= Bound'
  <2>1. /\ Hops[i].hook = h /\ found'[Hops[i].chat] # NoIdentity
        /\ \A j \in 1..i - 1 : Hops[j].hook = h => found'[Hops[j].chat] = NoIdentity
        /\ \A j \in 1..i : Hops[j].hook = h => Hops[j].chat \notin unasked'
    BY <1>1, <1>8 DEF NextFor
  <2>2. /\ i \in Nat /\ f \in Nat /\ i >= 1 /\ f >= 1
        /\ Hops[i].chat \in Channels /\ Hops[f].chat \in Channels
    BY HopsAreKnown, IdentityAssumption
  <2>3. Hops[f].hook = h /\ \A j \in 1..f - 1 : Hops[j].hook # h
    BY DEF IsOwner
  <2>4. CASE i = f /\ Hops[i].chat = c
    <3>1. found'[Hops[i].chat] = Target(f)
      BY <1>6, <2>4 DEF Target
    <3>2. patches[h] + Differ(Recorded(h), Target(f)) <= Bound /\ Differ(Target(f), Target(f)) = 0
      BY <1>4 DEF PaidAt, Differ
    <3>3. QED BY <1>1, <1>2, <1>3, <1>5, <3>1, <3>2
  <2>5. CASE i = f /\ Hops[i].chat # c
    <3>1. found'[Hops[i].chat] = found[Hops[i].chat]
      BY <1>6, <2>2, <2>5
    <3>2. Hops[f].chat \notin unasked
      BY <1>1, <2>1, <2>2, <2>3, <2>5
    <3>3. NextFor(h, i)
      BY <1>1, <2>1, <2>2, <2>3, <2>5, <3>1, <3>2 DEF NextFor
    <3>4. patches[h] + Differ(Recorded(h), found[Hops[i].chat])
                     + Differ(found[Hops[i].chat], Target(f)) <= Bound
      BY <1>4, <3>3 DEF PaidAt
    <3>5. QED BY <1>1, <1>2, <1>3, <1>5, <3>1, <3>4
  <2>6. CASE i # f
    <3>1. f \in 1..i - 1 /\ f \in 1..i
      BY <2>1, <2>2, <2>3, <2>6
    <3>2. Missed(f)'
      BY <1>1, <2>1, <2>3, <3>1 DEF Missed
    <3>3. patches[h] + 2 <= Bound
      BY <1>4, <1>7, <3>2 DEF PaidAt
    <3>4. QED BY <1>1, <1>2, <1>5, <3>3
  <2>7. QED BY <2>4, <2>5, <2>6
<1>9. patches'[h] + Differ(Recorded(h)', Target(f)') <= Bound'
  BY <1>1, <1>2, <1>3, <1>4, <1>5 DEF PaidAt
<1>10. Missed(f)' => patches'[h] + 2 <= Bound'
  BY <1>1, <1>2, <1>4, <1>7 DEF PaidAt
<1>11. QED BY <1>8, <1>9, <1>10 DEF PaidAt, Differ

(* A PATCH for a hash that differs was due.                                *)
LEMMA PatchWasDue ==
    ASSUME IdentityTypes, Counts, Counts', PatchWebhook, hash[Hook] # Wanted, Paid(Hook),
           Bound <= Bound'
    PROVE  Paid(Hook)'
<1> DEFINE h == Hook
<1>1. /\ hop \in DOMAIN Hops /\ ~half /\ Wanted # NoIdentity /\ Hook \notin claimed
      /\ half' /\ claimed' = claimed \cup {Hook}
      /\ patches' = [patches EXCEPT ![Hook] = @ + 1]
      /\ UNCHANGED <<channel, hash, found, hop>>
  BY DEF PatchWebhook, MaySync, AtHop
<1>2. h \in HookNames /\ Hook' = Hook /\ Wanted' = Wanted /\ hop \in Nat /\ hop >= 1
  BY <1>1, AtHopFacts, IdentityAssumption DEF Hook, Wanted
<1>3. patches[h] \in Nat /\ patches'[h] = patches[h] + 1 /\ Bound \in Nat /\ Bound' \in Nat
  <2>1. patches[h] \in Nat /\ Bound \in Nat /\ Bound' \in Nat
    BY <1>2, CountsAreNumbers
  <2>2. patches \in [HookNames -> Nat]
    BY DEF Counts
  <2>3. QED BY <1>1, <1>2, <2>1, <2>2
<1>4. NextFor(h, hop)
  BY <1>1, <1>2 DEF NextFor, Hook, Wanted
<1>5. Recorded(h) = hash[h] /\ (Recorded(Hook))' = Wanted
  BY <1>1, <1>2 DEF Recorded
<1> SUFFICES ASSUME NEW f \in DOMAIN Hops, IsOwner(h, f)
             PROVE  PaidAt(Hook, f)'
  BY <1>2 DEF Paid, IsOwner
<1>6. patches[h] + Differ(Recorded(h), found[Hops[hop].chat]) + Differ(found[Hops[hop].chat], Target(f)) <= Bound
  BY <1>1, <1>4 DEF Paid, PaidAt
<1>7. Differ(Recorded(h), found[Hops[hop].chat]) = 1 /\ Differ(Wanted, Target(f)) \in {0, 1}
  BY <1>5 DEF Differ, Wanted
<1>8. patches'[h] + Differ(Wanted, Target(f)) <= Bound'
  BY <1>3, <1>6, <1>7 DEF Wanted
<1>9. /\ Target(f)' = Target(f) /\ ~Missed(f)'
      /\ \A i \in DOMAIN Hops : ~NextFor(Hook, i)'
  BY <1>1, <1>2 DEF Target, NextFor, Missed
<1>10. QED BY <1>2, <1>5, <1>8, <1>9 DEF PaidAt

(* There is no infinite descent in the natural numbers.                    *)
Less == {p \in Nat \X Nat : p[1] < p[2]}

(* Descending ends at some number. *)
LEMMA LessDescends == IsWellFoundedOn(Less, Nat)
  BY NatLessThanWellFounded DEF OpToRel, Less

(* Every webhook has a first pair.                                         *)
LEMMA OwnersExist ==
    ASSUME NEW h \in HookNames
    PROVE  \E f \in DOMAIN Hops : IsOwner(h, f)
<1> DEFINE S == {i \in DOMAIN Hops : Hops[i].hook = h}
<1>1. S # {} /\ S \subseteq Nat /\ \A i \in S : \A j \in 1..i - 1 : j \in DOMAIN Hops
  BY IdentityAssumption DEF HookNames
<1> HIDE DEF S
<1>2. PICK f \in S : \A j \in S : <<j, f>> \notin Less
  BY <1>1, LessDescends, WFMin
<1>3. ASSUME NEW j \in 1..f - 1
      PROVE  Hops[j].hook # h
  <2>1. f \in Nat /\ j \in Nat /\ j < f /\ j \in DOMAIN Hops
    BY <1>1
  <2>2. <<j, f>> \in Less
    BY <2>1, Zenon DEF Less
  <2>3. j \notin S
    BY <1>2, <2>2
  <2>4. QED BY <2>1, <2>3 DEF S
<1>4. f \in DOMAIN Hops /\ Hops[f].hook = h
  BY DEF S
<1>5. QED BY <1>3, <1>4 DEF IsOwner

(* Any number of restarts sends no more PATCHes for a webhook than changes *)
(* of channels and mishaps pay for (sync_webhook_identities).              *)
THEOREM RestartsAreQuietAlways == IdentitySpec => []RestartsAreQuiet
<1> DEFINE Inv == IdentityTypes /\ Counts /\ \A h \in HookNames : Paid(h)
<1>1. IdentityInit => Inv
  <2> SUFFICES ASSUME IdentityInit PROVE Counts /\ \A h \in HookNames : Paid(h)
    BY TypesStart
  <2>1. Counts /\ Bound = 1 /\ \A h \in HookNames : patches[h] = 0
    BY DEF IdentityInit, Counts, Bound
  <2>2. \A i \in DOMAIN Hops : ~Missed(i) /\ \A h : ~NextFor(h, i)
    BY HopsAreKnown DEF IdentityInit, NextFor, Missed
  <2>3. \A a, b : 0 + Differ(a, b) <= 1
    BY DEF Differ
  <2>4. QED BY <2>1, <2>2, <2>3 DEF Paid, PaidAt
<1>2. Inv /\ [IdentityNext]_identityVars => Inv'
  <2> SUFFICES ASSUME Inv, [IdentityNext]_identityVars, NEW h \in HookNames
               PROVE  Paid(h)'
    BY TypesStay, CountsStay
  <2>t. Counts' /\ Bound <= Bound' /\ Bound \in Nat
    BY CountsStay DEF Counts, Bound
  <2>p. Paid(h)
    OBVIOUS
  <2>h. hop \in DOMAIN Hops => Hook \in HookNames /\ hop \in Nat
    BY HopsAreKnown DEF Hook
  <2>1. ASSUME NEW c \in Channels, NEW i \in Identities, Rename(c, i)
        PROVE  Paid(h)'
    BY <2>1, <2>t, <2>p, RenamePays
  <2>l. ASSUME NEW c \in Channels, Lookup(c)
        PROVE  Paid(h)'
    <3>1. CASE found' = [found EXCEPT ![c] = channel[c]]
      BY <2>l, <2>t, <2>p, <3>1, CleanLookup
    <3>2. CASE mishaps' = mishaps + 1
      <4>1. Bound' >= Bound + 2 /\ patches' = patches
        BY <2>l, <3>2 DEF Lookup, Bound, Counts
      <4>2. QED BY <2>t, <2>p, <4>1, MishapPays
    <3>3. QED BY <2>l, <3>1, <3>2 DEF Lookup, Mishaps
  <2>2. CASE Begin
    <3>1. /\ hop = 0 /\ hop' = 1 /\ half' = half /\ unasked = {} /\ claimed' = {}
          /\ UNCHANGED <<channel, found, hash, patches>>
      BY <2>2 DEF Begin
    <3>2. ~half
      BY <3>1, IdentityAssumption DEF IdentityTypes
    <3>3. Recorded(h)' = Recorded(h)
      BY <3>1, <3>2 DEF Recorded
    <3>4. \A i \in DOMAIN Hops : (NextFor(h, i)' => NextFor(h, i)) /\ ~Missed(i)'
      <4> SUFFICES ASSUME NEW i \in DOMAIN Hops, NextFor(h, i)'
                   PROVE  NextFor(h, i)
        BY <3>1 DEF Missed
      <4>1. i \in Nat /\ \A j \in 1..i - 1 : 0 <= j /\ 1 <= j
        BY HopsAreKnown
      <4>2. QED BY <3>1, <4>1 DEF NextFor
    <3>5. QED BY <2>t, <2>p, <3>1, <3>3, <3>4, NotConcerned
  <2>3. CASE PassBy
    <3>1. /\ hop \in DOMAIN Hops /\ ~half /\ ~half' /\ hop' = hop + 1
          /\ Wanted = NoIdentity \/ Hook \in claimed
          /\ UNCHANGED <<channel, found, hash, claimed, patches>>
      BY <2>3 DEF PassBy, AtHop
    <3>2. \A i \in DOMAIN Hops : NextFor(h, i)' => NextFor(h, i)
      BY <2>h, <3>1, IdentityAssumption DEF NextFor, Hook, Wanted
    <3>3. Recorded(h)' = Recorded(h) /\ \A i \in DOMAIN Hops : ~Missed(i)'
      BY <2>h, <3>1 DEF Recorded, Missed
    <3>4. QED BY <2>t, <2>p, <3>1, <3>2, <3>3, NotConcerned
  (* What a pair has in common that is done with its webhook, or passes on. *)
  <2>a. ASSUME hop \in DOMAIN Hops, Hook \in claimed', claimed \subseteq claimed',
               hop' \in {hop, hop + 1}, found' = found
        PROVE  /\ \A i \in DOMAIN Hops : NextFor(h, i)' => NextFor(h, i)
               /\ h = Hook => \A i \in DOMAIN Hops : ~NextFor(h, i)'
               /\ hop' # 0 /\ \A i \in DOMAIN Hops : ~Missed(i)'
    BY <2>a, <2>h, IdentityAssumption DEF NextFor, Hook, Missed
  <2>4. CASE UpToDate
    <3>1. /\ hop \in DOMAIN Hops /\ ~half /\ ~half' /\ hop' = hop + 1
          /\ claimed' = claimed \cup {Hook}
          /\ UNCHANGED <<channel, found, hash, patches>>
      BY <2>4 DEF UpToDate, MaySync, AtHop
    <3>2. Recorded(h)' = Recorded(h)
      BY <3>1 DEF Recorded
    <3>3. \A i \in DOMAIN Hops : (NextFor(h, i)' => NextFor(h, i)) /\ ~Missed(i)'
      BY <2>a, <3>1
    <3>4. QED BY <2>t, <2>p, <3>1, <3>2, <3>3, NotConcerned
  <2>5. CASE PatchWebhook
    <3>1. /\ hop \in DOMAIN Hops /\ ~half /\ hop' = hop
          /\ claimed' = claimed \cup {Hook} /\ Hook' = Hook
          /\ patches' = [patches EXCEPT ![Hook] = @ + 1]
          /\ UNCHANGED <<channel, found, hash>>
      BY <2>5 DEF PatchWebhook, MaySync, AtHop, Hook
    <3>2. /\ \A i \in DOMAIN Hops : NextFor(h, i)' => NextFor(h, i)
          /\ h = Hook => \A i \in DOMAIN Hops : ~NextFor(h, i)'
          /\ hop' # 0 /\ \A i \in DOMAIN Hops : ~Missed(i)'
      BY <2>a, <3>1
    <3>3. CASE h # Hook
      <4>1. Recorded(h)' = Recorded(h) /\ patches'[h] = patches[h]
        BY <3>1, <3>3 DEF Recorded, Counts
      <4>2. QED BY <2>t, <2>p, <3>1, <3>2, <4>1, NotConcerned
    <3>4. CASE h = Hook /\ hash[Hook] # Wanted
      <4>1. Paid(Hook)'
        BY <2>5, <2>t, <2>p, <3>4, PatchWasDue
      <4>2. QED BY <3>1, <3>4, <4>1 DEF Paid
    <3>5. CASE h = Hook /\ hash[Hook] = Wanted
      <4>1. Bound' >= Bound + 2
        BY <2>5, <3>5 DEF PatchWebhook, Mishaps, Unread, Bound, Counts
      <4>2. patches'[h] = patches[h] + 1
        BY <2>h, <3>1, <3>5 DEF Counts
      <4>3. QED BY <2>t, <2>p, <3>2, <3>5, <4>1, <4>2, MishapPays
    <3>6. QED BY <3>3, <3>4, <3>5
  <2>6. ASSUME NEW e \in BOOLEAN, WebhookDropped(e)
        PROVE  Paid(h)'
    <3>1. /\ hop \in DOMAIN Hops /\ ~half /\ ~half' /\ hop' = hop + 1
          /\ claimed' = claimed \cup {Hook}
          /\ patches' = [patches EXCEPT ![Hook] = @ + 1]
          /\ UNCHANGED <<channel, found, hash>>
      BY <2>6 DEF WebhookDropped, MaySync, AtHop
    <3>2. /\ \A i \in DOMAIN Hops : NextFor(h, i)' => NextFor(h, i)
          /\ h = Hook => \A i \in DOMAIN Hops : ~NextFor(h, i)'
          /\ hop' # 0 /\ \A i \in DOMAIN Hops : ~Missed(i)'
      BY <2>a, <3>1
    <3>3. Bound' >= Bound + 2
      BY <2>6 DEF WebhookDropped, Mishaps, Unread, Bound, Counts
    <3>4. patches'[h] = IF h = Hook THEN patches[h] + 1 ELSE patches[h]
      BY <2>h, <3>1 DEF Counts
    <3>5. QED BY <2>t, <2>p, <3>2, <3>3, <3>4, MishapPays
  <2>7. CASE RecordHash
    <3>1. /\ half /\ ~half' /\ hop' = hop + 1 /\ hop \in DOMAIN Hops
          /\ hash' = [hash EXCEPT ![Hook] = Wanted]
          /\ Hook \in claimed
          /\ UNCHANGED <<channel, found, claimed, patches>>
      BY <2>7 DEF RecordHash, IdentityTypes, Counts
    <3>2. Recorded(h)' = Recorded(h)
      BY <2>h, <3>1 DEF Recorded, IdentityTypes
    <3>3. \A i \in DOMAIN Hops : (NextFor(h, i)' => NextFor(h, i)) /\ ~Missed(i)'
      BY <2>a, <3>1
    <3>4. QED BY <2>t, <2>p, <3>1, <3>2, <3>3, NotConcerned
  <2>8. CASE RecordHashFails
    <3>1. Bound' >= Bound + 2 /\ patches' = patches
      BY <2>8 DEF RecordHashFails, Mishaps, Bound, Counts
    <3>2. QED BY <2>t, <2>p, <3>1, MishapPays
  <2>9. CASE Leave
    <3>1. CASE hop \in 0..Len(Hops)
      <4>1. Bound' >= Bound + 2 /\ patches' = patches
        BY <2>9, <3>1 DEF Leave, Mishaps, Bound, Counts
      <4>2. QED BY <2>t, <2>p, <4>1, MishapPays
    <3>2. CASE hop \notin 0..Len(Hops)
      <4>1. /\ ~half /\ ~half' /\ hop' = 0 /\ unasked' = Channels
            /\ UNCHANGED <<channel, found, hash, claimed, patches>>
        BY <2>9, <3>2, IdentityAssumption DEF Leave, IdentityTypes
      <4>2. /\ Recorded(h)' = Recorded(h)
            /\ \A i \in DOMAIN Hops : ~NextFor(h, i)' /\ ~Missed(i)'
        <5>1. \A i \in DOMAIN Hops : Hops[i].chat \in unasked' /\ i \in 1..i
          BY <4>1, HopsAreKnown, IdentityAssumption
        <5>2. QED BY <4>1, <5>1 DEF Recorded, NextFor, Missed
      <4>3. QED BY <2>t, <2>p, <4>1, <4>2, NotConcerned
    <3>3. QED BY <3>1, <3>2
  <2>10. CASE UNCHANGED identityVars
    <3>1. UNCHANGED <<channel, unasked, found, hash, claimed, patches, half, hop>>
      BY <2>10 DEF identityVars
    <3>2. /\ Recorded(h)' = Recorded(h)
          /\ \A i \in DOMAIN Hops : (NextFor(h, i)' => NextFor(h, i)) /\ (Missed(i)' => Missed(i))
      BY <3>1 DEF Recorded, Hook, Wanted, NextFor, Missed
    <3>3. QED BY <2>t, <2>p, <3>1, <3>2, NotConcerned
  <2>11. QED
    BY <2>1, <2>2, <2>3, <2>4, <2>5, <2>6, <2>7, <2>8, <2>9, <2>10, <2>l DEF IdentityNext
<1>3. Inv => RestartsAreQuiet
  <2> SUFFICES ASSUME Inv, NEW h \in HookNames
               PROVE  patches[h] <= 1 + renames + 2 * mishaps
    BY DEF RestartsAreQuiet
  <2>1. PICK f \in DOMAIN Hops : IsOwner(h, f)
    BY OwnersExist
  <2>2. patches[h] + Differ(Recorded(h), Target(f)) <= Bound
    BY <2>1 DEF Paid, PaidAt
  <2>3. patches[h] \in Nat /\ Differ(Recorded(h), Target(f)) \in {0, 1} /\ Bound \in Nat
    BY DEF Counts, Differ, Bound
  <2>4. QED BY <2>2, <2>3 DEF Bound
<1>4. QED BY <1>1, <1>2, <1>3, PTL DEF IdentitySpec
=============================================================================
