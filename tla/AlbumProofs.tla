---------------------------- MODULE AlbumProofs ----------------------------
(***************************************************************************)
(* Proofs about the media lane, for any updates, albums, webhooks, targets,*)
(* capacity of the LRU, permits, channel, window and number of faults.     *)
(***************************************************************************)
EXTENDS Album, DataLemmas

(* A set of numbers has a least. *)
LEMMA LeastOf ==
    ASSUME NEW S \in SUBSET Nat, S # {}
    PROVE  Min(S) \in S
  BY LeastElement DEF Min

(* What a queue holds. *)
Held(s) == {s[n] : n \in 1..Len(s)}

(* A queue to which something new is appended. *)
LEMMA Appended ==
    ASSUME NEW S, NEW s \in Seq(S), NEW x \in S
    PROVE  /\ Held(Append(s, x)) = Held(s) \cup {x}
           /\ Distinct(s) /\ x \notin Held(s) => Distinct(Append(s, x))
<1>1. /\ Len(Append(s, x)) = Len(s) + 1 /\ Len(s) \in Nat
      /\ \A n \in 1..Len(s) : Append(s, x)[n] = s[n]
      /\ Append(s, x)[Len(s) + 1] = x
  OBVIOUS
<1>2. 1..(Len(s) + 1) = 1..Len(s) \cup {Len(s) + 1}
  BY <1>1
<1>3. QED BY <1>1, <1>2 DEF Held, Distinct

(* A queue from which the first is taken. *)
LEMMA Taken ==
    ASSUME NEW S, NEW s \in Seq(S), s # <<>>, Distinct(s)
    PROVE  /\ Tail(s) \in Seq(S) /\ Len(Tail(s)) = Len(s) - 1
           /\ Head(s) \in Held(s) /\ Held(Tail(s)) = Held(s) \ {Head(s)} /\ Distinct(Tail(s))
<1>1. /\ Tail(s) \in Seq(S) /\ Len(Tail(s)) = Len(s) - 1 /\ Len(s) \in Nat \ {0}
      /\ Head(s) = s[1] /\ \A n \in 1..(Len(s) - 1) : Tail(s)[n] = s[n + 1]
  OBVIOUS
<1>2. Distinct(Tail(s))
  BY <1>1 DEF Distinct
<1>3. Head(s) \in Held(s)
  BY <1>1 DEF Held
<1>4. Held(Tail(s)) \subseteq Held(s) \ {Head(s)}
  <2> SUFFICES ASSUME NEW n \in 1..(Len(s) - 1)
               PROVE  Tail(s)[n] \in Held(s) \ {Head(s)}
    BY <1>1 DEF Held
  <2>1. n + 1 \in 1..Len(s) /\ 1 \in 1..Len(s) /\ n + 1 # 1
    BY <1>1
  <2>2. s[n + 1] # s[1]
    BY <2>1 DEF Distinct
  <2>3. QED BY <1>1, <2>1, <2>2 DEF Held
<1>5. Held(s) \ {Head(s)} \subseteq Held(Tail(s))
  <2> SUFFICES ASSUME NEW n \in 1..Len(s), s[n] # s[1]
               PROVE  s[n] \in Held(Tail(s))
    BY <1>1 DEF Held
  <2>1. n - 1 \in 1..(Len(s) - 1) /\ Tail(s)[n - 1] = s[n]
    BY <1>1
  <2>2. QED BY <1>1, <2>1 DEF Held
<1>6. QED BY <1>1, <1>2, <1>3, <1>4, <1>5
-----------------------------------------------------------------------------
(* Types, in named parts. *)

StageOK ==
    /\ stage \in {"running", "flushing", "stopped"}
    /\ faults \in 0..MaxFaults
    /\ settled \subseteq Items /\ abandoned \subseteq Items
    /\ noticed \subseteq Items \X Webhooks

LoopOK == /\ cursor \in 0..NumItems
          /\ lru \in Seq(Msgs) /\ Len(lru) <= DedupCap

DownloadsOK ==
    /\ waiting \subseteq Items /\ active \subseteq Items /\ telling \subseteq Items
    /\ IsFiniteSet(Holding) /\ Cardinality(Holding) <= Permits

ChannelOK == channel \in Seq(Items) /\ Len(channel) <= ChannelCap

GroupsOK ==
    /\ DOMAIN groups \subseteq Albums
    /\ groups \in [DOMAIN groups -> [items : SUBSET Items, quiet : 0..Window]]
    /\ \A g \in DOMAIN groups : groups[g].items # {}

(* A batch has items, and posts on a webhook it still has to deal with.    *)
BatchOK(b) ==
    /\ b \in Batch /\ b.items # {}
    /\ b.pc # "check" => b.hook \in b.todo

BatchesOK == \A b \in batches : BatchOK(b)

StoreOK == /\ posts \subseteq Post /\ rows \subseteq Row
           /\ old \subseteq Row /\ exposed \subseteq Row

TypeInv == /\ StageOK /\ LoopOK /\ DownloadsOK /\ ChannelOK /\ GroupsOK /\ BatchesOK
           /\ StoreOK

(* The anchor of a batch is the message of one of its items, of one with a *)
(* caption when it has one.                                                *)
LEMMA AnchorIn ==
    ASSUME NEW items \in SUBSET Items, items # {}
    PROVE  /\ Anchor(items) \in MsgsOf(items) /\ Anchor(items) \in Msgs
           /\ items \cap Captioned # {} => Anchor(items) \in MsgsOf(items \cap Captioned)
<1>1. /\ MsgsOf(items) \in SUBSET Nat /\ MsgsOf(items \cap Captioned) \subseteq MsgsOf(items)
      /\ MsgsOf(items) # {} /\ MsgsOf(items) \subseteq Msgs
  BY AlbumAssumption DEF MsgsOf
<1>2. CASE items \cap Captioned # {}
  <2>1. MsgsOf(items \cap Captioned) # {}
    BY <1>2 DEF MsgsOf
  <2>2. Min(MsgsOf(items \cap Captioned)) \in MsgsOf(items \cap Captioned)
    BY <1>1, <2>1, LeastOf
  <2>3. QED BY <1>1, <1>2, <2>2 DEF Anchor
<1>3. CASE items \cap Captioned = {}
  BY <1>1, <1>3, LeastOf DEF Anchor
<1>4. QED BY <1>2, <1>3

(* A batch starts with the webhooks of its items. *)
LEMMA NewBatchOK ==
    ASSUME NEW items \in SUBSET Items, items # {}, NEW inline \in BOOLEAN
    PROVE  /\ BatchOK(NewBatch(items, inline))
           /\ NewBatch(items, inline).items = items
           /\ NewBatch(items, inline).todo = UNION {TargetsOf[i] : i \in items}
           /\ NewBatch(items, inline).pc = "check"
<1>1. UNION {TargetsOf[i] : i \in items} \subseteq Webhooks
  BY AlbumAssumption
<1>2. QED BY <1>1 DEF NewBatch, Batch, BatchOK

(* Batch b after it is done with webhook w, or at work on it. *)
LEMMA NextBatchOK ==
    ASSUME NEW b, BatchOK(b), NEW w \in b.todo
    PROVE  /\ b.todo \ {w} # {} =>
                BatchOK([b EXCEPT !.todo = b.todo \ {w}, !.hook = "none", !.pc = "check"])
           /\ BatchOK([b EXCEPT !.hook = w, !.pc = "post"])
           /\ b.hook \in b.todo => BatchOK([b EXCEPT !.pc = "record"])
<1>1. w \in Webhooks
  BY DEF BatchOK, Batch
<1>2. QED BY <1>1 DEF BatchOK, Batch

(* What a step of a batch does: the batch goes, its items settled, or it   *)
(* is replaced by one of the same items, and nothing before it on the way  *)
(* of an item moves.                                                       *)
Replaced(b, c) == /\ BatchOK(c) /\ c.items = b.items /\ c.todo \subseteq b.todo
                  /\ batches' = (batches \ {b}) \cup {c} /\ settled' = settled
Finished(b) == batches' = batches \ {b} /\ settled' = settled \cup b.items

(* Advance does the one or the other.                                     *)
LEMMA Advances ==
    ASSUME NEW b \in batches, BatchOK(b), NEW w \in b.todo, Advance(b, w)
    PROVE  \/ b.todo \ {w} = {} /\ Finished(b)
           \/ \E c : /\ Replaced(b, c) /\ c.todo = b.todo \ {w} /\ c.pc = "check"
<1> DEFINE c == [b EXCEPT !.todo = b.todo \ {w}, !.hook = "none", !.pc = "check"]
<1>1. /\ b.todo \ {w} # {} => BatchOK(c)
      /\ c.items = b.items /\ c.todo = b.todo \ {w} /\ c.pc = "check"
  BY NextBatchOK DEF BatchOK, Batch
<1>2. CASE b.todo \ {w} = {}
  BY <1>2 DEF Advance, Finished
<1>3. CASE b.todo \ {w} # {}
  <2>1. batches' = (batches \ {b}) \cup {c} /\ settled' = settled
    BY <1>3 DEF Advance
  <2> HIDE DEF c
  <2>2. Replaced(b, c)
    BY <1>1, <1>3, <2>1 DEF Replaced
  <2>3. QED BY <1>1, <2>2
<1>4. QED BY <1>2, <1>3

(* So does a turn to webhook w.                                           *)
LEMMA Turns ==
    ASSUME NEW b \in batches, BatchOK(b), NEW w \in b.todo, Turn(b, w)
    PROVE  \E c : Replaced(b, c) /\ c.todo = b.todo /\ c.pc = "post" /\ c.hook = w
<1> DEFINE c == [b EXCEPT !.hook = w, !.pc = "post"]
<1>1. /\ BatchOK(c) /\ c.items = b.items /\ c.todo = b.todo /\ c.pc = "post" /\ c.hook = w
  BY NextBatchOK DEF BatchOK, Batch
<1>2. batches' = (batches \ {b}) \cup {c} /\ settled' = settled
  BY DEF Turn
<1> HIDE DEF c
<1>3. QED BY <1>1, <1>2 DEF Replaced

(* So does a message that is posted.                                      *)
LEMMA Posts ==
    ASSUME NEW b \in batches, BatchOK(b), PostDelivered(b)
    PROVE  \E c : Replaced(b, c) /\ c.todo = b.todo /\ c.pc = "record" /\ c.hook = b.hook
<1> DEFINE c == [b EXCEPT !.pc = "record"]
<1>1. b.hook \in b.todo
  BY DEF PostDelivered, BatchOK
<1>2. BatchOK(c) /\ c.items = b.items /\ c.todo = b.todo /\ c.pc = "record" /\ c.hook = b.hook
  BY <1>1, NextBatchOK DEF BatchOK, Batch
<1>3. batches' = (batches \ {b}) \cup {c} /\ settled' = settled
  BY DEF PostDelivered, history
<1> HIDE DEF c
<1>4. QED BY <1>2, <1>3 DEF Replaced

(* Each step of a delivery does one of these.                              *)
LEMMA DeliverMoves ==
    ASSUME TypeInv, NEW b \in batches, Deliver(b)
    PROVE  /\ Finished(b) \/ \E c : Replaced(b, c)
           /\ UNCHANGED <<loop, lane, groups, abandoned, old>>
           /\ exposed \subseteq exposed'
<1>1. BatchOK(b)
  BY DEF TypeInv, BatchesOK
<1>2. ASSUME NEW w \in b.todo, Advance(b, w)
      PROVE  Finished(b) \/ \E c : Replaced(b, c)
  BY <1>1, <1>2, Advances
<1>3. ASSUME NEW w \in b.todo, Turn(b, w)
      PROVE  Finished(b) \/ \E c : Replaced(b, c)
  BY <1>1, <1>3, Turns
<1>4. ASSUME NEW w \in Webhooks, CheckStore(b, w) \/ CheckError(b, w)
      PROVE  Finished(b) \/ \E c : Replaced(b, c)
  BY <1>2, <1>3, <1>4 DEF CheckStore, CheckError
<1>5. ASSUME PostDelivered(b)
      PROVE  Finished(b) \/ \E c : Replaced(b, c)
  BY <1>1, <1>5, Posts
<1>6. ASSUME PostDropped(b) \/ RecordRow(b) \/ RecordError(b)
      PROVE  Finished(b) \/ \E c : Replaced(b, c)
  <2>1. b.hook \in b.todo /\ Advance(b, b.hook)
    BY <1>1, <1>6 DEF PostDropped, RecordRow, RecordError, BatchOK
  <2>2. QED BY <1>2, <2>1
<1>7. UNCHANGED <<loop, lane, groups, abandoned, old>> /\ exposed \subseteq exposed'
  BY DEF Deliver, CheckStore, CheckError, PostDelivered, PostDropped, RecordRow, RecordError,
         history
<1>8. Finished(b) \/ \E c : Replaced(b, c)
  BY <1>4, <1>5, <1>6, Zenon DEF Deliver
<1>9. QED BY <1>7, <1>8

(* An item is queued, or its loss is told. *)
LEMMA TrySends ==
    ASSUME ChannelOK, NEW i \in Items, TrySend(i)
    PROVE  /\ ChannelOK'
           /\ \/ channel' = Append(channel, i) /\ telling' = telling
              \/ channel' = channel /\ telling' = telling \cup {i}
<1>1. CASE Len(channel) < ChannelCap
  <2>1. channel' = Append(channel, i) /\ telling' = telling
    BY <1>1 DEF TrySend
  <2>2. ChannelOK'
    BY <1>1, <2>1, AlbumAssumption DEF ChannelOK
  <2>3. QED BY <2>1, <2>2
<1>2. CASE ~(Len(channel) < ChannelCap)
  BY <1>2 DEF TrySend, ChannelOK
<1>3. QED BY <1>1, <1>2

(* The groups of E are released as batches. *)
Released(E, inline) ==
    /\ E \subseteq DOMAIN groups
    /\ Flush({NewBatch(groups[g].items, inline) : g \in E})
    /\ groups' = [g \in DOMAIN groups \ E |-> groups[g]]

(* What is exposed at that are anchors and webhooks.                       *)
LEMMA FlushTypes ==
    ASSUME NEW new, Flush(new), exposed \subseteq Row
    PROVE  exposed' \subseteq Row /\ exposed \subseteq exposed' /\ batches' = batches \cup new
  BY DEF Flush, Colliding

(* They become batches with items.                                        *)
LEMMA ReleaseTypes ==
    ASSUME GroupsOK, BatchesOK, NEW E, NEW inline \in BOOLEAN, Released(E, inline)
    PROVE  GroupsOK' /\ BatchesOK'
<1>1. \A g \in E : groups[g].items \in SUBSET Items /\ groups[g].items # {}
  BY DEF GroupsOK, Released
<1>2. \A g \in E : BatchOK(NewBatch(groups[g].items, inline))
  BY <1>1, NewBatchOK
<1>3. BatchesOK'
  BY <1>2 DEF BatchesOK, Released, Flush, BatchOK
<1>4. GroupsOK'
  BY DEF GroupsOK, Released
<1>5. QED BY <1>3, <1>4

(* media_tick releases the expired groups, a signal all of them. *)
LEMMA Releases ==
    /\ AlbumTick => Released(Expired, FALSE)
    /\ Signal => Released(DOMAIN groups, TRUE)
<1>1. AlbumTick => Released(Expired, FALSE)
  BY DEF AlbumTick, Expired, Released
<1>2. Empty = [g \in DOMAIN groups \ DOMAIN groups |-> groups[g]]
  BY DEF Empty
<1>3. Signal => Released(DOMAIN groups, TRUE)
  BY <1>2 DEF Signal, Released
<1>4. QED BY <1>1, <1>3

(* Trouble is counted. *)
LEMMA Strikes ==
    ASSUME StageOK, Strike \/ UNCHANGED faults
    PROVE  faults' \in 0..MaxFaults
  BY AlbumAssumption DEF StageOK, Strike

(* A permit given back does no harm. *)
LEMMA FewerHold ==
    ASSUME NEW H, NEW K \in SUBSET H, IsFiniteSet(H), Cardinality(H) <= Permits
    PROVE  IsFiniteSet(K) /\ Cardinality(K) <= Permits
<1>1. IsFiniteSet(K) /\ Cardinality(K) <= Cardinality(H)
      /\ Cardinality(K) \in Nat /\ Cardinality(H) \in Nat
  BY FS_Subset, FS_CardinalityType
<1>2. QED BY <1>1, AlbumAssumption

(* Nor does one that is taken when some are left. *)
LEMMA OneMoreHolds ==
    ASSUME NEW H, NEW x, IsFiniteSet(H), Cardinality(H) < Permits
    PROVE  IsFiniteSet(H \cup {x}) /\ Cardinality(H \cup {x}) <= Permits
<1>1. IsFiniteSet(H \cup {x}) /\ Cardinality(H) \in Nat
  BY FS_AddElement, FS_CardinalityType
<1>2. \/ Cardinality(H \cup {x}) = Cardinality(H)
      \/ Cardinality(H \cup {x}) = Cardinality(H) + 1
  BY FS_AddElement
<1>3. QED BY <1>1, <1>2, AlbumAssumption

(* A media update is handled. *)
LEMMA HandleTypes ==
    ASSUME TypeInv, HandleMedia
    PROVE  TypeInv'
<1> USE AlbumAssumption
<1> DEFINE i == cursor + 1
<1>1. i \in Items /\ cursor' = i /\ cursor' \in 0..NumItems /\ MsgOf[i] \in Msgs
  BY DEF HandleMedia, TypeInv, LoopOK, Items
<1>2. LoopOK'
  <2>1. lru' = Touch(lru, MsgOf[i], DedupCap)
    BY DEF HandleMedia
  <2>2. Touch(lru, MsgOf[i], DedupCap) \in Seq(Msgs) /\ Len(Touch(lru, MsgOf[i], DedupCap)) <= DedupCap
    BY <1>1, TouchType DEF TypeInv, LoopOK
  <2>3. QED BY <1>1, <2>1, <2>2 DEF LoopOK
<1>3. /\ \/ waiting' \in {waiting, waiting \cup {i}} /\ UNCHANGED <<channel, telling>>
         \/ ~Wanted(i) /\ TrySend(i) /\ waiting' = waiting
      /\ UNCHANGED <<stage, active, groups, batches, posts, rows, noticed, settled, abandoned,
                     old, exposed, faults>>
  BY DEF HandleMedia, history, discord
<1> HIDE DEF i
<1>4. ChannelOK' /\ (telling' = telling \/ (telling' = telling \cup {i} /\ ~Wanted(i)))
  BY <1>1, <1>3, TrySends DEF TypeInv, ChannelOK
<1>5. Holding' = Holding
  BY <1>3, <1>4 DEF Holding, Wanted
<1>6. DownloadsOK'
  BY <1>1, <1>3, <1>4, <1>5 DEF TypeInv, DownloadsOK
<1>7. StageOK' /\ GroupsOK' /\ BatchesOK' /\ StoreOK'
  BY <1>3 DEF TypeInv, StageOK, GroupsOK, BatchesOK, StoreOK
<1>8. QED BY <1>2, <1>4, <1>6, <1>7 DEF TypeInv

(* A download starts and ends, and a loss is told. *)
LEMMA DownloadTypes ==
    ASSUME TypeInv, NEW i \in Items,
           StartDownload(i) \/ DownloadDone(i) \/ DownloadFails(i) \/ Told(i)
    PROVE  TypeInv'
<1> USE AlbumAssumption
<1>0. IsFiniteSet(Holding) /\ Cardinality(Holding) <= Permits
  BY DEF TypeInv, DownloadsOK
<1>1. CASE StartDownload(i)
  <2>1. Holding' = Holding \cup {i} /\ Cardinality(Holding) < Permits
    BY <1>1 DEF StartDownload, lane, Holding, Wanted
  <2>2. IsFiniteSet(Holding') /\ Cardinality(Holding') <= Permits
    BY <1>0, <2>1, OneMoreHolds
  <2>3. DownloadsOK'
    BY <1>1, <2>2 DEF StartDownload, TypeInv, DownloadsOK
  <2>4. StageOK' /\ LoopOK' /\ ChannelOK' /\ GroupsOK' /\ BatchesOK' /\ StoreOK'
    BY <1>1 DEF StartDownload, loop, history, discord, TypeInv, StageOK, LoopOK, ChannelOK,
                GroupsOK, BatchesOK, StoreOK
  <2>5. QED BY <2>3, <2>4 DEF TypeInv
<1>2. CASE DownloadDone(i) \/ DownloadFails(i)
  <2>1. /\ i \in active /\ active' = active \ {i} /\ waiting' = waiting
        /\ ChannelOK' /\ telling' \in {telling, telling \cup {i}}
    BY <1>2, TrySends DEF DownloadDone, DownloadFails, TypeInv, ChannelOK
  <2>2. Holding' \subseteq Holding
    BY <2>1 DEF Holding, Wanted
  <2>3. IsFiniteSet(Holding') /\ Cardinality(Holding') <= Permits
    BY <1>0, <2>2, FewerHold
  <2>4. DownloadsOK'
    BY <2>1, <2>3 DEF TypeInv, DownloadsOK
  <2>5. faults' \in 0..MaxFaults
    BY <1>2, Strikes DEF DownloadDone, DownloadFails, TypeInv
  <2>6. StageOK' /\ LoopOK' /\ GroupsOK' /\ BatchesOK' /\ StoreOK'
    BY <1>2, <2>5 DEF DownloadDone, DownloadFails, loop, history, discord, TypeInv, StageOK,
                      LoopOK, GroupsOK, BatchesOK, StoreOK
  <2>7. QED BY <2>1, <2>4, <2>6 DEF TypeInv
<1>3. CASE Told(i)
  <2>1. /\ telling' = telling \ {i} /\ active' = active /\ waiting' = waiting
        /\ noticed' = noticed \cup {<<i, w>> : w \in TargetsOf[i]} /\ settled' = settled \cup {i}
    BY <1>3 DEF Told
  <2>2. Holding' \subseteq Holding
    BY <2>1 DEF Holding, Wanted
  <2>3. IsFiniteSet(Holding') /\ Cardinality(Holding') <= Permits
    BY <1>0, <2>2, FewerHold
  <2>4. DownloadsOK'
    BY <2>1, <2>3 DEF TypeInv, DownloadsOK
  <2>5. TargetsOf[i] \subseteq Webhooks
    OBVIOUS
  <2>6. StageOK'
    BY <1>3, <2>1, <2>5 DEF Told, loop, TypeInv, StageOK
  <2>7. LoopOK' /\ ChannelOK' /\ GroupsOK' /\ BatchesOK' /\ StoreOK'
    BY <1>3 DEF Told, loop, discord, TypeInv, LoopOK, ChannelOK, GroupsOK, BatchesOK, StoreOK
  <2>8. QED BY <2>4, <2>6, <2>7 DEF TypeInv
<1>4. QED BY <1>1, <1>2, <1>3

(* An item leaves the channel for the buffer, or, alone, for a batch. *)
LEMMA ReceiveTypes ==
    ASSUME TypeInv, Receive
    PROVE  TypeInv'
<1> USE AlbumAssumption
<1> DEFINE i == Head(channel)
           g == GroupOf[MsgOf[i]]
           held == IF g \in DOMAIN groups THEN groups[g].items ELSE {}
<1>1. i \in Items /\ channel' \in Seq(Items) /\ Len(channel') <= ChannelCap
  <2>1. channel \in Seq(Items) /\ channel # <<>> /\ channel' = Tail(channel) /\ Len(channel) <= ChannelCap
    BY DEF Receive, TypeInv, ChannelOK
  <2>2. Len(Tail(channel)) = Len(channel) - 1 /\ Tail(channel) \in Seq(Items) /\ Head(channel) \in Items
    BY <2>1
  <2>3. QED BY <2>1, <2>2
<1>2. ChannelOK'
  BY <1>1 DEF ChannelOK
<1>3. GroupsOK' /\ BatchesOK' /\ exposed' \subseteq Row
  <2>1. CASE g = NoGroup
    <3>1. Flush({NewBatch({i}, FALSE)}) /\ UNCHANGED groups
      BY <2>1 DEF Receive
    <3>2. BatchOK(NewBatch({i}, FALSE))
      BY <1>1, NewBatchOK
    <3> HIDE DEF i
    <3>3. batches' = batches \cup {NewBatch({i}, FALSE)} /\ exposed' \subseteq Row
      BY <3>1, FlushTypes DEF TypeInv, StoreOK
    <3>4. QED BY <3>1, <3>2, <3>3 DEF TypeInv, GroupsOK, BatchesOK, BatchOK
  <2>2. CASE g # NoGroup
    <3>1. /\ groups' = [q \in DOMAIN groups \cup {g} |->
                         IF q = g THEN [items |-> held \cup {i}, quiet |-> 0] ELSE groups[q]]
          /\ UNCHANGED <<batches, exposed>>
      BY <2>2 DEF Receive
    <3>2. g \in Albums /\ held \subseteq Items /\ 0 \in 0..Window
      BY <1>1, <2>2 DEF Albums, TypeInv, GroupsOK
    <3>3. [items |-> held \cup {i}, quiet |-> 0] \in [items : SUBSET Items, quiet : 0..Window]
      BY <1>1, <3>2
    <3> HIDE DEF g, held, i
    <3>4. GroupsOK'
      BY <3>1, <3>2, <3>3 DEF TypeInv, GroupsOK
    <3>5. QED BY <3>1, <3>4 DEF TypeInv, BatchesOK, StoreOK
  <2>3. QED BY <2>1, <2>2
<1>4. StageOK' /\ LoopOK' /\ DownloadsOK'
  BY DEF Receive, loop, history, TypeInv, StageOK, LoopOK, DownloadsOK, Holding, Wanted
<1>5. StoreOK'
  BY <1>3 DEF Receive, discord, history, TypeInv, StoreOK
<1>6. QED BY <1>2, <1>3, <1>4, <1>5 DEF TypeInv

(* A batch checks the store, posts, records, or fails at one of them. *)
LEMMA DeliverTypes ==
    ASSUME TypeInv, NEW b \in batches, Deliver(b)
    PROVE  TypeInv'
<1> USE AlbumAssumption
<1>1. BatchOK(b) /\ b.items \subseteq Items /\ b.items # {} /\ Anchor(b.items) \in Msgs
  BY AnchorIn DEF TypeInv, BatchesOK, BatchOK, Batch
<1>2. BatchesOK' /\ settled' \subseteq Items
  BY <1>1, DeliverMoves DEF TypeInv, BatchesOK, StageOK, BatchOK, Replaced, Finished
<1>3. faults' \in 0..MaxFaults
  BY Strikes DEF Deliver, CheckStore, CheckError, PostDelivered, PostDropped, RecordRow,
                 RecordError, TypeInv
<1>4. b.pc # "check" => b.hook \in Webhooks
  BY <1>1 DEF BatchOK, Batch
<1>5. noticed' \subseteq Items \X Webhooks
  <2>1. CASE PostDropped(b)
    <3>1. noticed' = noticed \cup {<<i, b.hook>> : i \in b.items} /\ b.hook \in Webhooks
      BY <1>4, <2>1 DEF PostDropped
    <3>2. QED BY <1>1, <3>1 DEF TypeInv, StageOK
  <2>2. CASE ~PostDropped(b)
    BY <2>2 DEF Deliver, CheckStore, CheckError, PostDelivered, RecordRow, RecordError, history,
                TypeInv, StageOK
  <2>3. QED BY <2>1, <2>2
<1>6. posts' \subseteq Post
  <2>1. CASE PostDelivered(b)
    <3>1. FilesFor(b.items, b.hook) \subseteq Msgs
      BY <1>1 DEF FilesFor, MsgsOf
    <3>2. b.hook \in Webhooks
      BY <1>4, <2>1 DEF PostDelivered
    <3>3. [hook |-> b.hook, anchor |-> Anchor(b.items), items |-> b.items,
           files |-> FilesFor(b.items, b.hook)] \in Post
      BY <1>1, <3>1, <3>2 DEF Post
    <3>4. QED BY <2>1, <3>3 DEF PostDelivered, TypeInv, StoreOK
  <2>2. CASE ~PostDelivered(b)
    BY <2>2 DEF Deliver, CheckStore, CheckError, PostDropped, RecordRow, RecordError, discord,
                TypeInv, StoreOK
  <2>3. QED BY <2>1, <2>2
<1>7. rows' \subseteq Row /\ exposed' \subseteq Row
  <2>1. CASE RecordRow(b)
    <3>1. rows' = rows \cup {<<Anchor(b.items), b.hook>>} /\ b.hook \in Webhooks /\ exposed' = exposed
      BY <1>4, <2>1 DEF RecordRow
    <3>2. QED BY <1>1, <3>1 DEF TypeInv, StoreOK, Row
  <2>2. CASE RecordError(b)
    <3>1. rows' = rows /\ exposed' = exposed \cup {<<Anchor(b.items), b.hook>>} /\ b.hook \in Webhooks
      BY <1>4, <2>2 DEF RecordError, discord
    <3>2. QED BY <1>1, <3>1 DEF TypeInv, StoreOK, Row
  <2>3. ASSUME NEW w \in Webhooks, CheckError(b, w)
        PROVE  rows' \subseteq Row /\ exposed' \subseteq Row
    <3>1. rows' = rows /\ exposed' = exposed \cup {<<Anchor(b.items), w>>}
      BY <2>3 DEF CheckError, discord
    <3>2. QED BY <1>1, <2>3, <3>1 DEF TypeInv, StoreOK, Row
  <2>4. ASSUME NEW w \in Webhooks, CheckStore(b, w)
        PROVE  rows' \subseteq Row /\ exposed' \subseteq Row
    BY <2>4 DEF CheckStore, discord, TypeInv, StoreOK
  <2>5. CASE PostDelivered(b) \/ PostDropped(b)
    BY <2>5 DEF PostDelivered, PostDropped, discord, TypeInv, StoreOK
  <2>6. QED BY <2>1, <2>2, <2>3, <2>4, <2>5 DEF Deliver
<1>8. LoopOK' /\ DownloadsOK' /\ ChannelOK' /\ GroupsOK'
  BY DeliverMoves DEF loop, lane, TypeInv, LoopOK, DownloadsOK, ChannelOK, GroupsOK, Holding,
                      Wanted
<1>9. StageOK' /\ StoreOK'
  BY <1>2, <1>3, <1>5, <1>6, <1>7, DeliverMoves DEF loop, TypeInv, StageOK, StoreOK
<1>10. QED BY <1>2, <1>8, <1>9 DEF TypeInv

(* A stop leaves nothing on its way. *)
LEMMA ExitTypes ==
    ASSUME TypeInv, Exit
    PROVE  TypeInv'
<1> USE AlbumAssumption
<1>1. abandoned' \subseteq Items
  <2>1. InChannel \subseteq Items
    BY DEF TypeInv, ChannelOK, InChannel
  <2>2. Buffered \subseteq Items
    BY DEF TypeInv, GroupsOK, Buffered
  <2>3. Batched \subseteq Items
    BY DEF TypeInv, BatchesOK, BatchOK, Batch, Batched
  <2>4. QED BY <2>1, <2>2, <2>3 DEF Exit, TypeInv, DownloadsOK
<1>2. IsFiniteSet({}) /\ Cardinality({}) = 0
  BY FS_EmptySet
<1>3. DownloadsOK'
  <2>1. waiting' = {} /\ active' = {} /\ telling' = {}
    BY DEF Exit
  <2>2. Holding' = {}
    BY <2>1 DEF Holding
  <2>3. QED BY <1>2, <2>1, <2>2 DEF DownloadsOK
<1>4. GroupsOK' /\ BatchesOK' /\ ChannelOK'
  BY DEF Exit, GroupsOK, BatchesOK, ChannelOK, Empty
<1>5. StageOK' /\ LoopOK' /\ StoreOK'
  BY <1>1 DEF Exit, TypeInv, StageOK, LoopOK, StoreOK, discord
<1>6. QED BY <1>3, <1>4, <1>5 DEF TypeInv

(* They hold always. *)
LEMMA TypesHold == Spec => []TypeInv
<1> USE AlbumAssumption
<1>1. Init => TypeInv
  <2> SUFFICES ASSUME Init
               PROVE  TypeInv
    OBVIOUS
  <2>1. IsFiniteSet({}) /\ Cardinality({}) = 0
    BY FS_EmptySet
  <2>2. DownloadsOK
    <3>1. Holding = {}
      BY DEF Init, Holding
    <3>2. QED BY <2>1, <3>1 DEF Init, DownloadsOK
  <2>3. StageOK /\ LoopOK /\ ChannelOK /\ GroupsOK /\ BatchesOK
    BY DEF Init, StageOK, LoopOK, ChannelOK, GroupsOK, BatchesOK, Empty
  <2>4. StoreOK
    BY DEF Init, StoreOK, Row
  <2>5. QED BY <2>2, <2>3, <2>4 DEF TypeInv
<1>2. ASSUME TypeInv, [Next]_vars
      PROVE  TypeInv'
  <2>1. CASE Elapse
    <3>1. GroupsOK'
      <4>1. \A g \in DOMAIN groups :
               /\ (IF groups[g].quiet < Window THEN [groups[g] EXCEPT !.quiet = @ + 1] ELSE groups[g])
                     \in [items : SUBSET Items, quiet : 0..Window]
               /\ (IF groups[g].quiet < Window THEN [groups[g] EXCEPT !.quiet = @ + 1] ELSE groups[g]).items
                     = groups[g].items
        BY <1>2 DEF TypeInv, GroupsOK
      <4>2. QED BY <1>2, <2>1, <4>1 DEF Elapse, TypeInv, GroupsOK
    <3>2. StageOK' /\ LoopOK' /\ ChannelOK' /\ BatchesOK' /\ StoreOK'
      BY <1>2, <2>1 DEF Elapse, loop, lane, discord, history, TypeInv, StageOK, LoopOK, ChannelOK,
                        BatchesOK, StoreOK
    <3>3. DownloadsOK'
      BY <1>2, <2>1 DEF Elapse, lane, TypeInv, DownloadsOK, Holding, Wanted
    <3>4. QED BY <3>1, <3>2, <3>3 DEF TypeInv
  <2>2. CASE AlbumTick \/ Signal
    <3>1. GroupsOK' /\ BatchesOK'
      BY <1>2, <2>2, Releases, ReleaseTypes DEF TypeInv
    <3>2. exposed' \subseteq Row
      <4>1. \E new : Flush(new)
        BY <2>2 DEF AlbumTick, Signal
      <4>2. QED BY <1>2, <4>1, FlushTypes DEF TypeInv, StoreOK
    <3>3. StageOK' /\ LoopOK' /\ ChannelOK' /\ StoreOK'
      BY <1>2, <2>2, <3>2 DEF AlbumTick, Signal, loop, lane, discord, history, TypeInv, StageOK,
                              LoopOK, ChannelOK, StoreOK
    <3>4. DownloadsOK'
      BY <1>2, <2>2 DEF AlbumTick, Signal, lane, TypeInv, DownloadsOK, Holding, Wanted
    <3>5. QED BY <3>1, <3>3, <3>4 DEF TypeInv
  <2>3. ASSUME NEW r \in rows, Prune(r)
        PROVE  TypeInv'
    <3>1. faults' \in 0..MaxFaults
      BY <1>2, <2>3, Strikes DEF Prune, TypeInv
    <3>2. StageOK' /\ LoopOK' /\ ChannelOK' /\ GroupsOK' /\ BatchesOK'
      BY <1>2, <2>3, <3>1 DEF Prune, loop, lane, history, TypeInv, StageOK, LoopOK, ChannelOK,
                              GroupsOK, BatchesOK
    <3>3. DownloadsOK'
      BY <1>2, <2>3 DEF Prune, lane, TypeInv, DownloadsOK, Holding, Wanted
    <3>4. StoreOK'
      BY <1>2, <2>3 DEF Prune, history, TypeInv, StoreOK
    <3>5. QED BY <3>2, <3>3, <3>4 DEF TypeInv
  <2>4. CASE UNCHANGED vars
    BY <1>2, <2>4 DEF vars, TypeInv, StageOK, LoopOK, DownloadsOK, ChannelOK, GroupsOK, BatchesOK,
                      StoreOK, Holding, Wanted
  <2>5. QED BY <1>2, <2>1, <2>2, <2>3, <2>4, HandleTypes, DownloadTypes, ReceiveTypes,
              DeliverTypes, ExitTypes
           DEF Next
<1>3. QED BY <1>1, <1>2, PTL DEF Spec

(* Permits are held by no more than Permits tasks, drop notices included,  *)
(* the channel and the LRU stay within their capacity, and no batch is     *)
(* without items (handle_update, AlbumBuffer).                             *)
THEOREM TypeCorrect == Spec => []TypeOK
<1>1. TypeInv => TypeOK
  <2> SUFFICES ASSUME TypeInv
               PROVE  TypeOK
    OBVIOUS
  <2>1. \A g \in DOMAIN groups :
           groups[g].items \in (SUBSET Items) \ {{}} /\ groups[g].quiet \in 0..Window
    BY DEF TypeInv, GroupsOK
  <2>2. batches \subseteq Batch
    BY DEF TypeInv, BatchesOK, BatchOK
  <2>3. QED BY <2>1, <2>2 DEF TypeInv, TypeOK, StageOK, LoopOK, DownloadsOK, ChannelOK, GroupsOK,
                             StoreOK
<1>2. QED BY <1>1, TypesHold, PTL
-----------------------------------------------------------------------------
(* What the LRU recalls. *)

LruInv ==
    /\ Distinct(lru) /\ Recalls(lru, MsgOf, cursor)
    /\ \A k \in 1..cursor : Retained(lru, Burst(MsgOf, k, cursor), DedupCap)

(* The LRU keeps what it heard of last.                                    *)
LEMMA LruStep ==
    ASSUME TypeInv, LruInv, HandleMedia
    PROVE  LruInv'
<1> USE AlbumAssumption
<1>1. /\ cursor \in Nat /\ cursor' = cursor + 1 /\ MsgOf[cursor + 1] \in Msgs
      /\ lru' = Touch(lru, MsgOf[cursor + 1], DedupCap)
      /\ lru \in Seq(Msgs) /\ Len(lru) <= DedupCap /\ DedupCap \in Nat \ {0}
  BY DEF HandleMedia, TypeInv, LoopOK, Items
<1>2. Recalls(Touch(lru, MsgOf[cursor + 1], DedupCap), MsgOf, cursor + 1)
  BY <1>1, RecallsOn DEF LruInv
<1>3. ASSUME NEW k \in 1..(cursor + 1)
      PROVE  /\ Retained(Touch(lru, MsgOf[cursor + 1], DedupCap), Burst(MsgOf, k, cursor + 1), DedupCap)
             /\ Distinct(Touch(lru, MsgOf[cursor + 1], DedupCap))
  <2>1. k <= cursor => k \in 1..cursor
    BY <1>1
  <2>2. k <= cursor => Retained(lru, Burst(MsgOf, k, cursor), DedupCap)
    BY <2>1 DEF LruInv
  <2>3. Distinct(lru)
    BY DEF LruInv
  <2>4. QED BY <1>1, <2>2, <2>3, RetainedOn
<1>4. cursor + 1 \in 1..(cursor + 1)
  BY <1>1
<1>5. Distinct(lru')
  BY <1>1, <1>3, <1>4
<1>6. \A k \in 1..cursor' : Retained(lru', Burst(MsgOf, k, cursor'), DedupCap)
  BY <1>1, <1>3
<1>7. Recalls(lru', MsgOf, cursor')
  BY <1>1, <1>2
<1>8. QED BY <1>5, <1>6, <1>7 DEF LruInv

(* It holds always. *)
LEMMA LruHolds == Spec => []LruInv
<1>1. Init => LruInv
  BY DEF Init, LruInv, Distinct, Recalls
<1>2. ASSUME TypeInv, LruInv, [Next]_vars
      PROVE  LruInv'
  <2>1. CASE HandleMedia
    BY <1>2, <2>1, LruStep
  <2>2. CASE UNCHANGED <<cursor, lru>>
    BY <1>2, <2>2 DEF LruInv
  <2>3. ASSUME NEW b \in batches, Deliver(b)
        PROVE  UNCHANGED <<cursor, lru>>
    BY <1>2, <2>3, DeliverMoves DEF loop
  <2>4. ASSUME NEW i \in Items,
               StartDownload(i) \/ DownloadDone(i) \/ DownloadFails(i) \/ Told(i)
        PROVE  UNCHANGED <<cursor, lru>>
    BY <2>4 DEF StartDownload, DownloadDone, DownloadFails, Told, loop
  <2>5. CASE Receive \/ Elapse \/ AlbumTick \/ Signal \/ Exit \/ UNCHANGED vars
    BY <2>2, <2>5 DEF Receive, Elapse, AlbumTick, Signal, Exit, loop, vars
  <2>6. ASSUME NEW r \in rows, Prune(r)
        PROVE  UNCHANGED <<cursor, lru>>
    BY <2>6 DEF Prune, loop
  <2>7. QED BY <1>2, <2>1, <2>2, <2>3, <2>4, <2>5, <2>6 DEF Next
<1>3. QED BY <1>1, <1>2, TypesHold, PTL DEF Spec

(* What the loop takes for fresh is what is owed.                          *)
LEMMA FreshIsOwed ==
    ASSUME TypeInv, LruInv, HandleMedia
    PROVE  /\ Fresh(cursor + 1) => Owed' = Owed \cup {cursor + 1}
           /\ ~Fresh(cursor + 1) => Owed' = Owed
<1> USE AlbumAssumption
<1> DEFINE i == cursor + 1
<1>1. cursor \in Nat /\ cursor' = i /\ i - 1 = cursor
  BY DEF HandleMedia, TypeInv, LoopOK
<1>2. /\ lru \in Seq(Msgs) /\ Len(lru) <= DedupCap /\ DedupCap \in Nat \ {0} /\ Len(lru) \in Nat
      /\ Distinct(lru) /\ Recalls(lru, MsgOf, cursor)
  BY DEF TypeInv, LoopOK, LruInv
<1>3. Seen(lru, MsgOf[i]) => ~News(MsgOf, i, DedupCap)
  BY <1>1, <1>2, SeenIsNoNews
<1>4. ~Seen(lru, MsgOf[i]) => News(MsgOf, i, DedupCap)
  <2> SUFFICES ASSUME ~Seen(lru, MsgOf[i]), NEW k \in 1..(i - 1), MsgOf[k] = MsgOf[i]
               PROVE  Cardinality(Burst(MsgOf, k, i - 1)) > DedupCap
    BY DEF News
  <2>1. k \in 1..cursor
    BY <1>1
  <2>2. Retained(lru, Burst(MsgOf, k, cursor), DedupCap)
    BY <2>1 DEF LruInv
  <2>3. Cardinality(Burst(MsgOf, k, cursor)) > DedupCap
    BY <1>1, <1>2, <2>1, <2>2, UnseenIsNews
  <2>4. QED BY <1>1, <2>3
<1>5. 1..cursor' = 1..cursor \cup {i}
  BY <1>1
<1>6. Owed' = {k \in 1..cursor' : TargetsOf[k] # {} /\ News(MsgOf, k, DedupCap)}
  BY DEF Owed
<1> HIDE DEF i
<1>7. Fresh(i) <=> TargetsOf[i] # {} /\ News(MsgOf, i, DedupCap)
  BY <1>3, <1>4 DEF Fresh
<1>8. /\ Fresh(i) => Owed' = Owed \cup {i}
      /\ ~Fresh(i) => Owed' = Owed
  BY <1>5, <1>6, <1>7 DEF Owed
<1>9. QED BY <1>8 DEF i
-----------------------------------------------------------------------------
(* Where an item is. *)

(* The places apart, each from all that come after it. *)
Apart ==
    /\ waiting \cap (active \cup telling \cup InChannel \cup Buffered \cup Batched \cup settled \cup abandoned) = {}
    /\ active \cap (telling \cup InChannel \cup Buffered \cup Batched \cup settled \cup abandoned) = {}
    /\ telling \cap (InChannel \cup Buffered \cup Batched \cup settled \cup abandoned) = {}
    /\ InChannel \cap (Buffered \cup Batched \cup settled \cup abandoned) = {}
    /\ Buffered \cap (Batched \cup settled \cup abandoned) = {}
    /\ Batched \cap (settled \cup abandoned) = {}
    /\ settled \cap abandoned = {}

Somewhere == waiting \cup active \cup telling \cup InChannel \cup Buffered \cup Batched
                \cup settled \cup abandoned

(* What is owed is somewhere, and nothing else is. *)
Covered == Somewhere = Owed

(* The batches are apart from each other, and the groups from each other;  *)
(* siblings stay with siblings.                                            *)
BatchesApart == \A b, c \in batches : b.items \cap c.items # {} => b = c
OwnGroup     == \A g \in DOMAIN groups : \A i \in groups[g].items : GroupOf[MsgOf[i]] = g
Relatives    == \A b \in batches : \A i, k \in b.items : Kin(MsgOf[i], MsgOf[k])

(* Nothing is abandoned before the process stops. *)
NoneYet == stage # "stopped" => abandoned = {}

PlaceInv == /\ Apart /\ Covered /\ Distinct(channel) /\ BatchesApart /\ OwnGroup /\ Relatives
            /\ NoneYet

(* A new item goes to wait, to the channel, or to be told. *)
LEMMA HandlePlaces ==
    ASSUME TypeInv, LruInv, PlaceInv, HandleMedia
    PROVE  PlaceInv'
<1> DEFINE i == cursor + 1
<1>1. UNCHANGED <<stage, active, groups, batches, settled, abandoned>>
  BY DEF HandleMedia, history
<1>2. i \in Items /\ i \notin Somewhere
  <2>1. i \in Items /\ i \notin 1..cursor
    BY AlbumAssumption DEF HandleMedia, TypeInv, LoopOK, Items
  <2>2. QED BY <2>1 DEF PlaceInv, Covered, Owed
<1>3. Buffered' = Buffered /\ Batched' = Batched
  BY <1>1 DEF Buffered, Batched
<1>4. InChannel = Held(channel) /\ InChannel' = Held(channel')
  BY DEF InChannel, Held
<1>5. BatchesApart' /\ OwnGroup' /\ Relatives' /\ NoneYet'
  BY <1>1 DEF PlaceInv, BatchesApart, OwnGroup, Relatives, NoneYet
<1>6. /\ Fresh(i) => Owed' = Owed \cup {i}
      /\ ~Fresh(i) => Owed' = Owed
  BY FreshIsOwed
<1>7. /\ ~Fresh(i) => UNCHANGED <<waiting, channel, telling>>
      /\ Fresh(i) => \/ waiting' = waiting \cup {i} /\ UNCHANGED <<channel, telling>>
                     \/ waiting' = waiting /\ TrySend(i)
  BY DEF HandleMedia
<1> HIDE DEF i
<1>8. CASE ~Fresh(i)
  <2>1. InChannel' = InChannel /\ Distinct(channel)'
    BY <1>4, <1>7, <1>8 DEF PlaceInv, Distinct
  <2>2. Apart'
    BY <1>1, <1>3, <1>7, <1>8, <2>1 DEF PlaceInv, Apart
  <2>3. Somewhere' = Somewhere
    BY <1>1, <1>3, <1>7, <1>8, <2>1 DEF Somewhere
  <2>4. Covered'
    BY <1>6, <1>8, <2>3 DEF PlaceInv, Covered
  <2>5. QED BY <1>5, <2>1, <2>2, <2>4 DEF PlaceInv
<1>9. CASE Fresh(i)
  <2>1. \/ waiting' = waiting \cup {i} /\ UNCHANGED <<channel, telling>>
        \/ waiting' = waiting /\ channel' = Append(channel, i) /\ telling' = telling
        \/ waiting' = waiting /\ channel' = channel /\ telling' = telling \cup {i}
    BY <1>2, <1>7, <1>9, TrySends DEF TypeInv
  <2>2. /\ Held(Append(channel, i)) = InChannel \cup {i}
        /\ i \notin InChannel => Distinct(Append(channel, i))
    BY <1>2, <1>4, Appended DEF TypeInv, ChannelOK, PlaceInv
  <2>3. Distinct(channel)'
    BY <1>2, <2>1, <2>2 DEF Somewhere, PlaceInv, Distinct
  <2>4. \/ waiting' = waiting \cup {i} /\ UNCHANGED <<InChannel, telling>>
        \/ waiting' = waiting /\ InChannel' = InChannel \cup {i} /\ telling' = telling
        \/ waiting' = waiting /\ InChannel' = InChannel /\ telling' = telling \cup {i}
    BY <1>4, <2>1, <2>2
  <2>5. Apart'
    BY <1>1, <1>2, <1>3, <2>4 DEF PlaceInv, Apart, Somewhere
  <2>6. Somewhere' = Somewhere \cup {i}
    BY <1>1, <1>3, <2>4 DEF Somewhere
  <2>7. Covered'
    BY <1>6, <1>9, <2>6 DEF PlaceInv, Covered
  <2>8. QED BY <1>5, <2>3, <2>5, <2>7 DEF PlaceInv
<1>10. QED BY <1>8, <1>9

(* A download starts, and ends in the channel or in a loss, which is told. *)
LEMMA DownloadPlaces ==
    ASSUME TypeInv, PlaceInv, NEW i \in Items,
           StartDownload(i) \/ DownloadDone(i) \/ DownloadFails(i) \/ Told(i)
    PROVE  PlaceInv'
<1>1. UNCHANGED <<stage, cursor, groups, batches, abandoned>>
  BY DEF StartDownload, DownloadDone, DownloadFails, Told, loop, history
<1>2. Buffered' = Buffered /\ Batched' = Batched
  BY <1>1 DEF Buffered, Batched
<1>3. InChannel = Held(channel) /\ InChannel' = Held(channel')
  BY DEF InChannel, Held
<1>4. /\ Held(Append(channel, i)) = InChannel \cup {i}
      /\ i \notin InChannel => Distinct(Append(channel, i))
  BY <1>3, Appended DEF TypeInv, ChannelOK, PlaceInv
<1>5. \/ /\ i \in waiting /\ waiting' = waiting \ {i} /\ active' = active \cup {i}
         /\ UNCHANGED <<telling, channel, settled>>
      \/ /\ i \in active /\ active' = active \ {i} /\ waiting' = waiting
         /\ channel' = Append(channel, i) /\ UNCHANGED <<telling, settled>>
      \/ /\ i \in active /\ active' = active \ {i} /\ waiting' = waiting
         /\ channel' = channel /\ telling' = telling \cup {i} /\ settled' = settled
      \/ /\ i \in telling /\ telling' = telling \ {i} /\ settled' = settled \cup {i}
         /\ UNCHANGED <<waiting, active, channel>>
  BY TrySends DEF StartDownload, DownloadDone, DownloadFails, Told, history, TypeInv
<1>6. Distinct(channel)'
  BY <1>4, <1>5 DEF PlaceInv, Apart, Distinct
<1>7. \/ /\ i \in waiting /\ waiting' = waiting \ {i} /\ active' = active \cup {i}
         /\ UNCHANGED <<telling, InChannel, settled>>
      \/ /\ i \in active /\ active' = active \ {i} /\ waiting' = waiting
         /\ InChannel' = InChannel \cup {i} /\ UNCHANGED <<telling, settled>>
      \/ /\ i \in active /\ active' = active \ {i} /\ waiting' = waiting
         /\ InChannel' = InChannel /\ telling' = telling \cup {i} /\ settled' = settled
      \/ /\ i \in telling /\ telling' = telling \ {i} /\ settled' = settled \cup {i}
         /\ UNCHANGED <<waiting, active, InChannel>>
  BY <1>3, <1>4, <1>5
<1>8. Apart'
  BY <1>1, <1>2, <1>7 DEF PlaceInv, Apart
<1>9. Somewhere' = Somewhere
  BY <1>1, <1>2, <1>7 DEF Somewhere
<1>10. Owed' = Owed
  BY <1>1 DEF Owed
<1>11. Covered' /\ BatchesApart' /\ OwnGroup' /\ Relatives' /\ NoneYet'
  BY <1>1, <1>9, <1>10 DEF PlaceInv, Covered, BatchesApart, OwnGroup, Relatives, NoneYet
<1>12. QED BY <1>6, <1>8, <1>11 DEF PlaceInv

(* The first of the channel goes to the buffer or to a batch of its own. *)
LEMMA ReceivePlaces ==
    ASSUME TypeInv, PlaceInv, Receive
    PROVE  PlaceInv'
<1> DEFINE i == Head(channel)
           g == GroupOf[MsgOf[i]]
           held == IF g \in DOMAIN groups THEN groups[g].items ELSE {}
<1>1. /\ channel \in Seq(Items) /\ channel # <<>> /\ channel' = Tail(channel)
      /\ UNCHANGED <<stage, cursor, waiting, active, telling, settled, abandoned>>
  BY DEF Receive, loop, history, TypeInv, ChannelOK
<1>2. InChannel = Held(channel) /\ InChannel' = Held(channel')
  BY DEF InChannel, Held
<1>3. i \in InChannel /\ InChannel' = InChannel \ {i} /\ Distinct(channel')
  BY <1>1, <1>2, Taken DEF PlaceInv
<1>4. i \in Items
  BY <1>1
<1>5. i \notin Buffered /\ i \notin Batched
  BY <1>3 DEF PlaceInv, Apart
<1>6. /\ \/ Batched' = Batched \cup {i} /\ Buffered' = Buffered
         \/ Buffered' = Buffered \cup {i} /\ Batched' = Batched
      /\ BatchesApart' /\ OwnGroup' /\ Relatives'
  <2>1. CASE g = NoGroup
    <3> DEFINE b == NewBatch({i}, FALSE)
    <3>1. batches' = batches \cup {b} /\ UNCHANGED groups
      BY <2>1 DEF Receive, Flush
    <3>2. b.items = {i}
      BY <1>4, NewBatchOK
    <3> HIDE DEF b, i
    <3>3. Batched' = Batched \cup {i} /\ Buffered' = Buffered
      BY <3>1, <3>2 DEF Batched, Buffered
    <3>4. \A c \in batches : i \notin c.items
      BY <1>5 DEF Batched
    <3>5. BatchesApart'
      BY <3>1, <3>2, <3>4 DEF PlaceInv, BatchesApart
    <3>6. OwnGroup' /\ Relatives'
      BY <3>1, <3>2 DEF PlaceInv, OwnGroup, Relatives, Kin
    <3>7. QED BY <3>3, <3>5, <3>6
  <2>2. CASE g # NoGroup
    <3>1. /\ groups' = [q \in DOMAIN groups \cup {g} |->
                         IF q = g THEN [items |-> held \cup {i}, quiet |-> 0] ELSE groups[q]]
          /\ UNCHANGED batches
      BY <2>2 DEF Receive
    <3>2. GroupOf[MsgOf[i]] = g
      OBVIOUS
    <3> HIDE DEF i, g
    <3>3. /\ DOMAIN groups' = DOMAIN groups \cup {g}
          /\ groups'[g].items = held \cup {i}
          /\ \A q \in DOMAIN groups \ {g} : groups'[q] = groups[q]
      BY <3>1
    <3>4. Buffered' = Buffered \cup {i}
      <4>1. Buffered' \subseteq Buffered \cup {i}
        BY <3>3 DEF Buffered
      <4>2. Buffered \cup {i} \subseteq Buffered'
        BY <3>3 DEF Buffered
      <4>3. QED BY <4>1, <4>2
    <3>5. Batched' = Batched /\ BatchesApart' /\ Relatives'
      BY <3>1 DEF Batched, PlaceInv, BatchesApart, Relatives
    <3>6. OwnGroup'
      BY <3>2, <3>3 DEF PlaceInv, OwnGroup
    <3>7. QED BY <3>4, <3>5, <3>6
  <2>3. QED BY <2>1, <2>2
<1> HIDE DEF i
<1>7. Apart'
  BY <1>1, <1>3, <1>6 DEF PlaceInv, Apart
<1>8. Somewhere' = Somewhere
  BY <1>1, <1>3, <1>6 DEF Somewhere
<1>9. Covered' /\ NoneYet'
  BY <1>1, <1>8 DEF PlaceInv, Covered, Owed, NoneYet
<1>10. QED BY <1>3, <1>6, <1>7, <1>9 DEF PlaceInv

(* Groups that are released take their items along. *)
LEMMA ReleasePlaces ==
    ASSUME TypeInv, PlaceInv, NEW E, NEW inline \in BOOLEAN, Released(E, inline),
           UNCHANGED <<cursor, lane, settled, abandoned>>,
           stage # "stopped"
    PROVE  PlaceInv'
<1> DEFINE B(g) == NewBatch(groups[g].items, inline)
           M == UNION {groups[g].items : g \in E}
<1>1. /\ E \subseteq DOMAIN groups /\ batches' = batches \cup {B(g) : g \in E}
      /\ groups' = [g \in DOMAIN groups \ E |-> groups[g]]
  BY DEF Released, Flush
<1>2. \A g \in E : B(g).items = groups[g].items
  <2>1. \A g \in E : groups[g].items \in SUBSET Items /\ groups[g].items # {}
    BY <1>1 DEF TypeInv, GroupsOK
  <2>2. QED BY <2>1, NewBatchOK
<1> HIDE DEF B
<1>3. Batched' = Batched \cup M
  BY <1>1, <1>2 DEF Batched
<1>4. \A g, h \in DOMAIN groups : groups[g].items \cap groups[h].items # {} => g = h
  BY DEF PlaceInv, OwnGroup
<1>5. M \subseteq Buffered /\ Buffered' = Buffered \ M
  BY <1>1, <1>4 DEF Buffered
<1>6. InChannel' = InChannel /\ Distinct(channel)'
  BY DEF InChannel, Distinct, PlaceInv, lane
<1> HIDE DEF M
<1>7. Apart'
  BY <1>3, <1>5, <1>6 DEF PlaceInv, Apart, lane
<1>8. Somewhere' = Somewhere
  BY <1>3, <1>5, <1>6 DEF Somewhere, lane
<1>9. Covered' /\ NoneYet'
  BY <1>8 DEF PlaceInv, Covered, Owed, NoneYet
<1>10. BatchesApart'
  <2>1. \A g \in E, c \in batches : groups[g].items \cap c.items = {}
    BY <1>1 DEF PlaceInv, Apart, Buffered, Batched
  <2>2. QED BY <1>1, <1>2, <1>4, <2>1 DEF PlaceInv, BatchesApart
<1>11. OwnGroup'
  BY <1>1 DEF PlaceInv, OwnGroup
<1>12. Relatives'
  <2>1. ASSUME NEW g \in E, NEW n \in groups[g].items, NEW k \in groups[g].items
        PROVE  Kin(MsgOf[n], MsgOf[k])
    <3>1. GroupOf[MsgOf[n]] = g /\ GroupOf[MsgOf[k]] = g /\ g # NoGroup
      BY <1>1 DEF PlaceInv, OwnGroup, TypeInv, GroupsOK, Albums
    <3>2. QED BY <3>1 DEF Kin
  <2>2. QED BY <1>1, <1>2, <2>1 DEF PlaceInv, Relatives
<1>13. QED BY <1>6, <1>7, <1>9, <1>10, <1>11, <1>12 DEF PlaceInv

(* A batch keeps its items until it is done with them. *)
LEMMA DeliverPlaces ==
    ASSUME TypeInv, PlaceInv, NEW b \in batches, Deliver(b)
    PROVE  PlaceInv'
<1>1. /\ Finished(b) \/ \E c : Replaced(b, c)
      /\ UNCHANGED <<stage, cursor, waiting, active, telling, channel, groups, abandoned, old>>
  BY DeliverMoves DEF loop, lane
<1>2. InChannel' = InChannel /\ Buffered' = Buffered /\ Distinct(channel)' /\ OwnGroup'
      /\ NoneYet' /\ Owed' = Owed
  BY <1>1 DEF InChannel, Buffered, Distinct, OwnGroup, PlaceInv, NoneYet, Owed
<1>3. CASE Finished(b)
  <2>1. Batched' = Batched \ b.items /\ b.items \subseteq Batched
    BY <1>3 DEF Finished, Batched, PlaceInv, BatchesApart
  <2>2. Apart'
    BY <1>1, <1>2, <1>3, <2>1 DEF Finished, PlaceInv, Apart
  <2>3. Somewhere' = Somewhere
    BY <1>1, <1>2, <1>3, <2>1 DEF Finished, Somewhere
  <2>4. Covered' /\ BatchesApart' /\ Relatives'
    BY <1>1, <1>2, <1>3, <2>3 DEF Finished, PlaceInv, Covered, BatchesApart, Relatives
  <2>5. QED BY <1>2, <2>2, <2>4 DEF PlaceInv
<1>4. CASE \E c : Replaced(b, c)
  <2>1. PICK c : Replaced(b, c)
    BY <1>4
  <2>2. c.items = b.items /\ batches' = (batches \ {b}) \cup {c} /\ settled' = settled
    BY <2>1 DEF Replaced
  <2>3. Batched' = Batched
    BY <2>2 DEF Batched
  <2>4. Apart' /\ Somewhere' = Somewhere
    BY <1>1, <1>2, <2>2, <2>3 DEF PlaceInv, Apart, Somewhere
  <2>5. BatchesApart'
    BY <2>2 DEF PlaceInv, BatchesApart
  <2>6. Covered' /\ Relatives'
    BY <1>1, <1>2, <2>2, <2>4 DEF PlaceInv, Covered, Relatives
  <2>7. QED BY <1>2, <2>4, <2>5, <2>6 DEF PlaceInv
<1>5. QED BY <1>1, <1>3, <1>4

(* A stop of the process abandons what was still on its way. *)
LEMMA ExitPlaces ==
    ASSUME TypeInv, PlaceInv, Exit
    PROVE  PlaceInv'
<1>1. /\ waiting' = {} /\ active' = {} /\ telling' = {} /\ InChannel' = {} /\ Buffered' = {}
      /\ Batched' = {} /\ channel' = <<>> /\ batches' = {} /\ DOMAIN groups' = {}
      /\ abandoned' = waiting \cup active \cup telling \cup InChannel \cup Buffered \cup Batched
      /\ UNCHANGED <<cursor, settled>>
  BY DEF Exit, InChannel, Buffered, Batched, Empty
<1>2. abandoned = {}
  BY DEF Exit, PlaceInv, NoneYet
<1>3. Somewhere' = Somewhere
  BY <1>1, <1>2 DEF Somewhere
<1>4. Apart'
  BY <1>1 DEF PlaceInv, Apart
<1>5. Covered' /\ NoneYet' /\ BatchesApart' /\ OwnGroup' /\ Relatives'
  BY <1>1, <1>3 DEF Exit, PlaceInv, Covered, Owed, NoneYet, BatchesApart, OwnGroup, Relatives
<1>6. Distinct(channel)'
  BY <1>1 DEF Distinct
<1>7. QED BY <1>4, <1>5, <1>6 DEF PlaceInv

(* They hold always. *)
LEMMA PlacesHold == Spec => []PlaceInv
<1>1. Init => PlaceInv
  BY DEF Init, PlaceInv, Apart, Covered, Somewhere, Owed, Distinct, BatchesApart, OwnGroup,
         Relatives, NoneYet, InChannel, Buffered, Batched, Empty
<1>2. ASSUME TypeInv, LruInv, PlaceInv, [Next]_vars
      PROVE  PlaceInv'
  <2>1. CASE Elapse
    <3>1. UNCHANGED <<stage, cursor, waiting, active, telling, channel, batches, settled, abandoned>>
      BY <2>1 DEF Elapse, loop, lane, history
    <3>2. /\ DOMAIN groups' = DOMAIN groups
          /\ \A g \in DOMAIN groups : groups'[g].items = groups[g].items
      BY <1>2, <2>1 DEF Elapse, TypeInv, GroupsOK
    <3>3. Buffered' = Buffered /\ Batched' = Batched /\ InChannel' = InChannel
      BY <3>1, <3>2 DEF Buffered, Batched, InChannel
    <3>4. OwnGroup' /\ BatchesApart' /\ Relatives' /\ Distinct(channel)' /\ NoneYet'
      BY <1>2, <3>1, <3>2 DEF PlaceInv, OwnGroup, BatchesApart, Relatives, Distinct, NoneYet
    <3>5. Apart' /\ Covered'
      BY <1>2, <3>1, <3>3 DEF PlaceInv, Apart, Covered, Somewhere, Owed
    <3>6. QED BY <3>4, <3>5 DEF PlaceInv
  <2>2. CASE AlbumTick \/ Signal
    <3>1. /\ UNCHANGED <<cursor, lane, settled, abandoned>>
          /\ stage # "stopped"
      BY <2>2 DEF AlbumTick, Signal, LoopFree, loop, history
    <3>2. QED BY <1>2, <2>2, <3>1, Releases, ReleasePlaces
  <2>3. CASE UNCHANGED <<loop, lane, groups, batches, history>>
    <3>1. UNCHANGED <<stage, cursor, waiting, active, telling, channel, groups, batches, settled, abandoned>>
      BY <2>3 DEF loop, lane, history
    <3>2. Buffered' = Buffered /\ Batched' = Batched /\ InChannel' = InChannel /\ Owed' = Owed
      BY <3>1 DEF Buffered, Batched, InChannel, Owed
    <3>3. Apart' /\ Covered'
      BY <1>2, <3>1, <3>2 DEF PlaceInv, Apart, Covered, Somewhere
    <3>4. OwnGroup' /\ BatchesApart' /\ Relatives' /\ Distinct(channel)' /\ NoneYet'
      BY <1>2, <3>1 DEF PlaceInv, OwnGroup, BatchesApart, Relatives, Distinct, NoneYet
    <3>5. QED BY <3>3, <3>4 DEF PlaceInv
  <2>4. ASSUME NEW r \in rows, Prune(r)
        PROVE  PlaceInv'
    BY <2>3, <2>4 DEF Prune
  <2>5. CASE UNCHANGED vars
    BY <2>3, <2>5 DEF vars, loop, lane, history
  <2>6. QED BY <1>2, <2>1, <2>2, <2>4, <2>5, HandlePlaces, DownloadPlaces, ReceivePlaces,
              DeliverPlaces, ExitPlaces
           DEF Next
<1>3. QED BY <1>1, <1>2, TypesHold, LruHolds, PTL DEF Spec

(* Each item that is owed, and nothing else, is in exactly one place on its*)
(* way: none falls between download, channel, buffer and batch, none is in *)
(* two of them, and the LRU turns none away.                               *)
THEOREM EveryItemHasItsPlaceAlways == Spec => []EveryItemHasItsPlace
<1>1. ASSUME PlaceInv
      PROVE  EveryItemHasItsPlace
  <2>1. /\ Len(Places) = 8
        /\ Places[1] = waiting /\ Places[2] = active /\ Places[3] = telling
        /\ Places[4] = InChannel /\ Places[5] = Buffered /\ Places[6] = Batched
        /\ Places[7] = settled /\ Places[8] = abandoned
    BY DEF Places
  <2>2. Owed = UNION {Places[n] : n \in 1..Len(Places)}
    <3>1. 1..8 = {1, 2, 3, 4, 5, 6, 7, 8}
      OBVIOUS
    <3>2. UNION {Places[n] : n \in 1..Len(Places)} = Somewhere
      BY <2>1, <3>1 DEF Somewhere
    <3>3. QED BY <1>1, <3>2 DEF PlaceInv, Covered
  <2>3. ASSUME NEW n \in 1..8, NEW k \in 1..8, n < k
        PROVE  Places[n] \cap Places[k] = {}
    <3>1. n = 1 \/ n = 2 \/ n = 3 \/ n = 4 \/ n = 5 \/ n = 6 \/ n = 7
      BY <2>3
    <3>2. k = 2 \/ k = 3 \/ k = 4 \/ k = 5 \/ k = 6 \/ k = 7 \/ k = 8
      BY <2>3
    <3>3. QED BY <1>1, <2>1, <2>3, <3>1, <3>2 DEF PlaceInv, Apart
  <2>4. \A n, k \in 1..8 : n # k => Places[n] \cap Places[k] = {}
    <3> SUFFICES ASSUME NEW n \in 1..8, NEW k \in 1..8, n # k
                 PROVE  Places[n] \cap Places[k] = {}
      OBVIOUS
    <3>1. n < k \/ k < n
      OBVIOUS
    <3>2. Places[n] \cap Places[k] = Places[k] \cap Places[n]
      OBVIOUS
    <3>3. QED BY <2>3, <3>1, <3>2
  <2>5. QED BY <1>1, <2>1, <2>2, <2>4 DEF EveryItemHasItsPlace, PlaceInv, BatchesApart
<1>2. QED BY <1>1, PlacesHold, PTL
-----------------------------------------------------------------------------
(* Posts, rows and what was to be shown. *)

(* What was posted is done with, or its batch is past that webhook.        *)
Past(b, w) == w \notin b.todo \/ (b.pc = "record" /\ w = b.hook)

Accounted(p) == \/ p.items \subseteq settled \cup abandoned
                \/ \E b \in batches : b.items = p.items /\ Past(b, p.hook)

(* A batch about to be recorded was posted.                                *)
Posted(b) == \E p \in posts : p.hook = b.hook /\ p.items = b.items /\ p.anchor = Anchor(b.items)

(* A post has items, and the files of those that are to have one.          *)
Whole(p) == p.items # {} /\ p.files = FilesFor(p.items, p.hook)

Answered(i, w) == Shown(i, w) \/ <<i, w>> \in noticed \/ Known(i, w)

StillDue(b) == \A i \in b.items : \A w \in TargetsOf[i] : w \in b.todo \/ Answered(i, w)

(* No update is in two messages of a webhook.                              *)
PostsApart == \A p, q \in posts : p.hook = q.hook /\ p # q => p.items \cap q.items = {}

PostInv ==
    /\ \A p \in posts : Whole(p) /\ Accounted(p)
    /\ \A b \in batches : (b.pc = "record" => Posted(b)) /\ StillDue(b)
    /\ PostsApart /\ RowsTellThePosts /\ SettledIsAnswered

(* What was posted is shown. *)
LEMMA PostShows ==
    ASSUME NEW p \in posts, Whole(p), NEW i \in p.items
    PROVE  Shown(i, p.hook)
  BY DEF Whole, FilesFor, MsgsOf, Shown

(* What is owed stays owed.                                                *)
LEMMA OwedGrows ==
    ASSUME TypeInv, [Next]_vars
    PROVE  Owed \subseteq Owed'
<1>1. cursor' = cursor \/ (cursor' = cursor + 1 /\ cursor \in Nat)
  <2>1. CASE HandleMedia
    BY <2>1 DEF HandleMedia, TypeInv, LoopOK
  <2>2. ASSUME NEW b \in batches, Deliver(b)
        PROVE  cursor' = cursor
    BY <2>2, DeliverMoves DEF loop
  <2>3. ASSUME NEW i \in Items,
               StartDownload(i) \/ DownloadDone(i) \/ DownloadFails(i) \/ Told(i)
        PROVE  cursor' = cursor
    BY <2>3 DEF StartDownload, DownloadDone, DownloadFails, Told, loop
  <2>4. CASE Receive \/ Elapse \/ AlbumTick \/ Signal \/ Exit \/ UNCHANGED vars
    BY <2>4 DEF Receive, Elapse, AlbumTick, Signal, Exit, loop, vars
  <2>5. ASSUME NEW r \in rows, Prune(r)
        PROVE  cursor' = cursor
    BY <2>5 DEF Prune, loop
  <2>6. QED BY <2>1, <2>2, <2>3, <2>4, <2>5 DEF Next
<1>2. 1..cursor \subseteq 1..cursor'
  BY <1>1
<1>3. QED BY <1>2 DEF Owed

(* And what was answered stays so.                                         *)
LEMMA StillAnswered ==
    ASSUME posts \subseteq posts', old' = old, noticed \subseteq noticed', Owed \subseteq Owed',
           NEW i, NEW w, Answered(i, w)
    PROVE  Answered(i, w)'
<1>1. Shown(i, w) => Shown(i, w)'
  BY DEF Shown
<1>2. Known(i, w) => Known(i, w)'
  BY DEF Known
<1>3. QED BY <1>1, <1>2 DEF Answered

(* The steps that release nothing, settle nothing but what they report,    *)
(* and post nothing.                                                       *)
LEMMA StillPosts ==
    ASSUME PostInv, UNCHANGED <<batches, posts, old>>, Owed \subseteq Owed', rows' \subseteq rows,
           settled \subseteq settled', abandoned \subseteq abandoned', noticed \subseteq noticed',
           \A i \in settled' \ settled : \A w \in TargetsOf[i] : <<i, w>> \in noticed'
    PROVE  PostInv'
<1>1. \A p \in posts : Whole(p)' /\ Accounted(p)'
  BY DEF PostInv, Whole, Accounted, Past
<1>2. \A i, w : Answered(i, w) => Answered(i, w)'
  BY StillAnswered
<1>3. \A b \in batches : (b.pc = "record" => Posted(b)') /\ StillDue(b)'
  BY <1>2 DEF PostInv, Posted, StillDue
<1>4. SettledIsAnswered'
  <2> SUFFICES ASSUME NEW i \in settled', NEW w \in TargetsOf[i]
               PROVE  Answered(i, w)'
    BY DEF SettledIsAnswered, Answered
  <2>1. CASE i \in settled
    BY <1>2, <2>1 DEF PostInv, SettledIsAnswered, Answered
  <2>2. CASE i \notin settled
    BY <2>2 DEF Answered
  <2>3. QED BY <2>1, <2>2
<1>5. PostsApart' /\ RowsTellThePosts'
  BY DEF PostInv, PostsApart, RowsTellThePosts
<1>6. QED BY <1>1, <1>3, <1>4, <1>5 DEF PostInv

(* A new batch has all the webhooks of its items before it.                *)
LEMMA NewBatchOwes ==
    ASSUME NEW items \in SUBSET Items, items # {}, NEW inline \in BOOLEAN
    PROVE  /\ NewBatch(items, inline).pc = "check"
           /\ \A i \in NewBatch(items, inline).items : TargetsOf[i] \subseteq NewBatch(items, inline).todo
<1>1. /\ NewBatch(items, inline).items = items /\ NewBatch(items, inline).pc = "check"
      /\ NewBatch(items, inline).todo = UNION {TargetsOf[i] : i \in items}
  BY NewBatchOK
<1>2. QED BY <1>1

(* New batches owe every webhook of their items. *)
LEMMA NewPosts ==
    ASSUME PostInv, NEW N, batches' = batches \cup N,
           \A b \in N : b.pc = "check" /\ \A i \in b.items : TargetsOf[i] \subseteq b.todo,
           UNCHANGED <<cursor, posts, rows, old, settled, abandoned, noticed>>
    PROVE  PostInv'
<1>1. \A p \in posts : Whole(p)' /\ Accounted(p)'
  BY DEF PostInv, Whole, Accounted, Past
<1>2. \A i, w : Answered(i, w) => Answered(i, w)'
  BY StillAnswered DEF Owed
<1>3. \A b \in batches' : (b.pc = "record" => Posted(b)') /\ StillDue(b)'
  BY <1>2 DEF PostInv, Posted, StillDue
<1>4. SettledIsAnswered'
  BY <1>2 DEF PostInv, SettledIsAnswered, Answered
<1>5. PostsApart' /\ RowsTellThePosts'
  BY DEF PostInv, PostsApart, RowsTellThePosts
<1>6. QED BY <1>1, <1>3, <1>4, <1>5 DEF PostInv

(* A batch that is done with webhook w, which now has its items, or is     *)
(* told of their loss, or knew them.                                       *)
LEMMA AdvancePosts ==
    ASSUME TypeInv, PlaceInv, PostInv, NEW b \in batches, NEW w \in b.todo, Advance(b, w),
           b.pc = "check" \/ w = b.hook,
           UNCHANGED <<cursor, posts, old, abandoned>>, noticed \subseteq noticed',
           RowsTellThePosts',
           \A i \in b.items : Answered(i, w)'
    PROVE  PostInv'
<1>1. BatchOK(b)
  BY DEF TypeInv, BatchesOK
<1>2. \/ b.todo \ {w} = {} /\ Finished(b)
      \/ \E c : Replaced(b, c) /\ c.todo = b.todo \ {w} /\ c.pc = "check"
  BY <1>1, Advances
<1>3. \A i, v : Answered(i, v) => Answered(i, v)'
  BY StillAnswered DEF Owed
<1>4. \A i \in b.items : \A v \in TargetsOf[i] : v \in b.todo \ {w} \/ Answered(i, v)'
  BY <1>3 DEF PostInv, StillDue
<1>5. \A i \in settled : \A v \in TargetsOf[i] : Answered(i, v)'
  BY <1>3 DEF PostInv, SettledIsAnswered, Answered
<1>6. PostsApart' /\ \A p \in posts : Whole(p)
  BY DEF PostInv, PostsApart
<1>7. CASE b.todo \ {w} = {} /\ Finished(b)
  <2>1. batches' = batches \ {b} /\ settled' = settled \cup b.items
    BY <1>7 DEF Finished
  <2>2. \A p \in posts : Accounted(p)'
    BY <2>1 DEF PostInv, Accounted, Past
  <2>3. \A c \in batches' : (c.pc = "record" => Posted(c)') /\ StillDue(c)'
    BY <1>3, <2>1 DEF PostInv, Posted, StillDue
  <2>4. \A i \in settled' : \A v \in TargetsOf[i] : Answered(i, v)'
    BY <1>4, <1>5, <1>7, <2>1
  <2>5. SettledIsAnswered'
    BY <2>4 DEF SettledIsAnswered, Answered
  <2>6. QED BY <1>6, <2>2, <2>3, <2>5 DEF PostInv
<1>8. ASSUME NEW c, Replaced(b, c), c.todo = b.todo \ {w}, c.pc = "check"
      PROVE  PostInv'
  <2>1. /\ c.items = b.items
        /\ batches' = (batches \ {b}) \cup {c} /\ settled' = settled
    BY <1>8 DEF Replaced
  <2>2. \A p \in posts : Accounted(p)'
    <3> SUFFICES ASSUME NEW p \in posts
                 PROVE  Accounted(p)'
      OBVIOUS
    <3>1. CASE p.items \subseteq settled \cup abandoned
      BY <2>1, <3>1 DEF Accounted
    <3>2. ASSUME NEW d \in batches, d.items = p.items, Past(d, p.hook)
          PROVE  Accounted(p)'
      <4>1. CASE d # b
        BY <2>1, <3>2, <4>1 DEF Accounted, Past
      <4>2. CASE d = b
        <5>1. p.hook \notin c.todo
          <6>1. CASE p.hook \notin b.todo
            BY <1>8, <6>1
          <6>2. CASE b.pc = "record" /\ p.hook = b.hook
            BY <1>8, <6>2
          <6>3. QED BY <3>2, <4>2, <6>1, <6>2 DEF Past
        <5>2. c \in batches' /\ c.items = p.items
          BY <2>1, <3>2, <4>2
        <5>3. Past(c, p.hook)
          BY <5>1 DEF Past
        <5>4. QED BY <5>2, <5>3 DEF Accounted
      <4>3. QED BY <4>1, <4>2
    <3>3. QED BY <3>1, <3>2 DEF PostInv, Accounted
  <2>3. \A d \in batches' : (d.pc = "record" => Posted(d)') /\ StillDue(d)'
    <3>1. StillDue(c)'
      BY <1>4, <1>8, <2>1 DEF StillDue
    <3>2. QED BY <1>3, <1>8, <2>1, <3>1 DEF PostInv, Posted, StillDue
  <2>4. SettledIsAnswered'
    BY <1>5, <2>1 DEF SettledIsAnswered, Answered
  <2>5. QED BY <1>6, <2>2, <2>3, <2>4 DEF PostInv
<1>9. QED BY <1>2, <1>7, <1>8

(* A batch that starts to post on webhook w. *)
LEMMA TurnPosts ==
    ASSUME TypeInv, PlaceInv, PostInv, NEW b \in batches, NEW w \in b.todo, b.pc = "check",
           Turn(b, w), UNCHANGED <<cursor, posts, rows, old, abandoned, noticed>>
    PROVE  PostInv'
<1>1. PICK c : Replaced(b, c) /\ c.todo = b.todo /\ c.pc = "post"
  BY Turns DEF TypeInv, BatchesOK
<1>2. batches' = (batches \ {b}) \cup {c} /\ c.items = b.items /\ settled' = settled
  BY <1>1 DEF Replaced
<1>3. ASSUME NEW p \in posts
      PROVE  Accounted(p)'
  <2>1. CASE p.items \subseteq settled \cup abandoned
    BY <1>2, <2>1 DEF Accounted
  <2>2. ASSUME NEW d \in batches, d.items = p.items, Past(d, p.hook)
        PROVE  Accounted(p)'
    <3>1. CASE d # b
      BY <1>2, <2>2, <3>1 DEF Accounted, Past
    <3>2. CASE d = b
      <4>1. p.hook \notin c.todo
        BY <1>1, <2>2, <3>2 DEF Past
      <4>2. c \in batches' /\ c.items = p.items
        BY <1>1, <1>2, <2>2, <3>2
      <4>3. Past(c, p.hook)
        BY <4>1 DEF Past
      <4>4. QED BY <4>2, <4>3 DEF Accounted
    <3>3. QED BY <3>1, <3>2
  <2>3. QED BY <2>1, <2>2 DEF PostInv, Accounted
<1>4. \A i, v : Answered(i, v) => Answered(i, v)'
  BY StillAnswered DEF Owed
<1>5. \A d \in batches' : (d.pc = "record" => Posted(d)') /\ StillDue(d)'
  BY <1>1, <1>2, <1>4 DEF PostInv, Posted, StillDue
<1>6. SettledIsAnswered'
  BY <1>2, <1>4 DEF PostInv, SettledIsAnswered, Answered
<1>7. PostsApart' /\ RowsTellThePosts' /\ \A p \in posts : Whole(p)
  BY DEF PostInv, PostsApart, RowsTellThePosts
<1>8. QED BY <1>3, <1>5, <1>6, <1>7 DEF PostInv

(* A post on the webhook whose turn it is: none had these items before. *)
LEMMA PostPosts ==
    ASSUME TypeInv, PlaceInv, PostInv, NEW b \in batches, PostDelivered(b)
    PROVE  PostInv'
<1> DEFINE q == [hook |-> b.hook, anchor |-> Anchor(b.items), items |-> b.items,
                 files |-> FilesFor(b.items, b.hook)]
<1>1. b.pc = "post" /\ b.hook \in b.todo /\ b.items # {} /\ BatchOK(b)
  BY DEF PostDelivered, TypeInv, BatchesOK, BatchOK
<1>2. PICK c : Replaced(b, c) /\ c.todo = b.todo /\ c.pc = "record" /\ c.hook = b.hook
  BY <1>1, Posts
<1>3. q.hook = b.hook /\ q.items = b.items /\ q.anchor = Anchor(b.items) /\ Whole(q)
  BY <1>1 DEF Whole
<1>4. /\ batches' = (batches \ {b}) \cup {c} /\ c.items = b.items /\ posts' = posts \cup {q}
      /\ UNCHANGED <<cursor, rows, old, settled, abandoned, noticed>>
  BY <1>2 DEF PostDelivered, loop, history, Replaced
<1> HIDE DEF q
<1>5. \A p \in posts : p.hook = q.hook => p.items \cap q.items = {}
  <2> SUFFICES ASSUME NEW p \in posts, p.hook = q.hook, p.items \cap q.items # {}
               PROVE  FALSE
    OBVIOUS
  <2>1. b.items \cap (settled \cup abandoned) = {}
    BY DEF PlaceInv, Apart, Batched
  <2>2. PICK d \in batches : d.items = p.items /\ Past(d, p.hook)
    BY <1>3, <2>1 DEF PostInv, Accounted
  <2>3. d = b
    BY <1>3, <2>2 DEF PlaceInv, BatchesApart
  <2>4. QED BY <1>1, <1>3, <2>2, <2>3 DEF Past
<1>6. PostsApart'
  BY <1>4, <1>5 DEF PostInv, PostsApart
<1>7. \A p \in posts' : Whole(p) /\ Accounted(p)'
  <2>1. Accounted(q)'
    BY <1>2, <1>3, <1>4 DEF Accounted, Past
  <2>2. ASSUME NEW p \in posts
        PROVE  Accounted(p)'
    <3>1. CASE p.items \subseteq settled \cup abandoned
      BY <1>4, <3>1 DEF Accounted
    <3>2. ASSUME NEW d \in batches, d.items = p.items, Past(d, p.hook)
          PROVE  Accounted(p)'
      <4>1. CASE d # b
        BY <1>4, <3>2, <4>1 DEF Accounted, Past
      <4>2. CASE d = b
        <5>1. p.hook \notin c.todo
          BY <1>1, <1>2, <3>2, <4>2 DEF Past
        <5>2. QED BY <1>2, <1>4, <3>2, <4>2, <5>1 DEF Accounted, Past
      <4>3. QED BY <4>1, <4>2
    <3>3. QED BY <3>1, <3>2 DEF PostInv, Accounted
  <2>3. QED BY <1>3, <1>4, <2>1, <2>2 DEF PostInv
<1>8. \A i, w : Answered(i, w) => Answered(i, w)'
  BY <1>4, StillAnswered DEF Owed
<1>9. \A d \in batches' : (d.pc = "record" => Posted(d)') /\ StillDue(d)'
  <2>1. Posted(c)'
    BY <1>2, <1>3, <1>4 DEF Posted
  <2>2. StillDue(c)'
    BY <1>2, <1>4, <1>8 DEF PostInv, StillDue
  <2>3. QED BY <1>4, <1>8, <2>1, <2>2 DEF PostInv, Posted, StillDue
<1>10. RowsTellThePosts'
  BY <1>4 DEF PostInv, RowsTellThePosts
<1>11. SettledIsAnswered'
  BY <1>4, <1>8 DEF PostInv, SettledIsAnswered, Answered
<1>12. QED BY <1>6, <1>7, <1>9, <1>10, <1>11 DEF PostInv

(* The items of a post are owed. *)
LEMMA PostsAreOwed ==
    ASSUME PlaceInv, PostInv, NEW p \in posts
    PROVE  p.items \subseteq Owed
<1>1. Somewhere = Owed /\ Accounted(p)
  BY DEF PlaceInv, Covered, PostInv
<1>2. CASE p.items \subseteq settled \cup abandoned
  BY <1>1, <1>2 DEF Somewhere
<1>3. ASSUME NEW b \in batches, b.items = p.items
      PROVE  p.items \subseteq Owed
  BY <1>1, <1>3 DEF Somewhere, Batched
<1>4. QED BY <1>1, <1>2, <1>3 DEF Accounted

(* A post that shares an item with a batch has the same items. *)
LEMMA SameItems ==
    ASSUME PlaceInv, PostInv, NEW b \in batches, NEW p \in posts, p.items \cap b.items # {}
    PROVE  p.items = b.items
<1>1. b.items \cap (settled \cup abandoned) = {}
  BY DEF PlaceInv, Apart, Batched
<1>2. PICK d \in batches : d.items = p.items
  BY <1>1 DEF PostInv, Accounted
<1>3. d = b
  BY <1>2 DEF PlaceInv, BatchesApart
<1>4. QED BY <1>2, <1>3

(* What the store knows of a batch is a post of it, or from before, or of  *)
(* another update of its anchor. *)
LEMMA KnownRows ==
    ASSUME TypeInv, PlaceInv, PostInv, NEW b \in batches, NEW w,
           <<Anchor(b.items), w>> \in rows
    PROVE  \A i \in b.items : Answered(i, w)
<1> DEFINE m == Anchor(b.items)
<1>1. b.items \in SUBSET Items /\ b.items # {}
  BY DEF TypeInv, BatchesOK, BatchOK, Batch
<1>2. m \in MsgsOf(b.items) /\ m \in Msgs
  BY <1>1, AnchorIn
<1>3. PICK k \in b.items : MsgOf[k] = m
  BY <1>2 DEF MsgsOf
<1>4. \A i \in b.items : Kin(m, MsgOf[i])
  BY <1>3 DEF PlaceInv, Relatives
<1>5. <<m, w>> \in rows
  OBVIOUS
<1> HIDE DEF m
<1>6. CASE <<m, w>> \in old
  BY <1>2, <1>4, <1>6 DEF Answered, Known
<1>7. CASE <<m, w>> \notin old
  <2>1. PICK p \in posts : p.hook = w /\ p.anchor = m /\ m \in MsgsOf(p.items)
    <3>1. \A r \in rows \ old : \E p \in posts :
              p.hook = r[2] /\ p.anchor = r[1] /\ r[1] \in MsgsOf(p.items)
      BY DEF PostInv, RowsTellThePosts
    <3>2. <<m, w>>[1] = m /\ <<m, w>>[2] = w
      OBVIOUS
    <3>3. QED BY <1>5, <1>7, <3>1, <3>2
  <2>2. PICK j \in p.items : MsgOf[j] = m
    BY <2>1 DEF MsgsOf
  <2>3. CASE p.items \cap b.items # {}
    <3>1. p.items = b.items /\ Whole(p)
      BY <2>3, SameItems DEF PostInv
    <3>2. QED BY <2>1, <3>1, PostShows DEF Answered
  <2>4. CASE p.items \cap b.items = {}
    <3>1. j # k /\ j \in Owed /\ k \in Owed
      <4>1. k \in Somewhere
        BY DEF Somewhere, Batched
      <4>2. QED BY <2>4, <4>1, PostsAreOwed DEF PlaceInv, Covered
    <3>2. ASSUME NEW i \in b.items
          PROVE  Known(i, w)
      <4>1. i \notin p.items
        BY <2>4
      <4>2. \E x \in posts : x.hook = w /\ x.anchor = m /\ i \notin x.items
        BY <2>1, <4>1
      <4>3. \E x, y \in Owed : x # y /\ MsgOf[x] = m /\ MsgOf[y] = m
        BY <1>3, <2>2, <3>1
      <4>4. Kin(m, MsgOf[i])
        BY <1>4
      <4>5. QED BY <1>2, <4>2, <4>3, <4>4 DEF Known
    <3>3. QED BY <3>2 DEF Answered
  <2>5. QED BY <2>3, <2>4
<1>8. QED BY <1>6, <1>7

(* A batch checks the store, posts, records, or fails at one of them. *)
LEMMA DeliverPosts ==
    ASSUME TypeInv, PlaceInv, PostInv, NEW b \in batches, Deliver(b)
    PROVE  PostInv'
<1>1. BatchOK(b)
  BY DEF TypeInv, BatchesOK
<1>0. \A i, v : Answered(i, v) => Answered(i, v)'
  <2>1. posts \subseteq posts' /\ old' = old /\ noticed \subseteq noticed' /\ cursor' = cursor
    BY DEF Deliver, CheckStore, CheckError, PostDelivered, PostDropped, RecordRow, RecordError,
           loop, discord, history
  <2>2. QED BY <2>1, StillAnswered DEF Owed
<1>2. ASSUME NEW w \in Webhooks, CheckStore(b, w)
      PROVE  PostInv'
  <2>1. /\ b.pc = "check" /\ w \in b.todo
        /\ UNCHANGED <<cursor, posts, rows, noticed, abandoned, old>>
    BY <1>2 DEF CheckStore, loop, discord
  <2>2. CASE <<Anchor(b.items), w>> \in rows
    <3>1. Advance(b, w)
      BY <1>2, <2>2 DEF CheckStore
    <3>2. \A i \in b.items : Answered(i, w)'
      BY <1>0, <2>2, KnownRows
    <3>3. RowsTellThePosts'
      BY <2>1 DEF PostInv, RowsTellThePosts
    <3>4. QED BY <2>1, <3>1, <3>2, <3>3, AdvancePosts
  <2>3. CASE <<Anchor(b.items), w>> \notin rows
    BY <1>2, <2>1, <2>3, TurnPosts DEF CheckStore
  <2>4. QED BY <2>2, <2>3
<1>3. ASSUME NEW w \in Webhooks, CheckError(b, w)
      PROVE  PostInv'
  <2>1. /\ b.pc = "check" /\ w \in b.todo /\ Turn(b, w)
        /\ UNCHANGED <<cursor, posts, rows, old, abandoned, noticed>>
    BY <1>3 DEF CheckError, loop, discord
  <2>2. QED BY <2>1, TurnPosts
<1>4. CASE PostDropped(b)
  <2>1. /\ b.pc = "post" /\ Advance(b, b.hook)
        /\ noticed' = noticed \cup {<<i, b.hook>> : i \in b.items}
        /\ UNCHANGED <<cursor, posts, rows, abandoned, old>>
    BY <1>4 DEF PostDropped, loop, discord
  <2>2. b.hook \in b.todo
    BY <1>1, <2>1 DEF BatchOK
  <2>3. \A i \in b.items : Answered(i, b.hook)'
    BY <2>1 DEF Answered
  <2>4. RowsTellThePosts'
    BY <2>1 DEF PostInv, RowsTellThePosts
  <2>5. QED BY <2>1, <2>2, <2>3, <2>4, AdvancePosts
<1>5. CASE RecordRow(b) \/ RecordError(b)
  <2>1. /\ b.pc = "record" /\ Advance(b, b.hook)
        /\ UNCHANGED <<cursor, posts, noticed, abandoned, old>>
        /\ rows' = rows \cup {<<Anchor(b.items), b.hook>>} \/ rows' = rows
    BY <1>5 DEF RecordRow, RecordError, loop, discord
  <2>2. b.hook \in b.todo /\ b.items # {} /\ b.items \in SUBSET Items
    BY <1>1, <2>1 DEF BatchOK, Batch
  <2>3. PICK p \in posts : p.hook = b.hook /\ p.items = b.items /\ p.anchor = Anchor(b.items)
    BY <2>1 DEF PostInv, Posted
  <2>4. \A i \in b.items : Answered(i, b.hook)'
    <3>1. \A i \in b.items : Shown(i, b.hook)
      BY <2>3, PostShows DEF PostInv
    <3>2. QED BY <1>0, <3>1 DEF Answered
  <2>5. RowsTellThePosts'
    <3> SUFFICES ASSUME NEW r \in rows' \ old
                 PROVE  \E m \in posts :
                            /\ m.hook = r[2] /\ m.anchor = r[1] /\ r[1] \in MsgsOf(m.items)
                            /\ m.items \cap Captioned # {} => r[1] \in MsgsOf(m.items \cap Captioned)
      BY <2>1 DEF RowsTellThePosts
    <3>1. CASE r \in rows
      BY <3>1 DEF PostInv, RowsTellThePosts
    <3>2. CASE r = <<Anchor(b.items), b.hook>>
      <4>1. r[1] = Anchor(b.items) /\ r[2] = b.hook
        BY <3>2
      <4>2. /\ Anchor(b.items) \in MsgsOf(b.items)
            /\ b.items \cap Captioned # {} => Anchor(b.items) \in MsgsOf(b.items \cap Captioned)
        BY <2>2, AnchorIn
      <4>3. QED BY <2>3, <4>1, <4>2
    <3>3. QED BY <2>1, <3>1, <3>2
  <2>6. QED BY <2>1, <2>2, <2>4, <2>5, AdvancePosts
<1>6. CASE PostDelivered(b)
  BY <1>6, PostPosts
<1>7. QED BY <1>2, <1>3, <1>4, <1>5, <1>6 DEF Deliver

(* They hold always. *)
LEMMA PostsHold == Spec => []PostInv
<1>1. Init => PostInv
  BY DEF Init, PostInv, PostsApart, RowsTellThePosts, SettledIsAnswered
<1>2. ASSUME TypeInv, PlaceInv, PostInv, [Next]_vars
      PROVE  PostInv'
  <2>0. Owed \subseteq Owed'
    BY <1>2, OwedGrows
  <2>1. ASSUME NEW i \in Items,
               StartDownload(i) \/ DownloadDone(i) \/ DownloadFails(i) \/ Told(i)
        PROVE  PostInv'
    <3>1. UNCHANGED <<batches, posts, rows, old, abandoned>>
      BY <2>1 DEF StartDownload, DownloadDone, DownloadFails, Told, discord, history
    <3>2. \/ UNCHANGED <<settled, noticed>>
          \/ /\ settled' = settled \cup {i}
             /\ noticed' = noticed \cup {<<i, w>> : w \in TargetsOf[i]}
      BY <2>1 DEF StartDownload, DownloadDone, DownloadFails, Told, history
    <3>3. /\ settled \subseteq settled' /\ noticed \subseteq noticed'
          /\ \A k \in settled' \ settled : \A w \in TargetsOf[k] : <<k, w>> \in noticed'
      BY <3>2
    <3>4. QED BY <1>2, <2>0, <3>1, <3>3, StillPosts
  <2>2. CASE Elapse \/ UNCHANGED vars
    <3>1. UNCHANGED <<batches, posts, rows, old, settled, abandoned, noticed>>
      BY <2>2 DEF Elapse, vars, discord, history
    <3>2. QED BY <1>2, <2>0, <3>1, StillPosts
  <2>3. CASE Receive
    <3>1. UNCHANGED <<cursor, posts, rows, old, settled, abandoned, noticed>>
      BY <2>3 DEF Receive, loop, discord, history
    <3>2. Head(channel) \in Items
      BY <1>2, <2>3 DEF Receive, TypeInv, ChannelOK
    <3>3. CASE batches' = batches \cup {NewBatch({Head(channel)}, FALSE)}
      <4> DEFINE N == {NewBatch({Head(channel)}, FALSE)}
      <4>1. \A b \in N : b.pc = "check" /\ \A i \in b.items : TargetsOf[i] \subseteq b.todo
        BY <3>2, NewBatchOwes
      <4>2. batches' = batches \cup N
        BY <3>3
      <4> HIDE DEF N
      <4>3. QED BY <1>2, <3>1, <4>1, <4>2, NewPosts
    <3>4. CASE batches' = batches
      BY <1>2, <2>0, <3>1, <3>4, StillPosts
    <3>5. QED BY <2>3, <3>3, <3>4 DEF Receive, Flush
  <2>4. CASE AlbumTick \/ Signal
    <3>1. UNCHANGED <<cursor, posts, rows, old, settled, abandoned, noticed>>
      BY <2>4 DEF AlbumTick, Signal, loop, discord, history
    <3>2. ASSUME NEW E, NEW inline \in BOOLEAN, Released(E, inline)
          PROVE  PostInv'
      <4>1. \A g \in E : groups[g].items \in SUBSET Items /\ groups[g].items # {}
        BY <1>2, <3>2 DEF Released, TypeInv, GroupsOK
      <4> DEFINE B(g) == NewBatch(groups[g].items, inline)
                 N == {B(g) : g \in E}
      <4>2. \A g \in E : /\ B(g).pc = "check"
                         /\ \A i \in B(g).items : TargetsOf[i] \subseteq B(g).todo
        BY <4>1, NewBatchOwes
      <4>3. batches' = batches \cup N
        BY <3>2 DEF Released, Flush
      <4> HIDE DEF B
      <4>4. \A b \in N : b.pc = "check" /\ \A i \in b.items : TargetsOf[i] \subseteq b.todo
        BY <4>2
      <4> HIDE DEF N
      <4>5. QED BY <1>2, <3>1, <4>3, <4>4, NewPosts
    <3>3. QED BY <2>4, <3>2, Releases
  <2>5. CASE Exit
    <3>1. /\ UNCHANGED <<posts, rows, old, settled, noticed>> /\ batches' = {}
          /\ Batched \subseteq abandoned' /\ abandoned = {}
      BY <1>2, <2>5 DEF Exit, discord, PlaceInv, NoneYet
    <3>2. \A p \in posts : Whole(p) /\ Accounted(p)'
      BY <1>2, <3>1 DEF PostInv, Accounted, Batched
    <3>3. SettledIsAnswered'
      <4>1. \A i, v : Answered(i, v) => Answered(i, v)'
        BY <2>0, <3>1, StillAnswered
      <4>2. QED BY <1>2, <3>1, <4>1 DEF PostInv, SettledIsAnswered, Answered
    <3>4. PostsApart' /\ RowsTellThePosts'
      BY <1>2, <3>1 DEF PostInv, PostsApart, RowsTellThePosts
    <3>5. QED BY <3>1, <3>2, <3>3, <3>4 DEF PostInv
  <2>6. ASSUME NEW b \in batches, Deliver(b)
        PROVE  PostInv'
    BY <1>2, <2>6, DeliverPosts
  <2>7. ASSUME NEW r \in rows, Prune(r)
        PROVE  PostInv'
    <3>1. /\ UNCHANGED <<batches, posts, old, settled, abandoned, noticed>> /\ rows' \subseteq rows
      BY <2>7 DEF Prune, history
    <3>2. QED BY <1>2, <2>0, <3>1, StillPosts
  <2>8. CASE HandleMedia
    <3>1. UNCHANGED <<batches, posts, rows, old, settled, abandoned, noticed>>
      BY <2>8 DEF HandleMedia, discord, history
    <3>2. QED BY <1>2, <2>0, <3>1, StillPosts
  <2>9. QED BY <1>2, <2>1, <2>2, <2>3, <2>4, <2>5, <2>6, <2>7, <2>8 DEF Next
<1>3. QED BY <1>1, <1>2, TypesHold, PlacesHold, PTL DEF Spec

(* A photo is on a webhook in two messages only when a burst larger than   *)
(* the LRU came between two updates of it: neither a failure, nor a late   *)
(* sibling, nor a stop shows one update twice (handle_update, flush_album).*)
THEOREM RepeatsNeedABurstAlways == Spec => []RepeatsNeedABurst
<1>1. ASSUME TypeInv, PlaceInv, PostInv
      PROVE  RepeatsNeedABurst
  <2> SUFFICES ASSUME NEW p \in posts, NEW q \in posts, p.hook = q.hook, p # q,
                      NEW j \in p.items, NEW k \in q.items, MsgOf[j] = MsgOf[k]
               PROVE  /\ j # k
                      /\ j < k => Cardinality(Burst(MsgOf, j, k - 1)) > DedupCap
    BY DEF RepeatsNeedABurst
  <2>1. j # k
    BY <1>1 DEF PostInv, PostsApart
  <2>2. j \in Owed /\ k \in Owed
    BY <1>1, PostsAreOwed
  <2>3. j \in Nat /\ k \in Nat /\ 1 <= j
    BY <1>1, <2>2 DEF Owed, TypeInv, LoopOK
  <2>4. News(MsgOf, k, DedupCap)
    BY <2>2 DEF Owed
  <2>5. j < k => j \in 1..(k - 1)
    BY <2>3
  <2>6. QED BY <2>1, <2>4, <2>5 DEF News
<1>2. QED BY <1>1, TypesHold, PlacesHold, PostsHold, PTL

(* A row made in this life stands for a message that webhook got, and its  *)
(* anchor is an item of it that has a caption when one has.                *)
THEOREM RowsTellThePostsAlways == Spec => []RowsTellThePosts
<1>1. PostInv => RowsTellThePosts
  BY DEF PostInv
<1>2. QED BY <1>1, PostsHold, PTL

(* What the process is done with was shown on every webhook that was to    *)
(* get it, or its loss there was reported, or the store knew its batch     *)
(* from before, or by another update of it.                                *)
THEOREM SettledIsAnsweredAlways == Spec => []SettledIsAnswered
<1>1. PostInv => SettledIsAnswered
  BY DEF PostInv
<1>2. QED BY <1>1, PostsHold, PTL
-----------------------------------------------------------------------------
(* Shutdown. *)

(* A signal empties the buffer, an exit the batches. *)
ShutInv ==
    /\ stage # "running" => DOMAIN groups = {}
    /\ stage = "stopped" => batches = {}

(* They hold always. *)
LEMMA ShutHolds == Spec => []ShutInv
<1>1. Init => ShutInv
  BY DEF Init, ShutInv
<1>2. ASSUME TypeInv, ShutInv, [Next]_vars
      PROVE  ShutInv'
  <2>1. CASE Signal \/ Exit
    BY <2>1 DEF Signal, Exit, ShutInv, Empty
  <2>2. CASE Receive \/ AlbumTick
    BY <2>2 DEF Receive, AlbumTick, LoopFree, loop, ShutInv
  <2>3. ASSUME NEW b \in batches, Deliver(b)
        PROVE  ShutInv'
    BY <1>2, <2>3, DeliverMoves DEF loop, ShutInv
  <2>4. CASE UNCHANGED <<stage, groups, batches>>
    BY <1>2, <2>4 DEF ShutInv
  <2>5. ASSUME NEW i \in Items,
               StartDownload(i) \/ DownloadDone(i) \/ DownloadFails(i) \/ Told(i)
        PROVE  ShutInv'
    BY <2>4, <2>5 DEF StartDownload, DownloadDone, DownloadFails, Told, loop
  <2>6. CASE HandleMedia \/ UNCHANGED vars
    BY <2>4, <2>6 DEF HandleMedia, vars
  <2>7. CASE Elapse
    BY <1>2, <2>7 DEF Elapse, loop, ShutInv
  <2>8. ASSUME NEW r \in rows, Prune(r)
        PROVE  ShutInv'
    BY <2>4, <2>8 DEF Prune, loop
  <2>9. QED BY <1>2, <2>1, <2>2, <2>3, <2>5, <2>6, <2>7, <2>8 DEF Next
<1>3. QED BY <1>1, <1>2, TypesHold, PTL DEF Spec

(* "so they are delivered rather than dropped on shutdown": what the album *)
(* buffer held when the signal came is delivered before the process ends.  *)
THEOREM BufferedAreNotAbandonedAlways == Spec => BufferedAreNotAbandoned
<1>1. ASSUME TypeInv, ShutInv, [Next]_vars
      PROVE  [stage' = "stopped" => OwedAtShutdown \cap abandoned' = {}]_vars
  <2> SUFFICES ASSUME Next, stage' = "stopped"
               PROVE  OwedAtShutdown = {}
    BY <1>1
  <2>1. Exit \/ stage = "stopped"
    <3>1. \A b \in batches : Deliver(b) => stage' = stage
      BY <1>1, DeliverMoves DEF loop
    <3>2. HandleMedia \/ Receive \/ Elapse \/ AlbumTick => stage' = stage
      BY DEF HandleMedia, Receive, Elapse, AlbumTick, loop
    <3>3. \A i \in Items : StartDownload(i) \/ DownloadDone(i) \/ DownloadFails(i) \/ Told(i)
                              => stage' = stage
      BY DEF StartDownload, DownloadDone, DownloadFails, Told, loop
    <3>4. \A r \in rows : Prune(r) => stage' = stage
      BY DEF Prune, loop
    <3>5. ~Signal
      BY DEF Signal
    <3>6. QED BY <3>1, <3>2, <3>3, <3>4, <3>5 DEF Next
  <2>2. Buffered = {}
    BY <1>1, <2>1 DEF Exit, ShutInv, Buffered
  <2>3. {b \in batches : b.inline} = {}
    BY <1>1, <2>1 DEF ShutInv, Exit
  <2>4. QED BY <2>2, <2>3 DEF OwedAtShutdown
<1>2. QED BY <1>1, TypesHold, ShutHolds, PTL DEF Spec, BufferedAreNotAbandoned
-----------------------------------------------------------------------------
(* One message for an anchor. *)

IsOf(p, a, w) == p.anchor = a /\ p.hook = w

(* One batch at most has webhook w before it under anchor a.               *)
Sole(a, w) == \A b, c \in batches :
    Anchor(b.items) = a /\ Anchor(c.items) = a /\ w \in b.todo \cap c.todo => b = c

(* A message that was posted has its row, or its batch is about to record  *)
(* it.                                                                     *)
Remembered(a, w) ==
    (\E p \in posts : IsOf(p, a, w)) =>
        \/ <<a, w>> \in rows \/ stage = "stopped"
        \/ \E b \in batches : Anchor(b.items) = a /\ b.hook = w /\ b.pc = "record"

(* A batch about to post it is the first.                                  *)
First(a, w) == \A b \in batches :
    b.pc = "post" /\ b.hook = w /\ Anchor(b.items) = a => ~\E p \in posts : IsOf(p, a, w)

OnePost(a, w) == \A p, q \in posts : IsOf(p, a, w) /\ IsOf(q, a, w) => p = q

Sound(a, w) == Sole(a, w) /\ Remembered(a, w) /\ First(a, w) /\ OnePost(a, w)

AnchorInv == \A a \in Msgs : \A w \in Webhooks : <<a, w>> \in exposed \/ Sound(a, w)

(* A step that leaves batches and posts alone and loses no row. *)
LEMMA StillSound ==
    ASSUME NEW a, NEW w, Sound(a, w), UNCHANGED <<batches, posts>>,
           <<a, w>> \in rows => <<a, w>> \in rows', stage = "stopped" => stage' = "stopped"
    PROVE  Sound(a, w)'
  BY DEF Sound, Sole, Remembered, First, OnePost

(* New batches that meet no other under their anchor and webhook.          *)
LEMMA NewSound ==
    ASSUME NEW a \in Msgs, NEW w \in Webhooks, Sound(a, w), NEW N, Flush(N),
           \A b \in N : b.pc = "check",
           \A b, c \in N : Anchor(b.items) = Anchor(c.items) => b = c,
           <<a, w>> \notin exposed', UNCHANGED <<posts, rows>>, stage # "stopped"
    PROVE  Sound(a, w)'
<1>1. batches' = batches \cup N /\ exposed' = exposed \cup Colliding(N)
  BY DEF Flush
<1>2. ASSUME NEW b \in N, NEW c \in batches, Anchor(b.items) = a, Anchor(c.items) = a,
             w \in b.todo, w \in c.todo
      PROVE  FALSE
  <2>1. <<a, w>> \in Row /\ <<a, w>>[1] = a /\ <<a, w>>[2] = w
    BY DEF Row
  <2>2. <<a, w>> \in Colliding(N)
    BY <1>2, <2>1 DEF Colliding
  <2>3. QED BY <1>1, <2>2
<1>3. Sole(a, w)'
  <2> SUFFICES ASSUME NEW b \in batches', NEW c \in batches', Anchor(b.items) = a,
                      Anchor(c.items) = a, w \in b.todo, w \in c.todo
               PROVE  b = c
    BY DEF Sole
  <2>1. CASE b \in N /\ c \in N
    BY <2>1
  <2>2. CASE b \in batches /\ c \in batches
    BY <2>2 DEF Sound, Sole
  <2>3. QED BY <1>1, <1>2, <2>1, <2>2
<1>4. Remembered(a, w)'
  BY <1>1 DEF Sound, Remembered
<1>5. First(a, w)' /\ OnePost(a, w)'
  BY <1>1 DEF Sound, First, OnePost
<1>6. QED BY <1>3, <1>4, <1>5 DEF Sound

(* A batch that is done with a webhook it did not post on just now, or     *)
(* whose row is there.                                                     *)
LEMMA AdvanceSound ==
    ASSUME NEW a, NEW w, Sound(a, w), NEW b \in batches, BatchOK(b),
           Finished(b) \/ \E c : Replaced(b, c) /\ c.pc = "check",
           UNCHANGED <<posts, stage>>, rows \subseteq rows',
           b.pc = "record" /\ Anchor(b.items) = a /\ b.hook = w => <<a, w>> \in rows'
    PROVE  Sound(a, w)'
<1>1. OnePost(a, w)'
  BY DEF Sound, OnePost
<1>2. CASE Finished(b)
  <2>1. batches' = batches \ {b}
    BY <1>2 DEF Finished
  <2>2. QED BY <1>1, <2>1 DEF Sound, Sole, Remembered, First
<1>3. ASSUME NEW c, Replaced(b, c), c.pc = "check"
      PROVE  Sound(a, w)'
  <2>1. /\ batches' = (batches \ {b}) \cup {c} /\ c.items = b.items /\ c.todo \subseteq b.todo
    BY <1>3 DEF Replaced
  <2>2. Sole(a, w)'
    BY <2>1 DEF Sound, Sole
  <2>3. Remembered(a, w)'
    BY <2>1 DEF Sound, Remembered
  <2>4. First(a, w)'
    BY <1>3, <2>1 DEF Sound, First
  <2>5. QED BY <1>1, <2>2, <2>3, <2>4 DEF Sound
<1>4. QED BY <1>2, <1>3

(* A batch that goes on to post, where the store knows no row.             *)
LEMMA TurnSound ==
    ASSUME NEW a, NEW w, Sound(a, w), ShutInv, NEW b \in batches, BatchOK(b), b.pc = "check",
           NEW v \in b.todo, NEW c, Replaced(b, c), c.todo = b.todo, c.pc = "post", c.hook = v,
           Anchor(b.items) = a /\ v = w => <<a, w>> \notin rows,
           \A d \in batches : BatchOK(d),
           UNCHANGED <<posts, stage, rows>>
    PROVE  Sound(a, w)'
<1>1. /\ batches' = (batches \ {b}) \cup {c} /\ c.items = b.items
  BY DEF Replaced
<1>2. Sole(a, w)'
  BY <1>1 DEF Sound, Sole
<1>3. Remembered(a, w)'
  BY <1>1 DEF Sound, Remembered
<1>4. OnePost(a, w)'
  BY DEF Sound, OnePost
<1>5. First(a, w)'
  <2> SUFFICES ASSUME Anchor(b.items) = a, v = w, NEW p \in posts, IsOf(p, a, w)
               PROVE  FALSE
    BY <1>1 DEF Sound, First, IsOf
  <2>1. stage # "stopped"
    BY DEF ShutInv
  <2>2. PICK d \in batches : Anchor(d.items) = a /\ d.hook = w /\ d.pc = "record"
    BY <2>1 DEF Sound, Remembered
  <2>3. w \in d.todo
    BY <2>2 DEF BatchOK
  <2>4. d = b
    BY <2>2, <2>3 DEF Sound, Sole
  <2>5. QED BY <2>2, <2>4
<1>6. QED BY <1>2, <1>3, <1>4, <1>5 DEF Sound

(* The message is posted, as the first one. *)
LEMMA PostSound ==
    ASSUME NEW a, NEW w, Sound(a, w), NEW b \in batches, BatchOK(b), PostDelivered(b),
           \A d \in batches : BatchOK(d)
    PROVE  Sound(a, w)'
<1> DEFINE q == [hook |-> b.hook, anchor |-> Anchor(b.items), items |-> b.items,
                 files |-> FilesFor(b.items, b.hook)]
<1>1. PICK c : Replaced(b, c) /\ c.todo = b.todo /\ c.pc = "record" /\ c.hook = b.hook
  BY Posts
<1>2. /\ batches' = (batches \ {b}) \cup {c} /\ c.items = b.items /\ posts' = posts \cup {q}
      /\ q.hook = b.hook /\ q.anchor = Anchor(b.items) /\ b.pc = "post" /\ b.hook \in b.todo
      /\ UNCHANGED <<rows, stage>>
  BY <1>1 DEF PostDelivered, Replaced, BatchOK, loop
<1> HIDE DEF q
<1>3. Sole(a, w)'
  BY <1>1, <1>2 DEF Sound, Sole
<1>4. CASE IsOf(q, a, w)
  <2>1. Anchor(b.items) = a /\ b.hook = w
    BY <1>2, <1>4 DEF IsOf
  <2>2. ~\E p \in posts : IsOf(p, a, w)
    BY <1>2, <2>1 DEF Sound, First
  <2>3. OnePost(a, w)'
    BY <1>2, <2>2 DEF OnePost
  <2>4. Remembered(a, w)'
    BY <1>1, <1>2, <2>1 DEF Remembered
  <2>5. First(a, w)'
    <3> SUFFICES ASSUME NEW d \in batches', d.pc = "post", d.hook = w, Anchor(d.items) = a
                 PROVE  FALSE
      BY DEF First
    <3>1. d \in batches /\ d # b
      BY <1>1, <1>2
    <3>2. w \in d.todo /\ w \in b.todo
      BY <1>2, <2>1, <3>1 DEF BatchOK
    <3>3. QED BY <2>1, <3>1, <3>2 DEF Sound, Sole
  <2>6. QED BY <1>3, <2>3, <2>4, <2>5 DEF Sound
<1>5. CASE ~IsOf(q, a, w)
  <2>1. OnePost(a, w)'
    BY <1>2, <1>5 DEF Sound, OnePost
  <2>2. Remembered(a, w)'
    BY <1>2, <1>5 DEF Sound, Remembered
  <2>3. First(a, w)'
    BY <1>1, <1>2, <1>5 DEF Sound, First
  <2>4. QED BY <1>3, <2>1, <2>2, <2>3 DEF Sound
<1>6. QED BY <1>4, <1>5

(* Each step of a delivery keeps it, or exposes it.                        *)
LEMMA DeliverSound ==
    ASSUME TypeInv, ShutInv, NEW a, NEW w, Sound(a, w), NEW b \in batches, Deliver(b),
           <<a, w>> \notin exposed'
    PROVE  Sound(a, w)'
<1>1. BatchOK(b) /\ \A d \in batches : BatchOK(d)
  BY DEF TypeInv, BatchesOK
<1>2. ASSUME NEW v \in b.todo, Advance(b, v)
      PROVE  Finished(b) \/ \E c : Replaced(b, c) /\ c.pc = "check"
  BY <1>1, <1>2, Advances
<1>3. ASSUME NEW v \in Webhooks, CheckStore(b, v)
      PROVE  Sound(a, w)'
  <2>1. b.pc = "check" /\ v \in b.todo /\ UNCHANGED <<posts, stage, rows>>
    BY <1>3 DEF CheckStore, loop, discord
  <2>2. CASE Advance(b, v)
    BY <1>1, <1>2, <2>1, <2>2, AdvanceSound
  <2>3. CASE <<Anchor(b.items), v>> \notin rows /\ Turn(b, v)
    <3>1. PICK c : Replaced(b, c) /\ c.todo = b.todo /\ c.pc = "post" /\ c.hook = v
      BY <1>1, <2>1, <2>3, Turns
    <3>2. QED BY <1>1, <2>1, <2>3, <3>1, TurnSound
  <2>4. QED BY <1>3, <2>2, <2>3 DEF CheckStore
<1>4. ASSUME NEW v \in Webhooks, CheckError(b, v)
      PROVE  Sound(a, w)'
  <2>1. /\ b.pc = "check" /\ v \in b.todo /\ Turn(b, v) /\ UNCHANGED <<posts, stage, rows>>
        /\ <<Anchor(b.items), v>> \in exposed'
    BY <1>4 DEF CheckError, loop, discord
  <2>2. ~(Anchor(b.items) = a /\ v = w)
    BY <2>1
  <2>3. PICK c : Replaced(b, c) /\ c.todo = b.todo /\ c.pc = "post" /\ c.hook = v
    BY <1>1, <2>1, Turns
  <2>4. QED BY <1>1, <2>1, <2>2, <2>3, TurnSound
<1>5. CASE PostDelivered(b)
  BY <1>1, <1>5, PostSound
<1>6. CASE PostDropped(b)
  <2>1. b.pc = "post" /\ Advance(b, b.hook) /\ UNCHANGED <<posts, stage, rows>>
    BY <1>6 DEF PostDropped, loop, discord
  <2>2. b.hook \in b.todo
    BY <1>1, <2>1 DEF BatchOK
  <2>3. QED BY <1>1, <1>2, <2>1, <2>2, AdvanceSound
<1>7. CASE RecordRow(b)
  <2>1. /\ b.pc = "record" /\ Advance(b, b.hook) /\ UNCHANGED <<posts, stage>>
        /\ rows' = rows \cup {<<Anchor(b.items), b.hook>>}
    BY <1>7 DEF RecordRow, loop
  <2>2. b.hook \in b.todo
    BY <1>1, <2>1 DEF BatchOK
  <2>3. QED BY <1>1, <1>2, <2>1, <2>2, AdvanceSound
<1>8. CASE RecordError(b)
  <2>1. /\ b.pc = "record" /\ Advance(b, b.hook) /\ UNCHANGED <<posts, stage, rows>>
        /\ <<Anchor(b.items), b.hook>> \in exposed'
    BY <1>8 DEF RecordError, loop, discord
  <2>2. b.hook \in b.todo
    BY <1>1, <2>1 DEF BatchOK
  <2>3. ~(Anchor(b.items) = a /\ b.hook = w)
    BY <2>1
  <2>4. QED BY <1>1, <1>2, <2>1, <2>2, <2>3, AdvanceSound
<1>9. QED BY <1>3, <1>4, <1>5, <1>6, <1>7, <1>8 DEF Deliver

(* Albums that are released together have different anchors.               *)
LEMMA ReleasedApart ==
    ASSUME TypeInv, PlaceInv, NEW E \in SUBSET DOMAIN groups, NEW inline \in BOOLEAN,
           NEW g \in E, NEW h \in E,
           Anchor(NewBatch(groups[g].items, inline).items)
             = Anchor(NewBatch(groups[h].items, inline).items)
    PROVE  g = h
<1>1. ASSUME NEW f \in E
      PROVE  /\ NewBatch(groups[f].items, inline).items = groups[f].items
             /\ GroupOf[Anchor(groups[f].items)] = f
  <2>1. groups[f].items \in SUBSET Items /\ groups[f].items # {}
    BY DEF TypeInv, GroupsOK
  <2>2. Anchor(groups[f].items) \in MsgsOf(groups[f].items)
    BY <2>1, AnchorIn
  <2>3. PICK i \in groups[f].items : MsgOf[i] = Anchor(groups[f].items)
    BY <2>2 DEF MsgsOf
  <2>4. GroupOf[MsgOf[i]] = f
    BY DEF PlaceInv, OwnGroup
  <2>5. QED BY <2>1, <2>3, <2>4, NewBatchOK
<1>2. QED BY <1>1

(* They hold always. *)
LEMMA AnchorsHold == Spec => []AnchorInv
<1>1. Init => AnchorInv
  BY DEF Init, AnchorInv, Sound, Sole, Remembered, First, OnePost
<1>2. ASSUME TypeInv, PlaceInv, ShutInv, AnchorInv, [Next]_vars
      PROVE  AnchorInv'
  <2> SUFFICES ASSUME NEW a \in Msgs, NEW w \in Webhooks, <<a, w>> \notin exposed'
               PROVE  Sound(a, w)'
    BY DEF AnchorInv
  <2>1. ASSUME exposed \subseteq exposed'
        PROVE  Sound(a, w)
    BY <1>2, <2>1 DEF AnchorInv
  <2>2. ASSUME NEW b \in batches, Deliver(b)
        PROVE  Sound(a, w)'
    <3>1. Sound(a, w)
      BY <1>2, <2>1, <2>2, DeliverMoves
    <3>2. QED BY <1>2, <2>2, <3>1, DeliverSound
  <2>3. CASE UNCHANGED <<stage, batches, posts, rows, exposed>>
    BY <2>1, <2>3, StillSound
  <2>4. ASSUME NEW i \in Items,
               StartDownload(i) \/ DownloadDone(i) \/ DownloadFails(i) \/ Told(i)
        PROVE  Sound(a, w)'
    BY <2>3, <2>4 DEF StartDownload, DownloadDone, DownloadFails, Told, loop, discord
  <2>5. CASE HandleMedia \/ Elapse \/ UNCHANGED vars
    BY <2>3, <2>5 DEF HandleMedia, Elapse, vars, loop, discord
  <2>6. CASE Receive
    <3>1. UNCHANGED <<stage, posts, rows>> /\ stage # "stopped" /\ Head(channel) \in Items
      BY <1>2, <2>6 DEF Receive, LoopFree, loop, discord, TypeInv, ChannelOK
    <3>2. CASE UNCHANGED <<batches, exposed>>
      BY <2>3, <3>1, <3>2
    <3>3. CASE Flush({NewBatch({Head(channel)}, FALSE)})
      <4>1. NewBatch({Head(channel)}, FALSE).pc = "check"
        BY <3>1, NewBatchOK
      <4> DEFINE N == {NewBatch({Head(channel)}, FALSE)}
      <4>2. /\ Flush(N) /\ \A b \in N : b.pc = "check"
            /\ \A b, c \in N : b = c
        BY <3>3, <4>1
      <4> HIDE DEF N
      <4>3. Sound(a, w)
        BY <2>1, <4>2 DEF Flush
      <4>4. QED BY <3>1, <4>2, <4>3, NewSound
    <3>4. QED BY <2>6, <3>2, <3>3 DEF Receive
  <2>7. CASE AlbumTick \/ Signal
    <3>1. UNCHANGED <<posts, rows>> /\ stage # "stopped"
      BY <2>7 DEF AlbumTick, Signal, LoopFree, discord
    <3>2. ASSUME NEW E, NEW inline \in BOOLEAN, Released(E, inline)
          PROVE  Sound(a, w)'
      <4> DEFINE B(g) == NewBatch(groups[g].items, inline)
                 N == {B(g) : g \in E}
      <4>1. E \in SUBSET DOMAIN groups /\ Flush(N)
        BY <3>2 DEF Released
      <4>2. \A g \in E : B(g).pc = "check"
        <5> SUFFICES ASSUME NEW g \in E
                     PROVE  NewBatch(groups[g].items, inline).pc = "check"
          OBVIOUS
        <5>1. groups[g].items \in SUBSET Items /\ groups[g].items # {}
          BY <1>2, <4>1 DEF TypeInv, GroupsOK
        <5> DEFINE items == groups[g].items
        <5> HIDE DEF items
        <5>2. NewBatch(items, inline).pc = "check"
          BY <5>1, NewBatchOK DEF items
        <5>3. QED BY <5>2 DEF items
      <4>3. \A g, h \in E : Anchor(B(g).items) = Anchor(B(h).items) => g = h
        BY <1>2, <4>1, ReleasedApart
      <4> HIDE DEF B
      <4>4. /\ \A b \in N : b.pc = "check"
            /\ \A b, c \in N : Anchor(b.items) = Anchor(c.items) => b = c
        BY <4>2, <4>3
      <4> HIDE DEF N
      <4>5. Sound(a, w)
        BY <2>1, <4>1 DEF Flush
      <4>6. QED BY <3>1, <4>1, <4>4, <4>5, NewSound
    <3>3. QED BY <2>7, <3>2, Releases
  <2>8. CASE Exit
    <3>1. /\ Sound(a, w) /\ stage' = "stopped" /\ batches' = {} /\ posts' = posts
      BY <2>1, <2>8 DEF Exit, discord
    <3>2. Sole(a, w)' /\ First(a, w)'
      BY <3>1 DEF Sole, First
    <3>3. Remembered(a, w)'
      BY <3>1 DEF Remembered
    <3>4. OnePost(a, w)'
      BY <3>1 DEF Sound, OnePost
    <3>5. QED BY <3>2, <3>3, <3>4 DEF Sound
  <2>9. ASSUME NEW r \in rows, Prune(r)
        PROVE  Sound(a, w)'
    <3>1. /\ rows' = rows \ {r} /\ exposed' = exposed \cup {r}
          /\ UNCHANGED <<stage, batches, posts>>
      BY <2>9 DEF Prune, loop
    <3>2. Sound(a, w) /\ (<<a, w>> \in rows => <<a, w>> \in rows')
      BY <2>1, <3>1
    <3>3. QED BY <3>1, <3>2, StillSound
  <2>10. QED BY <1>2, <2>2, <2>4, <2>5, <2>6, <2>7, <2>8, <2>9 DEF Next
<1>3. QED BY <1>1, <1>2, TypesHold, PlacesHold, ShutHolds, PTL DEF Spec

(* The store keeps two messages of one anchor off a webhook, unless it     *)
(* could not be read or written, the row was pruned, or two batches were   *)
(* at it at once (deliver_coalesced_media).                                *)
THEOREM AnchorsRepeatExposedAlways == Spec => []AnchorsRepeatExposed
<1>1. ASSUME TypeInv, AnchorInv
      PROVE  AnchorsRepeatExposed
  <2> SUFFICES ASSUME NEW p \in posts, NEW q \in posts, p.hook = q.hook, p.anchor = q.anchor, p # q
               PROVE  <<p.anchor, p.hook>> \in exposed
    BY DEF AnchorsRepeatExposed
  <2>1. p.anchor \in Msgs /\ p.hook \in Webhooks
    BY <1>1 DEF TypeInv, StoreOK, Post
  <2>2. ~OnePost(p.anchor, p.hook)
    BY DEF OnePost, IsOf
  <2>3. QED BY <1>1, <2>1, <2>2 DEF AnchorInv, Sound
<1>2. QED BY <1>1, TypesHold, AnchorsHold, PTL
=============================================================================
