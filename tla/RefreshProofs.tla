--------------------------- MODULE RefreshProofs ---------------------------
(***************************************************************************)
(* Proofs about the refresh worker, for any posts, messages, cadence and   *)
(* number of changes and faults.                                           *)
(***************************************************************************)
EXTENDS Refresh, FiniteSetTheorems, TLAPS

(* The types, as the proofs use them, in named parts. *)
SourceOK ==
    /\ src \in [Msgs -> Source] /\ had \in [Msgs -> SUBSET Texts]
    /\ changes \in 0..MaxChanges

StoreOK ==
    /\ tracked \subseteq Keys /\ row \in [tracked -> Row]
    /\ tracked \subseteq DOMAIN embed /\ DOMAIN embed \subseteq Keys
    /\ embed \in [DOMAIN embed -> Embed]

FlagsOK == up \in BOOLEAN /\ owed \in BOOLEAN /\ busy \in BOOLEAN

Steps == {"mark", "stats", "delete"}

(* A tick works on rows that are there, and between ticks on none. *)
TickOK ==
    /\ picks \subseteq tracked /\ todo \subseteq tracked /\ picks \cap todo = {}
    /\ allow \subseteq tracked
    /\ DOMAIN answer \subseteq Msgs /\ answer \in [DOMAIN answer -> Answer]
    /\ \A k \in todo : MsgOf[k] \in DOMAIN answer
    /\ landed = {} \/ \E k \in todo, s \in Steps : landed = {[key |-> k, step |-> s]}
    /\ ~busy => picks = {} /\ todo = {}

CountsOK ==
    /\ excused \subseteq Keys
    /\ stale \in [Keys -> Nat] /\ polled \in [Keys -> Nat]
    /\ fired \in [Keys -> SUBSET Checkpoints]

NumbersOK ==
    /\ phase \in 0..(Base - 1)
    /\ slow \in 0..MaxSlow /\ faults \in 0..MaxFaults

TypeInv == SourceOK /\ StoreOK /\ FlagsOK /\ TickOK /\ CountsOK /\ NumbersOK

(* A change of the source touches neither the rows nor the tick. *)
LEMMA ChangeTypes ==
    ASSUME TypeInv, NEW m \in Msgs, NEW s \in Source, Change(m, s)
    PROVE  TypeInv'
<1> USE RefreshAssumption
<1>1. SourceOK'
  BY DEF Change, TypeInv, SourceOK, Source
<1>2. CountsOK'
  BY DEF Change, TypeInv, CountsOK
<1>3. StoreOK' /\ FlagsOK' /\ TickOK' /\ NumbersOK'
  BY DEF Change, TypeInv, StoreOK, FlagsOK, TickOK, NumbersOK, store, ticker, tick
<1>4. QED BY <1>1, <1>2, <1>3 DEF TypeInv

(* Delivery records a post under a key that is new.                        *)
LEMMA RecordTypes ==
    ASSUME TypeInv, NEW k \in Keys, NEW t \in Texts, NEW live \in BOOLEAN, Record(k, t, live)
    PROVE  TypeInv'
<1> USE RefreshAssumption
<1> DEFINE m == MsgOf[k]
           n == IF live THEN 0 ELSE src[m].likes
           c == IF live THEN 0 ELSE src[m].comments
           e == [body |-> [text |-> t, notice |-> m \in Noticed], likes |-> n,
                 comments |-> c, edited |-> FALSE, deleted |-> FALSE]
           r == [hash |-> Hashed(m, t, live), likes |-> n, comments |-> c,
                 edited |-> FALSE, deleted |-> FALSE, age |-> 0, checked |-> 0]
<1>1. src[m] \in Source
  BY DEF TypeInv, SourceOK
<1>2. n \in 0..1 /\ c \in 0..1
  BY <1>1 DEF Source
<1>3. e \in Embed /\ r \in Row
  <2>1. [text |-> t, notice |-> m \in Noticed] \in Body /\ Hashed(m, t, live) \in Body
    BY DEF Body, Hashed
  <2>2. 0 \in Ages
    BY DEF Ages
  <2>3. QED BY <1>2, <2>1, <2>2 DEF Embed, Row
<1>4. /\ k \notin DOMAIN embed /\ tracked' = tracked \cup {k}
      /\ embed' = [q \in DOMAIN embed \cup {k} |-> IF q # k THEN embed[q] ELSE e]
      /\ row' = [q \in tracked \cup {k} |-> IF q # k THEN row[q] ELSE r]
      /\ UNCHANGED <<source, up, ticker, tick, history, faults>>
  BY DEF Record
<1> HIDE DEF e, r
<1>5. StoreOK'
  BY <1>3, <1>4 DEF TypeInv, StoreOK
<1>6. TickOK'
  BY <1>4 DEF TypeInv, TickOK, tick
<1>7. SourceOK' /\ FlagsOK' /\ CountsOK' /\ NumbersOK'
  BY <1>4 DEF TypeInv, SourceOK, FlagsOK, CountsOK, NumbersOK, source, ticker, tick, history
<1>8. QED BY <1>5, <1>6, <1>7 DEF TypeInv

(* Rows grow older; nothing else of the store changes with time.           *)
LEMMA ElapseTypes ==
    ASSUME TypeInv, Elapse
    PROVE  TypeInv'
<1> USE RefreshAssumption
<1>1. StoreOK'
  <2>1. \A k \in tracked : (IF row[k].age > Horizon THEN row[k]
                            ELSE [row[k] EXCEPT !.age = @ + 1]) \in Row
    BY DEF TypeInv, StoreOK, Row, Ages
  <2>2. QED BY <2>1 DEF Elapse, TypeInv, StoreOK
<1>2. TickOK'
  BY DEF Elapse, TypeInv, TickOK, tick
<1>3. CountsOK'
  BY DEF Elapse, TypeInv, CountsOK
<1>4. NumbersOK'
  <2>1. phase' \in 0..(Base - 1)
    BY DEF Elapse, TypeInv, NumbersOK
  <2>2. slow' \in 0..MaxSlow
    BY DEF Elapse, TypeInv, NumbersOK
  <2>3. QED BY <2>1, <2>2 DEF Elapse, TypeInv, NumbersOK
<1>5. SourceOK' /\ FlagsOK'
  BY DEF Elapse, TypeInv, SourceOK, FlagsOK, source, tick
<1>6. QED BY <1>1, <1>2, <1>3, <1>4, <1>5 DEF TypeInv

(* A tick starts with rows that are recorded.                              *)
LEMMA StartTypes ==
    ASSUME TypeInv, TickIdle \/ TickStart \/ TickFails
    PROVE  TypeInv'
<1>1. CASE TickIdle
  BY <1>1 DEF TickIdle, TypeInv, SourceOK, StoreOK, FlagsOK, TickOK, CountsOK, NumbersOK,
              source, store, tick, history
<1>2. CASE TickStart
  <2>1. Due \subseteq tracked /\ Due \subseteq Keys
    BY DEF Due, TypeInv, StoreOK
  <2>2. TickOK'
    BY <1>2, <2>1 DEF TickStart, TypeInv, TickOK, store
  <2>3. CountsOK'
    BY <1>2 DEF TickStart, TypeInv, CountsOK, Crossed
  <2>4. SourceOK' /\ StoreOK' /\ FlagsOK' /\ NumbersOK'
    BY <1>2 DEF TickStart, TypeInv, SourceOK, StoreOK, FlagsOK, NumbersOK, source, store
  <2>5. QED BY <2>2, <2>3, <2>4 DEF TypeInv
<1>3. CASE TickFails
  <2>1. NumbersOK' /\ CountsOK'
    BY <1>3, RefreshAssumption DEF TickFails, Strike, TypeInv, NumbersOK, CountsOK
  <2>2. TickOK'
    BY <1>3 DEF TickFails, TypeInv, TickOK, store, tick
  <2>3. SourceOK' /\ StoreOK' /\ FlagsOK'
    BY <1>3 DEF TickFails, TypeInv, SourceOK, StoreOK, FlagsOK, source, store, tick
  <2>4. QED BY <2>1, <2>2, <2>3 DEF TypeInv
<1>4. QED BY <1>1, <1>2, <1>3

(* What Telegram answers about a message.                                  *)
LEMMA SlotTypes ==
    ASSUME SourceOK, NEW m \in Msgs, NEW counted \in BOOLEAN
    PROVE  SlotOf(m, counted) \in Answer
<1>1. src[m] \in Source
  BY DEF SourceOK
<1>2. QED BY <1>1 DEF SlotOf, Answer, Source

(* A fetch moves rows from the picked to those to be applied.              *)
LEMMA FetchTypes ==
    ASSUME TypeInv, NEW c, Fetch(c)
    PROVE  TypeInv'
<1> USE RefreshAssumption
<1> DEFINE mine == {k \in picks : ChatOf[MsgOf[k]] = c}
           ids  == {MsgOf[k] : k \in mine}
<1>1. PICK lost \in SUBSET ids, counted \in BOOLEAN :
        /\ IF lost = {} THEN UNCHANGED faults ELSE Strike("fetch")
        /\ answer' = [m \in ids \ lost |-> SlotOf(m, counted)]
        /\ todo' = {k \in mine : MsgOf[k] \notin lost}
        /\ polled' = [k \in Keys |-> IF k \in todo' THEN polled[k] + 1 ELSE polled[k]]
        /\ stale' = [k \in Keys |-> IF k \in mine \ todo' THEN 0 ELSE stale[k]]
  BY DEF Fetch
<1>2. /\ busy /\ todo = {} /\ picks' = picks \ mine
      /\ UNCHANGED <<source, store, embed, up, ticker, busy, allow, landed, excused, fired>>
  BY DEF Fetch
<1>3. mine \subseteq tracked /\ ids \subseteq Msgs
  BY DEF TypeInv, TickOK, StoreOK
<1>4. TickOK'
  <2>1. landed' = {}
    BY <1>2 DEF TypeInv, TickOK
  <2>2. answer' \in [ids \ lost -> Answer]
    BY <1>1, <1>3, SlotTypes DEF TypeInv
  <2>3. /\ picks' \subseteq tracked' /\ todo' \subseteq tracked' /\ picks' \cap todo' = {}
        /\ allow' \subseteq tracked'
    BY <1>1, <1>2, <1>3 DEF TypeInv, TickOK, store
  <2>4. \A k \in todo' : MsgOf[k] \in DOMAIN answer'
    BY <1>1
  <2>5. QED BY <1>1, <1>2, <1>3, <2>1, <2>2, <2>3, <2>4 DEF TickOK
<1>5. CountsOK'
  BY <1>1, <1>2 DEF TypeInv, CountsOK
<1>6. NumbersOK'
  BY <1>1, <1>2 DEF TypeInv, NumbersOK, Strike, ticker
<1>7. SourceOK' /\ StoreOK' /\ FlagsOK'
  BY <1>2 DEF TypeInv, SourceOK, StoreOK, FlagsOK, source, store, ticker
<1>8. QED BY <1>4, <1>5, <1>6, <1>7 DEF TypeInv

(* What the worker makes of a row it applies. *)
LEMMA RowTypes ==
    ASSUME TypeInv, NEW k \in todo
    PROVE  /\ k \in tracked /\ k \in DOMAIN embed /\ k \in Keys
           /\ row[k] \in Row /\ Slot(k) \in Answer /\ embed[k] \in Embed
           /\ Touched(k) \in Row
           /\ [Touched(k) EXCEPT !.deleted = TRUE] \in Row
           /\ [Touched(k) EXCEPT !.hash = FetchedBody(k), !.likes = Slot(k).likes,
                                 !.comments = EffectiveComments(k)] \in Row
           /\ Rebuilt(k) \in Embed
<1>1. /\ k \in tracked /\ k \in DOMAIN embed /\ k \in Keys
      /\ row[k] \in Row /\ Slot(k) \in Answer /\ embed[k] \in Embed
  BY DEF TypeInv, StoreOK, TickOK, Slot
<1>2. Touched(k) \in Row
  BY <1>1 DEF Touched, Row
<1>3. [Touched(k) EXCEPT !.deleted = TRUE] \in Row
  BY <1>2 DEF Row
<1>4. FetchedBody(k) \in Body /\ Slot(k).likes \in 0..1 /\ EffectiveComments(k) \in 0..1
  BY <1>1 DEF FetchedBody, Body, Answer, Row, EffectiveComments
<1>5. [Touched(k) EXCEPT !.hash = FetchedBody(k), !.likes = Slot(k).likes,
                         !.comments = EffectiveComments(k)] \in Row
  BY <1>2, <1>4 DEF Row
<1>6. Rebuilt(k) \in Embed
  <2>1. CASE Kind(k) = "Deleted"
    BY <1>1, <2>1 DEF Rebuilt, Embed, Row
  <2>2. CASE Kind(k) # "Deleted"
    <3>1. (row[k].edited \/ Kind(k) = "Edited") \in BOOLEAN
      OBVIOUS
    <3>2. QED BY <1>4, <2>2, <3>1 DEF Rebuilt, Embed
  <2>3. QED BY <2>1, <2>2
<1>7. QED BY <1>1, <1>2, <1>3, <1>5, <1>6

(* A step that is done with row k and writes it, or leaves it.             *)
LEMMA AppliedTypes ==
    ASSUME TypeInv, NEW k \in todo, Done(k),
           NEW r \in Row, row' = [row EXCEPT ![k] = r] \/ row' = row,
           embed' = [embed EXCEPT ![k] = Rebuilt(k)] \/ embed' = embed,
           excused' \in {excused, excused \cup {k}, excused \ {k}},
           stale' \in {stale, [stale EXCEPT ![k] = 0]},
           faults' \in 0..MaxFaults,
           UNCHANGED <<source, tracked, up, ticker, busy, picks, allow, answer, fired, polled>>
    PROVE  TypeInv'
<1>1. StoreOK'
  <2>1. row' \in [tracked -> Row]
    BY RowTypes DEF TypeInv, StoreOK
  <2>2. embed' \in [DOMAIN embed -> Embed] /\ DOMAIN embed' = DOMAIN embed
    BY RowTypes DEF TypeInv, StoreOK
  <2>3. QED BY <2>1, <2>2 DEF TypeInv, StoreOK
<1>2. TickOK'
  BY DEF TypeInv, TickOK, Done
<1>3. CountsOK'
  <2>1. excused' \subseteq Keys
    BY RowTypes DEF TypeInv, CountsOK
  <2>2. stale' \in [Keys -> Nat]
    <3>1. CASE stale' = stale
      BY <3>1 DEF TypeInv, CountsOK
    <3>2. CASE stale' = [stale EXCEPT ![k] = 0]
      BY <3>2 DEF TypeInv, CountsOK
    <3>3. QED BY <3>1, <3>2
  <2>3. QED BY <2>1, <2>2 DEF TypeInv, CountsOK
<1>4. SourceOK' /\ FlagsOK' /\ NumbersOK'
  BY DEF TypeInv, SourceOK, FlagsOK, NumbersOK, source, ticker
<1>5. QED BY <1>1, <1>2, <1>3, <1>4 DEF TypeInv

(* Applying a row, in each of its ways.                                    *)
LEMMA ApplyTypes ==
    ASSUME TypeInv, NEW k \in todo, Apply(k)
    PROVE  TypeInv'
<1>1. /\ Touched(k) \in Row /\ [Touched(k) EXCEPT !.deleted = TRUE] \in Row
      /\ k \in tracked /\ k \in DOMAIN embed /\ row[k] \in Row /\ Rebuilt(k) \in Embed
  BY RowTypes
<1>2. ASSUME NEW kind, Strike(kind)
      PROVE  faults' \in 0..MaxFaults
  BY <1>2, RefreshAssumption DEF Strike, TypeInv, NumbersOK
<1>3. faults \in 0..MaxFaults
  BY DEF TypeInv, NumbersOK
<1>4. CASE Touch(k)
  <2>1. PICK r \in Row : row' = [row EXCEPT ![k] = r] \/ row' = row
    BY <1>1, <1>4 DEF Touch, Write
  <2>2. faults' \in 0..MaxFaults
    BY <1>2, <1>3, <1>4 DEF Touch, Write
  <2>3. QED BY <1>4, <2>1, <2>2, AppliedTypes DEF Touch, history
<1>5. CASE PatchDropped(k)
  <2>1. row' = [row EXCEPT ![k] = Touched(k)] \/ row' = row
    BY <1>5 DEF PatchDropped, WriteAfterFault
  <2>2. faults' \in 0..MaxFaults
    BY <1>2, <1>5 DEF PatchDropped
  <2>3. QED BY <1>1, <1>5, <2>1, <2>2, AppliedTypes DEF PatchDropped
<1>6. CASE PatchReplyLost(k)
  <2>1. row' = [row EXCEPT ![k] = Touched(k)] \/ row' = row
    BY <1>6 DEF PatchReplyLost, WriteAfterFault
  <2>2. faults' \in 0..MaxFaults
    BY <1>2, <1>6 DEF PatchReplyLost
  <2>3. QED BY <1>1, <1>6, <2>1, <2>2, AppliedTypes DEF PatchReplyLost
<1>7. ASSUME NEW step \in {"stats", "delete"}, Save(k, step)
      PROVE  TypeInv'
  <2>1. PICK r \in Row : row' = [row EXCEPT ![k] = r]
    BY <1>7, RowTypes DEF Save
  <2>2. QED BY <1>3, <1>7, <2>1, AppliedTypes DEF Save
<1>8. CASE SaveFails(k)
  <2>1. faults' \in 0..MaxFaults
    BY <1>2, <1>8 DEF SaveFails
  <2>2. QED BY <1>1, <1>8, <2>1, AppliedTypes DEF SaveFails, store
<1>9. CASE PatchLands(k)
  <2>1. StoreOK'
    BY <1>1, <1>9 DEF PatchLands, TypeInv, StoreOK, store
  <2>2. TickOK'
    <3>1. PICK s \in Steps : landed' = {[key |-> k, step |-> s]}
      BY <1>9 DEF PatchLands, Steps
    <3>2. QED BY <1>9, <3>1 DEF PatchLands, TypeInv, TickOK, store
  <2>3. SourceOK' /\ FlagsOK' /\ CountsOK' /\ NumbersOK'
    BY <1>9 DEF PatchLands, TypeInv, SourceOK, FlagsOK, CountsOK, NumbersOK, source, ticker, history
  <2>4. QED BY <2>1, <2>2, <2>3 DEF TypeInv
<1>10. CASE MarkEdited(k)
  <2>1. row' = [row EXCEPT ![k] = [row[k] EXCEPT !.edited = TRUE]] /\ [row[k] EXCEPT !.edited = TRUE] \in Row
    BY <1>1, <1>10 DEF MarkEdited, Row
  <2>2. StoreOK'
    BY <1>10, <2>1 DEF MarkEdited, TypeInv, StoreOK
  <2>3. TickOK'
    <3>1. landed' = {[key |-> k, step |-> "stats"]}
      BY <1>10 DEF MarkEdited
    <3>2. QED BY <1>10, <3>1 DEF MarkEdited, TypeInv, TickOK, Steps
  <2>4. SourceOK' /\ FlagsOK' /\ CountsOK' /\ NumbersOK'
    BY <1>10 DEF MarkEdited, TypeInv, SourceOK, FlagsOK, CountsOK, NumbersOK, source, ticker, history
  <2>5. QED BY <2>2, <2>3, <2>4 DEF TypeInv
<1>11. QED BY <1>4, <1>5, <1>6, <1>7, <1>8, <1>9, <1>10 DEF Apply

(* A prune takes rows away when the tick works on none.                    *)
LEMMA PruneTypes ==
    ASSUME TypeInv, Prune \/ PruneFails
    PROVE  TypeInv'
<1>1. StoreOK'
  BY DEF Prune, PruneFails, TypeInv, StoreOK, store
<1>2. TickOK'
  BY DEF Prune, PruneFails, TypeInv, TickOK, Nothing, store
<1>3. SourceOK' /\ FlagsOK' /\ CountsOK'
  BY DEF Prune, PruneFails, TypeInv, SourceOK, FlagsOK, CountsOK, source, ticker, history
<1>4. NumbersOK'
  BY RefreshAssumption DEF Prune, PruneFails, Strike, TypeInv, NumbersOK, ticker
<1>5. QED BY <1>1, <1>2, <1>3, <1>4 DEF TypeInv

(* A crash ends the tick where it is.                                      *)
LEMMA CrashTypes ==
    ASSUME TypeInv, Crash \/ Restart
    PROVE  TypeInv'
<1> USE RefreshAssumption
<1>1. TickOK'
  BY DEF Crash, Restart, TypeInv, TickOK, Nothing, tick, store
<1>2. CountsOK'
  <2>1. \A l \in landed : l.key \in Keys
    BY DEF TypeInv, TickOK, StoreOK
  <2>2. QED BY <2>1 DEF Crash, Restart, TypeInv, CountsOK, history
<1>3. NumbersOK'
  BY DEF Crash, Restart, TypeInv, NumbersOK, Strike
<1>4. SourceOK' /\ StoreOK' /\ FlagsOK'
  BY DEF Crash, Restart, TypeInv, SourceOK, StoreOK, FlagsOK, source, store, tick
<1>5. QED BY <1>1, <1>2, <1>3, <1>4 DEF TypeInv

(* Every step keeps the types.                                             *)
LEMMA TypesStay ==
    ASSUME TypeInv, [Next]_vars
    PROVE  TypeInv'
<1> USE RefreshAssumption
<1>1. ASSUME NEW m \in Msgs, NEW t \in Texts, EditSource(m, t)
      PROVE  TypeInv'
  <2>1. [src[m] EXCEPT !.text = t] \in Source
    BY DEF TypeInv, SourceOK, Source
  <2>2. QED BY <1>1, <2>1, ChangeTypes DEF EditSource
<1>2. ASSUME NEW m \in Msgs, React(m) \/ Comment(m) \/ DeleteSource(m)
      PROVE  TypeInv'
  <2>1. /\ [src[m] EXCEPT !.likes = 1 - @] \in Source
        /\ [src[m] EXCEPT !.comments = 1] \in Source
        /\ [src[m] EXCEPT !.where = "gone"] \in Source
    BY DEF TypeInv, SourceOK, Source, Where
  <2>2. QED BY <1>2, <2>1, ChangeTypes DEF React, Comment, DeleteSource
<1>3. ASSUME NEW k \in todo, Apply(k)
      PROVE  TypeInv'
  BY <1>3, ApplyTypes
<1>4. CASE UNCHANGED vars
  BY <1>4 DEF vars, TypeInv, SourceOK, StoreOK, FlagsOK, TickOK, CountsOK, NumbersOK
<1>5. QED BY <1>1, <1>2, <1>3, <1>4, RecordTypes, ElapseTypes, StartTypes, FetchTypes,
            PruneTypes, CrashTypes
         DEF Next, Working

(* They hold at the start.                                                 *)
LEMMA TypesStart ==
    ASSUME Init
    PROVE  TypeInv
<1> USE RefreshAssumption DEF Init
<1>1. SourceOK
  <2>1. src \in [Msgs -> Source]
    OBVIOUS
  <2>2. \A m \in Msgs : src[m].text \in Texts
    BY <2>1 DEF Source
  <2>3. had \in [Msgs -> SUBSET Texts]
    BY <2>2
  <2>4. QED BY <2>1, <2>3 DEF SourceOK
<1>2. StoreOK /\ TickOK
  BY DEF StoreOK, TickOK, Nothing
<1>3. FlagsOK /\ CountsOK
  BY DEF FlagsOK, CountsOK
<1>4. NumbersOK
  BY DEF NumbersOK
<1>5. QED BY <1>1, <1>2, <1>3, <1>4 DEF TypeInv

(* They hold always.                                                       *)
LEMMA TypesHold == Spec => []TypeInv
  BY TypesStart, TypesStay, PTL DEF Spec

(* The rows, the embeds, the tick and the counters keep their types: a     *)
(* tick applies only rows that are recorded and were fetched, one at a     *)
(* time (tick_once).                                                       *)
THEOREM TypeCorrect == Spec => []TypeOK
<1>1. TypeInv => TypeOK
  <2> SUFFICES ASSUME TypeInv
               PROVE  TypeOK
    OBVIOUS
  <2>1. landed \subseteq [key : todo, step : {"mark", "stats", "delete"}] /\ Cardinality(landed) <= 1
    <3>1. CASE landed = {}
      BY <3>1, FS_EmptySet
    <3>2. ASSUME NEW k \in todo, NEW s \in Steps, landed = {[key |-> k, step |-> s]}
          PROVE  landed \subseteq [key : todo, step : {"mark", "stats", "delete"}]
                 /\ Cardinality(landed) <= 1
      <4>1. Cardinality(landed) = 1
        BY <3>2, FS_Singleton
      <4>2. [key |-> k, step |-> s] \in [key : todo, step : {"mark", "stats", "delete"}]
        BY DEF Steps
      <4>3. QED BY <3>2, <4>1, <4>2
    <3>3. QED BY <3>1, <3>2 DEF TypeInv, TickOK
  <2>2. /\ src \in [Msgs -> Source] /\ had \in [Msgs -> SUBSET Texts]
        /\ changes \in 0..MaxChanges
    BY DEF TypeInv, SourceOK
  <2>3. /\ tracked \subseteq Keys
        /\ DOMAIN row = tracked /\ \A k \in tracked : row[k] \in Row
        /\ tracked \subseteq DOMAIN embed /\ DOMAIN embed \subseteq Keys
        /\ \A k \in DOMAIN embed : embed[k] \in Embed
    BY DEF TypeInv, StoreOK
  <2>4. /\ picks \subseteq tracked /\ todo \subseteq tracked /\ picks \cap todo = {}
        /\ allow \subseteq tracked
        /\ DOMAIN answer \subseteq Msgs /\ \A m \in DOMAIN answer : answer[m] \in Answer
        /\ \A k \in todo : MsgOf[k] \in DOMAIN answer
    BY DEF TypeInv, TickOK
  <2>5. QED BY <2>1, <2>2, <2>3, <2>4 DEF TypeInv, FlagsOK, CountsOK, NumbersOK, TypeOK
<1>2. QED BY <1>1, TypesHold, PTL
-----------------------------------------------------------------------------
(* Tombstones. *)

Gone(m) == src[m].where = "gone"

(* What the worker believes deleted is gone: rows, embeds, and the answers *)
(* it still has to apply.                                                  *)
DeletedIsGone ==
    /\ \A k \in DOMAIN embed : embed[k].deleted => Gone(MsgOf[k])
    /\ \A k \in tracked : row[k].deleted => Gone(MsgOf[k])
    /\ \A k \in todo : ~Slot(k).there => Gone(MsgOf[k])
    /\ \A l \in landed : l.step = "delete" => ~Slot(l.key).there

(* No message comes back. *)
LEMMA GoneForGood ==
    ASSUME TypeInv, [Next]_vars, NEW m \in Msgs, Gone(m)
    PROVE  Gone(m)'
<1>1. ASSUME NEW n \in Msgs, NEW s \in Source, src[n].where = "here",
             src' = [src EXCEPT ![n] = s]
      PROVE  Gone(m)'
  BY <1>1 DEF Gone, TypeInv, SourceOK
<1>2. ASSUME NEW n \in Msgs, NEW t \in Texts, EditSource(n, t)
      PROVE  Gone(m)'
  <2>1. [src[n] EXCEPT !.text = t] \in Source
    BY DEF TypeInv, SourceOK, Source
  <2>2. QED BY <1>1, <1>2, <2>1 DEF EditSource, Change
<1>3. ASSUME NEW n \in Msgs, React(n) \/ Comment(n) \/ DeleteSource(n)
      PROVE  Gone(m)'
  <2>1. /\ [src[n] EXCEPT !.likes = 1 - @] \in Source
        /\ [src[n] EXCEPT !.comments = 1] \in Source
        /\ [src[n] EXCEPT !.where = "gone"] \in Source
    BY DEF TypeInv, SourceOK, Source, Where
  <2>2. QED BY <1>1, <1>3, <2>1 DEF React, Comment, DeleteSource, Change
<1>4. ASSUME src' = src
      PROVE  Gone(m)'
  BY <1>4 DEF Gone
<1>5. ASSUME NEW k \in Keys, NEW t \in Texts, NEW live \in BOOLEAN, Record(k, t, live)
      PROVE  Gone(m)'
  BY <1>4, <1>5 DEF Record, source
<1>6. ASSUME NEW k \in todo, Apply(k)
      PROVE  Gone(m)'
  BY <1>4, <1>6 DEF Apply, Touch, PatchLands, PatchDropped, PatchReplyLost, MarkEdited,
                    Save, SaveFails, source
<1>7. \/ Elapse \/ TickIdle \/ TickStart \/ TickFails \/ Prune \/ PruneFails
      \/ Crash \/ Restart \/ UNCHANGED vars
      => Gone(m)'
  BY <1>4 DEF Elapse, TickIdle, TickStart, TickFails, Prune, PruneFails, Crash, Restart,
              source, vars
<1>8. ASSUME NEW c, Fetch(c)
      PROVE  Gone(m)'
  BY <1>4, <1>8 DEF Fetch, source
<1>9. QED BY <1>2, <1>3, <1>5, <1>6, <1>7, <1>8 DEF Next, Working

(* A row of this tick has its message. *)
LEMMA SourceOfKeys ==
    ASSUME TypeInv
    PROVE  /\ \A k \in DOMAIN embed : MsgOf[k] \in Msgs
           /\ \A k \in tracked : MsgOf[k] \in Msgs
           /\ \A k \in todo : MsgOf[k] \in Msgs
  BY RefreshAssumption DEF TypeInv, StoreOK, TickOK

(* Steps that make no row, embed or answer say "deleted" that did not.     *)
LEMMA NothingDeleted ==
    ASSUME TypeInv, DeletedIsGone, [Next]_vars,
           DOMAIN embed' = DOMAIN embed,
           \A k \in DOMAIN embed : embed'[k].deleted => embed[k].deleted \/ (k \in todo /\ ~Slot(k).there),
           tracked' \subseteq tracked,
           \A k \in tracked' : row'[k].deleted => row[k].deleted \/ (k \in todo /\ ~Slot(k).there),
           todo' \subseteq todo,
           answer' = answer \/ todo' = {},
           \A l \in landed' : l.key \in todo' /\ l.step = "delete" => ~Slot(l.key).there,
           landed' # {} => answer' = answer
    PROVE  DeletedIsGone'
<1>1. \A k \in DOMAIN embed' : embed'[k].deleted => Gone(MsgOf[k])'
  BY GoneForGood, SourceOfKeys DEF DeletedIsGone
<1>2. \A k \in tracked' : row'[k].deleted => Gone(MsgOf[k])'
  BY GoneForGood, SourceOfKeys DEF DeletedIsGone
<1>3. \A k \in todo' : ~Slot(k)'.there => Gone(MsgOf[k])'
  BY GoneForGood, SourceOfKeys DEF DeletedIsGone, Slot
<1>4. \A l \in landed' : l.step = "delete" => ~Slot(l.key)'.there
  <2>1. TypeInv'
    BY TypesStay
  <2>2. \A l \in landed' : l.key \in todo'
    BY <2>1 DEF TypeInv, TickOK
  <2>3. QED BY <2>2 DEF Slot
<1>5. QED BY <1>1, <1>2, <1>3, <1>4 DEF DeletedIsGone

(* A row that is applied is marked deleted only if Telegram said so. *)
LEMMA ApplyDeletes ==
    ASSUME TypeInv, DeletedIsGone, NEW k \in todo, Apply(k)
    PROVE  DeletedIsGone'
<1>1. [Next]_vars
  BY DEF Next, Working
<1>2. /\ k \in tracked /\ k \in DOMAIN embed /\ k \in Keys
      /\ row[k] \in Row /\ Slot(k) \in Answer /\ embed[k] \in Embed
      /\ Touched(k) \in Row /\ Touched(k).deleted = row[k].deleted
  BY RowTypes DEF Touched, Row
<1>3. Kind(k) = "Deleted" => ~Slot(k).there
  BY DEF Kind
<1>4. Rebuilt(k).deleted => ~Slot(k).there
  <2>1. CASE Kind(k) = "Deleted"
    BY <1>3, <2>1
  <2>2. CASE Kind(k) # "Deleted"
    BY <2>2 DEF Rebuilt
  <2>3. QED BY <2>1, <2>2
<1>5. /\ row \in [tracked -> Row] /\ embed \in [DOMAIN embed -> Embed]
      /\ tracked \subseteq DOMAIN embed
  BY DEF TypeInv, StoreOK
(* A step that is done with the row. *)
<1>6. ASSUME Done(k), tracked' = tracked, answer' = answer,
             embed' = [embed EXCEPT ![k] = Rebuilt(k)] \/ embed' = embed,
             \/ row' = row
             \/ \E r \in Row : /\ row' = [row EXCEPT ![k] = r]
                               /\ r.deleted => row[k].deleted \/ ~Slot(k).there
      PROVE  DeletedIsGone'
  <2>1. DOMAIN embed' = DOMAIN embed
    BY <1>6
  <2>2. \A q \in DOMAIN embed : embed'[q].deleted => embed[q].deleted \/ (q \in todo /\ ~Slot(q).there)
    BY <1>4, <1>5, <1>6
  <2>3. \A q \in tracked' : row'[q].deleted => row[q].deleted \/ (q \in todo /\ ~Slot(q).there)
    BY <1>5, <1>6
  <2>4. landed' = {} /\ todo' \subseteq todo
    BY <1>6 DEF Done
  <2>5. QED BY <1>1, <1>6, <2>1, <2>2, <2>3, <2>4, NothingDeleted
<1>7. CASE Touch(k)
  <2>1. row' = row \/ \E r \in Row : /\ row' = [row EXCEPT ![k] = r]
                                     /\ r.deleted => row[k].deleted \/ ~Slot(k).there
    <3>1. CASE Kind(k) = "Deleted"
      <4>1. [Touched(k) EXCEPT !.deleted = TRUE] \in Row
        BY RowTypes
      <4>2. QED BY <1>3, <1>7, <3>1, <4>1 DEF Touch, Write
    <3>2. CASE Kind(k) # "Deleted"
      BY <1>2, <1>7, <3>2 DEF Touch, Write
    <3>3. QED BY <3>1, <3>2
  <2>2. QED BY <1>6, <1>7, <2>1 DEF Touch
<1>8. CASE PatchDropped(k) \/ PatchReplyLost(k)
  <2>1. row' = row \/ \E r \in Row : /\ row' = [row EXCEPT ![k] = r]
                                     /\ r.deleted => row[k].deleted \/ ~Slot(k).there
    BY <1>2, <1>8 DEF PatchDropped, PatchReplyLost, WriteAfterFault
  <2>2. QED BY <1>6, <1>8, <2>1 DEF PatchDropped, PatchReplyLost
<1>9. CASE Save(k, "delete")
  <2>1. ~Slot(k).there
    BY <1>9 DEF Save, DeletedIsGone
  <2>2. row' = row \/ \E r \in Row : /\ row' = [row EXCEPT ![k] = r]
                                     /\ r.deleted => row[k].deleted \/ ~Slot(k).there
    BY <1>9, <2>1, RowTypes DEF Save
  <2>3. QED BY <1>6, <1>9, <2>2 DEF Save
<1>10. CASE Save(k, "stats")
  <2>1. row' = row \/ \E r \in Row : /\ row' = [row EXCEPT ![k] = r]
                                     /\ r.deleted => row[k].deleted \/ ~Slot(k).there
    <3> DEFINE r == [Touched(k) EXCEPT !.hash = FetchedBody(k), !.likes = Slot(k).likes,
                                       !.comments = EffectiveComments(k)]
    <3>1. r \in Row /\ r.deleted = row[k].deleted
      BY <1>2, RowTypes DEF Row
    <3>2. row' = [row EXCEPT ![k] = r]
      BY <1>10 DEF Save
    <3>3. QED BY <3>1, <3>2
  <2>2. QED BY <1>6, <1>10, <2>1 DEF Save
<1>11. CASE SaveFails(k)
  BY <1>6, <1>11 DEF SaveFails, store
<1>12. CASE PatchLands(k)
  <2>1. embed' = [embed EXCEPT ![k] = Rebuilt(k)] /\ UNCHANGED <<tracked, row, todo, answer>>
    BY <1>12 DEF PatchLands, store
  <2>2. \A l \in landed' : l.key = k /\ (l.step = "delete" => Kind(k) = "Deleted")
    BY <1>12 DEF PatchLands
  <2>3. \A q \in DOMAIN embed : embed'[q].deleted => embed[q].deleted \/ (q \in todo /\ ~Slot(q).there)
    BY <1>4, <1>5, <2>1
  <2>4. QED BY <1>1, <1>3, <2>1, <2>2, <2>3, NothingDeleted
<1>13. CASE MarkEdited(k)
  <2>1. /\ row' = [row EXCEPT ![k].edited = TRUE] /\ UNCHANGED <<tracked, embed, todo, answer>>
        /\ \A l \in landed' : l.step = "stats"
    BY <1>13 DEF MarkEdited
  <2>2. \A q \in tracked' : row'[q].deleted => row[q].deleted
    BY <1>5, <2>1 DEF Row
  <2>3. QED BY <1>1, <2>1, <2>2, NothingDeleted
<1>14. QED BY <1>7, <1>8, <1>9, <1>10, <1>11, <1>12, <1>13 DEF Apply

(* A tombstone is for a message that Telegram said is gone, never for one  *)
(* that could not be asked about (tick_once, apply).                       *)
THEOREM TombstonesAreDeservedAlways == Spec => []TombstonesAreDeserved
<1>1. Init => DeletedIsGone
  BY DEF Init, DeletedIsGone, Nothing
<1>2. TypeInv /\ DeletedIsGone /\ [Next]_vars => DeletedIsGone'
  <2> SUFFICES ASSUME TypeInv, DeletedIsGone, [Next]_vars
               PROVE  DeletedIsGone'
    OBVIOUS
  <2>1. ASSUME UNCHANGED <<embed, tracked, row, todo, answer, landed>>
        PROVE  DeletedIsGone'
    BY <2>1, NothingDeleted DEF DeletedIsGone
  <2>2. ASSUME NEW m \in Msgs, NEW s, Change(m, s)
        PROVE  DeletedIsGone'
    BY <2>1, <2>2 DEF Change, store, tick
  <2>3. ASSUME NEW k \in Keys, NEW t \in Texts, NEW live \in BOOLEAN, Record(k, t, live)
        PROVE  DeletedIsGone'
    <3>1. /\ k \notin DOMAIN embed /\ tracked' = tracked \cup {k}
          /\ DOMAIN embed' = DOMAIN embed \cup {k} /\ ~embed'[k].deleted /\ ~row'[k].deleted
          /\ \A q \in DOMAIN embed : embed'[q] = embed[q]
          /\ \A q \in tracked : row'[q] = row[q]
          /\ UNCHANGED <<src, todo, answer, landed>>
      BY <2>3 DEF Record, source, tick, TypeInv, StoreOK
    <3>2. \A q : Slot(q)' = Slot(q) /\ (Gone(MsgOf[q]) => Gone(MsgOf[q])')
      BY <3>1 DEF Slot, Gone
    <3>3. QED BY <3>1, <3>2 DEF DeletedIsGone
  <2>4. CASE Elapse
    <3>1. /\ UNCHANGED <<embed, tracked, todo, answer, landed>>
          /\ \A q \in tracked : row'[q].deleted = row[q].deleted
      BY <2>4 DEF Elapse, tick, TypeInv, StoreOK, Row
    <3>2. QED BY <3>1, NothingDeleted DEF DeletedIsGone
  <2>5. CASE TickIdle \/ TickStart \/ TickFails \/ Restart \/ UNCHANGED vars
    BY <2>1, <2>5 DEF TickIdle, TickStart, TickFails, Restart, store, tick, vars
  <2>6. ASSUME NEW c, Fetch(c)
        PROVE  DeletedIsGone'
    <3>1. /\ UNCHANGED <<embed, tracked, row, src, landed>> /\ landed = {}
          /\ \A q \in todo' : \E counted \in BOOLEAN :
                MsgOf[q] \in DOMAIN answer' /\ answer'[MsgOf[q]] = SlotOf(MsgOf[q], counted)
      BY <2>6 DEF Fetch, source, store, TypeInv, TickOK
    <3>2. \A q \in todo' : MsgOf[q] \in Msgs
      BY TypesStay, RefreshAssumption DEF TypeInv, TickOK, StoreOK
    <3>3. \A q \in todo' : ~Slot(q)'.there => Gone(MsgOf[q])
      <4> SUFFICES ASSUME NEW q \in todo', ~Slot(q)'.there
                   PROVE  Gone(MsgOf[q])
        OBVIOUS
      <4>1. PICK counted \in BOOLEAN : Slot(q)' = SlotOf(MsgOf[q], counted)
        BY <3>1 DEF Slot
      <4>2. ~(src[MsgOf[q]].where = "here")
        <5>1. SlotOf(MsgOf[q], counted).there = (src[MsgOf[q]].where = "here")
          BY DEF SlotOf
        <5>2. ~SlotOf(MsgOf[q], counted).there
          BY <4>1
        <5>3. QED BY <5>1, <5>2, Zenon
      <4>3. src[MsgOf[q]].where \in Where
        BY <3>2 DEF TypeInv, SourceOK, Source
      <4>4. QED BY <4>2, <4>3 DEF Where, Gone
    <3>4. QED BY <3>1, <3>3 DEF DeletedIsGone, Gone
  <2>7. CASE Prune \/ PruneFails
    <3>1. /\ UNCHANGED <<embed, todo, landed>> /\ todo = {} /\ tracked' \subseteq tracked
          /\ landed = {}
          /\ \A q \in tracked' : row'[q] = row[q]
      BY <2>7 DEF Prune, PruneFails, store, TypeInv, TickOK
    <3>2. QED BY <3>1, NothingDeleted
  <2>8. CASE Crash
    <3>1. UNCHANGED <<embed, tracked, row>> /\ todo' = {} /\ landed' = {}
      BY <2>8 DEF Crash, store
    <3>2. QED BY <3>1, NothingDeleted
  <2>9. ASSUME NEW k \in todo, Apply(k)
        PROVE  DeletedIsGone'
    BY <2>9, ApplyDeletes
  <2>10. QED BY <2>2, <2>3, <2>4, <2>5, <2>6, <2>7, <2>8, <2>9
             DEF Next, Working, EditSource, React, Comment, DeleteSource
<1>3. TypeInv /\ DeletedIsGone => TombstonesAreDeserved
  BY DEF TypeInv, StoreOK, DeletedIsGone, TombstonesAreDeserved, Gone
<1>4. QED BY <1>1, <1>2, <1>3, TypesHold, PTL DEF Spec
-----------------------------------------------------------------------------
(* Rows and embeds. *)

(* Only posts that are not deleted are worked on. *)
WorkedAreLive == \A k \in picks \cup todo : ~row[k].deleted

(* What the last PATCH of key k has made of its embed, and the row does    *)
(* not tell yet, is what the step still to be done will save.              *)
Lands(k, step) ==
    IF step = "delete"
    THEN embed[k].deleted /\ embed[k].likes = row[k].likes /\ embed[k].comments = row[k].comments
    ELSE /\ ~embed[k].deleted
         /\ embed[k].body.text = Slot(k).text /\ embed[k].likes = Slot(k).likes
         /\ embed[k].comments = EffectiveComments(k)
         /\ IF step = "mark" THEN embed[k].edited ELSE embed[k].edited = row[k].edited

LandedTells == \A l \in landed : Lands(l.key, l.step)

RowsInv == WorkedAreLive /\ LandedTells /\ RowsTellTheEmbeds

(* A step that is done with row k, which is in step again or excused.      *)
LEMMA DoneRows ==
    ASSUME TypeInv, RowsInv, NEW k \in todo, Done(k),
           UNCHANGED <<tracked, picks, answer>>,
           NEW r \in Row, row' = [row EXCEPT ![k] = r],
           NEW e \in Embed, embed' = [embed EXCEPT ![k] = e],
           excused \ {k} \subseteq excused',
           landed = {} \/ \E s \in Steps : landed = {[key |-> k, step |-> s]},
           k \in Known => InStep(k)' \/ k \in excused'
    PROVE  RowsInv'
<1>1. /\ k \in tracked /\ k \in DOMAIN embed
      /\ row \in [tracked -> Row] /\ embed \in [DOMAIN embed -> Embed] /\ tracked \subseteq DOMAIN embed
  BY RowTypes DEF TypeInv, StoreOK
<1>2. landed' = {} /\ todo' = todo \ {k}
  BY DEF Done
<1>3. \A q \in tracked \ {k} : row'[q] = row[q] /\ embed'[q] = embed[q]
  BY <1>1
<1>4. WorkedAreLive'
  <2>1. k \notin picks' \cup todo' /\ picks' \cup todo' \subseteq tracked
    BY <1>2 DEF TypeInv, TickOK
  <2>2. QED BY <1>2, <1>3, <2>1 DEF RowsInv, WorkedAreLive
<1>5. LandedTells'
  BY <1>2 DEF LandedTells
<1>6. RowsTellTheEmbeds'
  <2> SUFFICES ASSUME NEW q \in tracked' \cap Known
               PROVE  InStep(q)' \/ q \in excused'
    BY DEF RowsTellTheEmbeds
  <2>1. CASE q = k
    BY <2>1
  <2>2. CASE q # k
    <3>1. row'[q] = row[q] /\ embed'[q] = embed[q]
      BY <1>3, <2>2
    <3>2. ~\E l \in landed : l.key = q
      BY <2>2
    <3>3. InStep(q) \/ q \in excused
      BY <3>2 DEF RowsInv, RowsTellTheEmbeds
    <3>4. QED BY <2>2, <3>1, <3>3 DEF InStep
  <2>3. QED BY <2>1, <2>2
<1>7. QED BY <1>4, <1>5, <1>6 DEF RowsInv

(* Steps that move no row but by age, and no embed. *)
LEMMA StillRows ==
    ASSUME RowsInv, UNCHANGED <<embed, todo, picks, answer, landed, excused, tracked>>,
           \A k \in tracked : /\ row'[k].hash = row[k].hash
                              /\ row'[k].likes = row[k].likes /\ row'[k].comments = row[k].comments
                              /\ row'[k].edited = row[k].edited /\ row'[k].deleted = row[k].deleted,
           TypeInv
    PROVE  RowsInv'
<1>1. \A l \in landed : l.key \in tracked
  BY DEF TypeInv, TickOK
<1>2. picks \cup todo \subseteq tracked
  BY DEF TypeInv, TickOK
<1>3. WorkedAreLive'
  BY <1>2 DEF RowsInv, WorkedAreLive
<1>4. LandedTells'
  BY <1>1 DEF RowsInv, LandedTells, Lands, Slot, EffectiveComments
<1>5. RowsTellTheEmbeds'
  BY DEF RowsInv, RowsTellTheEmbeds, InStep
<1>6. QED BY <1>3, <1>4, <1>5 DEF RowsInv

(* A row that is only touched says what it said. *)
SameTale(r, s) ==
    /\ r.hash = s.hash /\ r.likes = s.likes /\ r.comments = s.comments
    /\ r.edited = s.edited /\ r.deleted = s.deleted

(* touch_checked moves the time of the last check only.                   *)
LEMMA TouchedTells ==
    ASSUME TypeInv, NEW k \in todo
    PROVE  SameTale(Touched(k), row[k]) /\ SameTale(row[k], row[k])
  BY RowTypes DEF SameTale, Touched, Row

(* A row that is touched, or left alone, and an embed that is left alone   *)
(* are as they were to each other.                                         *)
LEMMA TouchRows ==
    ASSUME TypeInv, RowsInv, NEW k \in todo, Done(k), landed = {},
           UNCHANGED <<tracked, picks, answer, embed, excused>>,
           NEW r \in Row, row' = [row EXCEPT ![k] = r],
           k \in Known => SameTale(r, row[k])
    PROVE  RowsInv'
<1>1. k \in tracked /\ k \in DOMAIN embed /\ embed[k] \in Embed
  BY RowTypes
<1>2. row'[k] = r /\ embed' = [embed EXCEPT ![k] = embed[k]]
  BY <1>1 DEF TypeInv, StoreOK
<1>3. ASSUME k \in Known
      PROVE  InStep(k)' \/ k \in excused'
  <2>1. InStep(k) \/ k \in excused
    BY <1>1, <1>3 DEF RowsInv, RowsTellTheEmbeds
  <2>2. QED BY <1>2, <1>3, <2>1 DEF InStep, SameTale
<1>4. QED BY <1>1, <1>2, <1>3, DoneRows

(* Applying a row, in each of its ways, leaves the rows telling the       *)
(* embeds: what was PATCHed is saved, or excused.                          *)
LEMMA ApplyRows ==
    ASSUME TypeInv, RowsInv, NEW k \in todo, Apply(k)
    PROVE  RowsInv'
<1>1. /\ k \in tracked /\ k \in DOMAIN embed /\ k \in Keys
      /\ row[k] \in Row /\ Slot(k) \in Answer /\ embed[k] \in Embed
      /\ Touched(k) \in Row /\ [Touched(k) EXCEPT !.deleted = TRUE] \in Row
      /\ Rebuilt(k) \in Embed
  BY RowTypes
<1>2. /\ row \in [tracked -> Row] /\ embed \in [DOMAIN embed -> Embed]
      /\ tracked \subseteq DOMAIN embed
  BY DEF TypeInv, StoreOK
<1>3. row = [row EXCEPT ![k] = row[k]] /\ embed = [embed EXCEPT ![k] = embed[k]]
  BY <1>1, <1>2
<1>4. ~row[k].deleted
  BY DEF RowsInv, WorkedAreLive
<1>5. landed = {} \/ \E s \in Steps : landed = {[key |-> k, step |-> s]}
  BY DEF Apply, Touch, PatchLands, PatchDropped, PatchReplyLost, Idle, MarkEdited, Save,
         SaveFails, TypeInv, TickOK, Steps
<1>6. CASE Touch(k)
  <2>1. landed = {} /\ Done(k) /\ UNCHANGED <<tracked, picks, answer, embed, excused>>
    BY <1>6 DEF Touch, Idle, history
  <2>2. k \in Known => Kind(k) # "Deleted"
    BY <1>6 DEF Touch
  <2>3. PICK r \in Row : /\ row' = [row EXCEPT ![k] = r]
                         /\ k \in Known => SameTale(r, row[k])
    BY <1>1, <1>3, <1>6, <2>2, TouchedTells DEF Touch, Write
  <2>4. QED BY <2>1, <2>3, TouchRows
<1>7. CASE PatchDropped(k)
  <2>1. landed = {} /\ Done(k) /\ UNCHANGED <<tracked, picks, answer, embed, excused>>
    BY <1>7 DEF PatchDropped, Idle
  <2>2. PICK r \in Row : row' = [row EXCEPT ![k] = r] /\ SameTale(r, row[k])
    BY <1>1, <1>3, <1>7, TouchedTells DEF PatchDropped, WriteAfterFault
  <2>3. QED BY <2>1, <2>2, TouchRows
<1>8. CASE PatchReplyLost(k)
  <2>1. PICK r \in Row : row' = [row EXCEPT ![k] = r]
    BY <1>1, <1>3, <1>8 DEF PatchReplyLost, WriteAfterFault
  <2>2. QED BY <1>1, <1>5, <1>8, <2>1, DoneRows DEF PatchReplyLost
<1>9. CASE SaveFails(k)
  BY <1>1, <1>3, <1>5, <1>9, DoneRows DEF SaveFails, store
<1>10. CASE Save(k, "delete")
  <2>1. Lands(k, "delete")
    BY <1>10 DEF Save, RowsInv, LandedTells
  <2> DEFINE r == [Touched(k) EXCEPT !.deleted = TRUE]
  <2>2. /\ r \in Row /\ r.deleted /\ r.likes = row[k].likes /\ r.comments = row[k].comments
    BY <1>1 DEF Touched, Row
  <2>3. row' = [row EXCEPT ![k] = r] /\ embed' = embed /\ row'[k] = r
    BY <1>1, <1>2, <1>10 DEF Save
  <2>4. row'[k].deleted = embed'[k].deleted
    <3>1. r.deleted = TRUE
      BY <2>2 DEF Row
    <3>2. embed[k].deleted = TRUE
      BY <1>1, <2>1 DEF Lands, Embed
    <3>3. QED BY <2>3, <3>1, <3>2
  <2>5. InStep(k)'
    BY <2>1, <2>2, <2>3, <2>4 DEF InStep, Lands
  <2>6. QED BY <1>1, <1>3, <1>5, <1>10, <2>2, <2>3, <2>5, DoneRows DEF Save
<1>11. CASE Save(k, "stats")
  <2>1. Lands(k, "stats")
    BY <1>11 DEF Save, RowsInv, LandedTells
  <2> DEFINE r == [Touched(k) EXCEPT !.hash = FetchedBody(k), !.likes = Slot(k).likes,
                                     !.comments = EffectiveComments(k)]
  <2>2. /\ r \in Row /\ r.hash.text = Slot(k).text /\ r.likes = Slot(k).likes
        /\ r.comments = EffectiveComments(k)
        /\ r.edited = row[k].edited /\ r.deleted = row[k].deleted
    BY <1>1, RowTypes DEF Touched, Row, FetchedBody
  <2>3. row' = [row EXCEPT ![k] = r] /\ embed' = embed
    BY <1>11 DEF Save
  <2>4. row'[k] = r
    BY <1>1, <1>2, <2>3
  <2> HIDE DEF r
  <2>5. row'[k].deleted = embed'[k].deleted
    <3>1. row[k].deleted = FALSE
      BY <1>1, <1>4 DEF Row
    <3>2. embed[k].deleted = FALSE
      BY <1>1, <2>1 DEF Lands, Embed
    <3>3. QED BY <2>2, <2>3, <2>4, <3>1, <3>2
  <2>6. InStep(k)'
    BY <2>1, <2>2, <2>3, <2>4, <2>5 DEF InStep, Lands
  <2>7. QED BY <1>1, <1>3, <1>5, <1>11, <2>2, <2>3, <2>6, DoneRows DEF Save
<1>12. CASE PatchLands(k)
  <2>1. /\ landed = {} /\ embed' = [embed EXCEPT ![k] = Rebuilt(k)]
        /\ UNCHANGED <<tracked, row, todo, picks, answer, excused>>
    BY <1>12 DEF PatchLands, Idle, store, history
  <2>2. embed'[k] = Rebuilt(k) /\ \A q \in tracked \ {k} : embed'[q] = embed[q]
    BY <1>1, <1>2, <2>1
  <2>3. PICK s \in Steps : /\ landed' = {[key |-> k, step |-> s]}
                           /\ s = "delete" <=> Kind(k) = "Deleted"
                           /\ s = "mark" => Kind(k) = "Edited"
                           /\ s = "stats" /\ Kind(k) = "Edited" => row[k].edited
    BY <1>12 DEF PatchLands, Steps
  <2>4. Lands(k, s)'
    <3>1. CASE s = "delete"
      <4>1. Rebuilt(k) = [embed[k] EXCEPT !.likes = row[k].likes, !.comments = row[k].comments,
                                          !.edited = FALSE, !.deleted = TRUE]
        BY <2>3, <3>1 DEF Rebuilt
      <4>2. QED BY <1>1, <2>1, <2>2, <3>1, <4>1 DEF Lands, Embed
    <3>2. CASE s # "delete"
      <4>1. Rebuilt(k) = [body |-> FetchedBody(k), likes |-> Slot(k).likes,
                          comments |-> EffectiveComments(k),
                          edited |-> row[k].edited \/ Kind(k) = "Edited", deleted |-> FALSE]
        BY <2>3, <3>2 DEF Rebuilt
      <4>2. Rebuilt(k).edited = (row[k].edited \/ Kind(k) = "Edited")
        BY <4>1
      <4>3. IF s = "mark" THEN Rebuilt(k).edited ELSE Rebuilt(k).edited = row[k].edited
        <5>1. CASE s = "mark"
          BY <2>3, <4>2, <5>1
        <5>2. CASE s # "mark"
          <6>1. s = "stats"
            BY <3>2, <5>2 DEF Steps
          <6>2. row[k].edited \in BOOLEAN
            BY <1>1 DEF Row
          <6>3. (row[k].edited \/ Kind(k) = "Edited") = row[k].edited
            BY <2>3, <6>1, <6>2
          <6>4. QED BY <4>2, <5>2, <6>3
        <5>3. QED BY <5>1, <5>2
      <4>4. /\ ~Rebuilt(k).deleted /\ Rebuilt(k).body.text = Slot(k).text
            /\ Rebuilt(k).likes = Slot(k).likes /\ Rebuilt(k).comments = EffectiveComments(k)
        BY <4>1 DEF FetchedBody
      <4>5. Slot(k)' = Slot(k) /\ EffectiveComments(k)' = EffectiveComments(k)
        BY <2>1 DEF Slot, EffectiveComments
      <4>6. QED BY <2>1, <2>2, <3>2, <4>3, <4>4, <4>5 DEF Lands
    <3>3. QED BY <3>1, <3>2
  <2>5. LandedTells'
    BY <2>3, <2>4 DEF LandedTells
  <2>6. WorkedAreLive'
    BY <2>1 DEF RowsInv, WorkedAreLive
  <2>7. RowsTellTheEmbeds'
    <3> SUFFICES ASSUME NEW q \in tracked \cap Known, q # k
                 PROVE  InStep(q)' \/ q \in excused'
      BY <2>1, <2>3 DEF RowsTellTheEmbeds
    <3>1. InStep(q) \/ q \in excused
      BY <2>1 DEF RowsInv, RowsTellTheEmbeds
    <3>2. embed'[q] = embed[q]
      BY <2>2
    <3>3. QED BY <2>1, <3>1, <3>2 DEF InStep
  <2>8. QED BY <2>5, <2>6, <2>7 DEF RowsInv
<1>13. CASE MarkEdited(k)
  <2>1. /\ landed = {[key |-> k, step |-> "mark"]} /\ landed' = {[key |-> k, step |-> "stats"]}
        /\ row' = [row EXCEPT ![k].edited = TRUE]
        /\ UNCHANGED <<tracked, embed, todo, picks, answer, excused>>
    BY <1>13 DEF MarkEdited, history
  <2>2. Lands(k, "mark")
    BY <2>1 DEF RowsInv, LandedTells
  <2>3. /\ row'[k] = [row[k] EXCEPT !.edited = TRUE]
        /\ \A q \in tracked \ {k} : row'[q] = row[q]
    BY <1>1, <1>2, <2>1
  <2>4. row'[k].edited = TRUE /\ row'[k].deleted = row[k].deleted /\ row'[k].comments = row[k].comments
    BY <1>1, <2>3 DEF Row
  <2>5. embed[k].edited = TRUE
    BY <1>1, <2>2 DEF Lands, Embed
  <2>6. LandedTells'
    <3>1. Slot(k)' = Slot(k) /\ EffectiveComments(k)' = EffectiveComments(k)
      BY <2>1, <2>4 DEF Slot, EffectiveComments
    <3>2. Lands(k, "stats")'
      BY <2>1, <2>2, <2>4, <2>5, <3>1 DEF Lands
    <3>3. QED BY <2>1, <3>2 DEF LandedTells
  <2>7. WorkedAreLive'
    BY <2>1, <2>3, <2>4 DEF RowsInv, WorkedAreLive, TypeInv, TickOK
  <2>8. RowsTellTheEmbeds'
    <3> SUFFICES ASSUME NEW q \in tracked \cap Known, q # k
                 PROVE  InStep(q)' \/ q \in excused'
      BY <2>1 DEF RowsTellTheEmbeds
    <3>1. InStep(q) \/ q \in excused
      BY <2>1 DEF RowsInv, RowsTellTheEmbeds
    <3>2. row'[q] = row[q]
      BY <2>3
    <3>3. QED BY <2>1, <3>1, <3>2 DEF InStep
  <2>9. QED BY <2>6, <2>7, <2>8 DEF RowsInv
<1>14. QED BY <1>6, <1>7, <1>8, <1>9, <1>10, <1>11, <1>12, <1>13 DEF Apply

(* A post that is recorded is in step from the start. *)
LEMMA RecordRows ==
    ASSUME TypeInv, RowsInv, NEW k \in Keys, NEW t \in Texts, NEW live \in BOOLEAN,
           Record(k, t, live)
    PROVE  RowsInv'
<1>1. /\ k \notin DOMAIN embed /\ tracked' = tracked \cup {k} /\ tracked \subseteq DOMAIN embed
      /\ UNCHANGED <<todo, picks, answer, landed, excused>>
  BY DEF Record, tick, history, TypeInv, StoreOK
<1>2. \A q \in tracked : q # k /\ row'[q] = row[q] /\ embed'[q] = embed[q]
  <2>1. \A q \in tracked : q # k
    BY <1>1
  <2>2. QED BY <1>1, <2>1 DEF Record
<1>3. InStep(k)'
  <2> DEFINE m == MsgOf[k]
             n == IF live THEN 0 ELSE src[m].likes
             c == IF live THEN 0 ELSE src[m].comments
  <2>1. /\ embed'[k] = [body |-> [text |-> t, notice |-> m \in Noticed], likes |-> n,
                        comments |-> c, edited |-> FALSE, deleted |-> FALSE]
        /\ row'[k] = [hash |-> Hashed(m, t, live), likes |-> n, comments |-> c,
                      edited |-> FALSE, deleted |-> FALSE, age |-> 0, checked |-> 0]
    BY DEF Record
  <2> HIDE DEF n, c
  <2>2. QED BY <2>1 DEF InStep, Hashed
<1>4. picks \cup todo \subseteq tracked /\ \A l \in landed : l.key \in tracked
  BY DEF TypeInv, TickOK
<1>5. WorkedAreLive'
  BY <1>1, <1>2, <1>4 DEF RowsInv, WorkedAreLive
<1>6. LandedTells'
  <2> SUFFICES ASSUME NEW l \in landed
               PROVE  Lands(l.key, l.step)'
    BY <1>1 DEF LandedTells
  <2>1. Lands(l.key, l.step)
    BY DEF RowsInv, LandedTells
  <2>2. row'[l.key] = row[l.key] /\ embed'[l.key] = embed[l.key]
    BY <1>2, <1>4
  <2>3. QED BY <1>1, <2>1, <2>2 DEF Lands, Slot, EffectiveComments
<1>7. RowsTellTheEmbeds'
  <2> SUFFICES ASSUME NEW q \in tracked' \cap Known
               PROVE  InStep(q)' \/ q \in excused' \/ \E l \in landed' : l.key = q
    BY DEF RowsTellTheEmbeds
  <2>1. CASE q = k
    BY <1>3, <2>1
  <2>2. CASE q # k
    <3>1. InStep(q) \/ q \in excused \/ \E l \in landed : l.key = q
      BY <1>1, <2>2 DEF RowsInv, RowsTellTheEmbeds
    <3>2. row'[q] = row[q] /\ embed'[q] = embed[q]
      BY <1>1, <1>2, <2>2
    <3>3. QED BY <1>1, <3>1, <3>2 DEF InStep
  <2>3. QED BY <2>1, <2>2
<1>8. QED BY <1>5, <1>6, <1>7 DEF RowsInv

(* The steps of a tick that only choose what to work on: it is live, and   *)
(* nothing has landed.                                                     *)
LEMMA ChosenRows ==
    ASSUME RowsInv, UNCHANGED <<tracked, row, embed, excused>>,
           landed = {}, landed' = {},
           \A k \in picks' \cup todo' : ~row[k].deleted
    PROVE  RowsInv'
  BY DEF RowsInv, WorkedAreLive, LandedTells, RowsTellTheEmbeds, InStep

(* A prune or a crash ends the tick; a crash excuses what has landed.      *)
LEMMA EndedRows ==
    ASSUME RowsInv, UNCHANGED embed, tracked' \subseteq tracked,
           \A k \in tracked' : row'[k] = row[k],
           picks' = {}, todo' = {}, landed' = {},
           excused \cup {l.key : l \in landed} \subseteq excused'
    PROVE  RowsInv'
<1>1. WorkedAreLive' /\ LandedTells'
  BY DEF WorkedAreLive, LandedTells
<1>2. RowsTellTheEmbeds'
  BY DEF RowsInv, RowsTellTheEmbeds, InStep
<1>3. QED BY <1>1, <1>2 DEF RowsInv

(* The rows and the embeds stay in step.                                   *)
LEMMA RowsHold == Spec => []RowsInv
<1>1. Init => RowsInv
  BY DEF Init, RowsInv, WorkedAreLive, LandedTells, RowsTellTheEmbeds
<1>2. ASSUME TypeInv, RowsInv, [Next]_vars
      PROVE  RowsInv'
  <2>1. ASSUME NEW m \in Msgs, NEW s, Change(m, s)
        PROVE  RowsInv'
    BY <1>2, <2>1, StillRows DEF Change, store, tick
  <2>2. ASSUME NEW k \in Keys, NEW t \in Texts, NEW live \in BOOLEAN, Record(k, t, live)
        PROVE  RowsInv'
    BY <1>2, <2>2, RecordRows
  <2>3. CASE Elapse
    <3>1. /\ UNCHANGED <<embed, todo, picks, answer, landed, excused, tracked>>
          /\ row' = [k \in tracked |-> IF row[k].age > Horizon THEN row[k]
                                       ELSE [row[k] EXCEPT !.age = @ + 1]]
      BY <2>3 DEF Elapse, tick
    <3>2. \A k \in tracked : row[k] \in Row
      BY <1>2 DEF TypeInv, StoreOK
    <3>3. \A k \in tracked : /\ row'[k].hash = row[k].hash
                             /\ row'[k].likes = row[k].likes /\ row'[k].comments = row[k].comments
                             /\ row'[k].edited = row[k].edited /\ row'[k].deleted = row[k].deleted
      BY <3>1, <3>2 DEF Row
    <3>4. QED BY <1>2, <3>1, <3>3, StillRows
  <2>4. CASE TickIdle \/ TickFails \/ Restart \/ UNCHANGED vars
    <3>1. UNCHANGED <<embed, todo, picks, answer, landed, excused, tracked, row>>
      BY <2>4 DEF TickIdle, TickFails, Restart, vars, store, tick, history
    <3>2. QED BY <1>2, <3>1, StillRows
  <2>5. CASE TickStart
    <3>1. todo = {} /\ landed = {}
      BY <1>2, <2>5 DEF TickStart, TypeInv, TickOK
    <3>2. /\ UNCHANGED <<tracked, row, embed, excused>> /\ todo' = {} /\ landed' = {}
          /\ picks' \subseteq Due
      BY <2>5, <3>1 DEF TickStart, store
    <3>3. \A k \in Due : ~row[k].deleted
      BY DEF Due
    <3>4. QED BY <1>2, <3>1, <3>2, <3>3, ChosenRows
  <2>6. ASSUME NEW c, Fetch(c)
        PROVE  RowsInv'
    <3>1. todo = {} /\ UNCHANGED <<tracked, row, embed, excused, landed>>
      BY <2>6 DEF Fetch, store
    <3>2. landed = {}
      BY <1>2, <3>1 DEF TypeInv, TickOK
    <3>3. picks' \cup todo' \subseteq picks
      BY <2>6 DEF Fetch
    <3>4. QED BY <1>2, <3>1, <3>2, <3>3, ChosenRows DEF RowsInv, WorkedAreLive
  <2>7. CASE Prune \/ PruneFails
    <3>1. /\ UNCHANGED <<embed, landed, todo, picks, excused>> /\ picks = {} /\ todo = {}
          /\ tracked' \subseteq tracked /\ \A k \in tracked' : row'[k] = row[k]
      BY <2>7 DEF Prune, PruneFails, store, history
    <3>2. landed = {}
      BY <1>2, <3>1 DEF TypeInv, TickOK
    <3>3. QED BY <1>2, <3>1, <3>2, EndedRows
  <2>8. CASE Crash
    BY <1>2, <2>8, EndedRows DEF Crash, store
  <2>9. ASSUME NEW k \in todo, Apply(k)
        PROVE  RowsInv'
    BY <1>2, <2>9, ApplyRows
  <2>10. QED BY <1>2, <2>1, <2>2, <2>3, <2>4, <2>5, <2>6, <2>7, <2>8, <2>9
             DEF Next, Working, EditSource, React, Comment, DeleteSource
<1>3. QED BY <1>1, <1>2, TypesHold, PTL DEF Spec

(* "Persist state ONLY once the PATCH landed": a row says what its embed   *)
(* shows, but while a PATCH waits to be saved and where the worker, or the *)
(* store, did not learn of one.                                            *)
THEOREM RowsTellTheEmbedsAlways == Spec => []RowsTellTheEmbeds
<1>1. RowsInv => RowsTellTheEmbeds
  BY DEF RowsInv
<1>2. QED BY <1>1, RowsHold, PTL
-----------------------------------------------------------------------------
(* What embeds remember. *)

(* Comments are only ever added to a message, so what a row has is behind  *)
(* what Telegram answered, and that is behind what there is.               *)
Behind(k) == row[k].comments <= src[MsgOf[k]].comments
Between(k) == row[k].comments <= Slot(k).comments /\ Slot(k).comments <= src[MsgOf[k]].comments

CommentsInv ==
    /\ \A k \in tracked : Behind(k)
    /\ \A k \in todo : Slot(k).counted => Between(k)

(* The counts and the rows they belong to.                                 *)
LEMMA CommentTypes ==
    ASSUME TypeInv
    PROVE  /\ \A k \in tracked : k \in Keys /\ MsgOf[k] \in Msgs /\ row[k] \in Row
                                 /\ src[MsgOf[k]] \in Source /\ row[k].comments \in 0..1
                                 /\ src[MsgOf[k]].comments \in 0..1
           /\ \A k \in todo : k \in tracked /\ Slot(k).comments \in 0..1
<1>1. \A k \in tracked : k \in Keys /\ MsgOf[k] \in Msgs /\ row[k] \in Row
  BY RefreshAssumption DEF TypeInv, StoreOK
<1>2. \A m \in Msgs : src[m] \in Source
  BY DEF TypeInv, SourceOK
<1>3. \A k \in todo : k \in tracked /\ Slot(k) \in Answer
  BY DEF TypeInv, TickOK, Slot
<1>4. QED BY <1>1, <1>2, <1>3 DEF Row, Source, Answer

(* Steps after which no row has more comments, and no message fewer.       *)
LEMMA StillComments ==
    ASSUME TypeInv, TypeInv', CommentsInv, tracked' \subseteq tracked, todo' \subseteq todo,
           \A k \in todo' : Slot(k)' = Slot(k),
           \A k \in tracked' : row'[k].comments = row[k].comments,
           \A k \in tracked : src'[MsgOf[k]].comments >= src[MsgOf[k]].comments
    PROVE  CommentsInv'
<1>0. \A k \in tracked : src'[MsgOf[k]].comments \in 0..1
  <2>1. \A m \in Msgs : src'[m] \in Source
    BY DEF TypeInv, SourceOK
  <2>2. QED BY <2>1, CommentTypes DEF Source
<1>1. ASSUME NEW k \in tracked'
      PROVE  Behind(k)'
  <2>1. Behind(k)
    BY <1>1 DEF CommentsInv
  <2>2. row'[k].comments = row[k].comments /\ src'[MsgOf[k]].comments >= src[MsgOf[k]].comments
    BY <1>1
  <2>3. /\ row[k].comments \in 0..1 /\ src[MsgOf[k]].comments \in 0..1
        /\ src'[MsgOf[k]].comments \in 0..1
    BY <1>1, <1>0, CommentTypes
  <2>4. QED BY <2>1, <2>2, <2>3 DEF Behind
<1>2. ASSUME NEW k \in todo', Slot(k)'.counted
      PROVE  Between(k)'
  <2>1. k \in tracked' /\ k \in tracked /\ k \in todo /\ Slot(k)' = Slot(k)
    BY <1>2, CommentTypes DEF TypeInv, TickOK
  <2>2. Between(k)
    BY <1>2, <2>1 DEF CommentsInv
  <2>3. row'[k].comments = row[k].comments /\ src'[MsgOf[k]].comments >= src[MsgOf[k]].comments
    BY <2>1
  <2>4. /\ row[k].comments \in 0..1 /\ src[MsgOf[k]].comments \in 0..1
        /\ src'[MsgOf[k]].comments \in 0..1 /\ Slot(k).comments \in 0..1
    BY <1>0, <2>1, CommentTypes
  <2>5. QED BY <2>1, <2>2, <2>3, <2>4 DEF Between
<1>3. QED BY <1>1, <1>2 DEF CommentsInv

(* A saved count is the one that was fetched, or the row's own.            *)
LEMMA ApplyComments ==
    ASSUME TypeInv, TypeInv', CommentsInv, NEW k \in todo, Apply(k)
    PROVE  CommentsInv'
<1>1. /\ k \in tracked /\ row[k] \in Row /\ row \in [tracked -> Row]
      /\ UNCHANGED <<src, tracked, answer>> /\ todo' \subseteq todo
  BY RowTypes DEF Apply, Touch, PatchLands, PatchDropped, PatchReplyLost, MarkEdited, Save,
         SaveFails, source, store, Done, TypeInv, StoreOK
<1>2. \A q \in tracked : src'[MsgOf[q]].comments >= src[MsgOf[q]].comments
  BY <1>1, CommentTypes
<1>3. ASSUME \A q \in tracked : row'[q].comments = row[q].comments
      PROVE  CommentsInv'
  BY <1>1, <1>2, <1>3, StillComments DEF Slot
<1>4. Touched(k).comments = row[k].comments
  BY <1>1 DEF Touched, Row
<1>5. CASE \E step \in {"stats", "delete"} : Save(k, step)
  <2>1. PICK step \in {"stats", "delete"} : Save(k, step)
    BY <1>5
  <2>2. CASE step = "delete"
    <3>1. row' = [row EXCEPT ![k] = [Touched(k) EXCEPT !.deleted = TRUE]]
      BY <2>1, <2>2 DEF Save
    <3>2. [Touched(k) EXCEPT !.deleted = TRUE].comments = row[k].comments
      BY <1>4, RowTypes DEF Row
    <3>3. QED BY <1>1, <1>3, <3>1, <3>2
  <2>3. CASE step = "stats"
    <3> DEFINE r == [Touched(k) EXCEPT !.hash = FetchedBody(k), !.likes = Slot(k).likes,
                                       !.comments = EffectiveComments(k)]
    <3>1. row' = [row EXCEPT ![k] = r] /\ Done(k)
      BY <2>1, <2>3 DEF Save
    <3>2. r.comments = EffectiveComments(k)
      BY RowTypes DEF Row
    <3> HIDE DEF r
    <3>3. row'[k].comments = EffectiveComments(k) /\ \A q \in tracked \ {k} : row'[q] = row[q]
      BY <1>1, <3>1, <3>2
    <3>4. Behind(k)'
      <4>1. CASE Slot(k).counted
        BY <1>1, <3>3, <4>1 DEF CommentsInv, Between, Behind, EffectiveComments
      <4>2. CASE ~Slot(k).counted
        BY <1>1, <3>3, <4>2 DEF CommentsInv, Behind, EffectiveComments
      <4>3. QED BY <4>1, <4>2
    <3>5. \A q \in tracked \ {k} : Behind(q)'
      BY <1>1, <3>3 DEF CommentsInv, Behind
    <3>6. \A q \in todo' : q \in tracked \ {k} /\ q \in todo
      BY <1>1, <3>1, CommentTypes DEF Done
    <3>7. \A q \in todo' : Slot(q)'.counted => Between(q)'
      BY <1>1, <3>3, <3>6 DEF CommentsInv, Between, Slot
    <3>8. QED BY <1>1, <3>4, <3>5, <3>7 DEF CommentsInv
  <2>4. QED BY <2>1, <2>2, <2>3
<1>6. CASE Touch(k)
  <2>1. PICK r \in Row : /\ row' = [row EXCEPT ![k] = r] \/ row' = row
                         /\ r.comments = row[k].comments
    <3>1. [Touched(k) EXCEPT !.deleted = TRUE].comments = row[k].comments
      BY <1>4, RowTypes DEF Row
    <3>2. QED BY <1>4, <1>6, <3>1, RowTypes DEF Touch, Write
  <2>2. QED BY <1>1, <1>3, <2>1
<1>7. CASE PatchDropped(k) \/ PatchReplyLost(k)
  <2>1. row' = [row EXCEPT ![k] = Touched(k)] \/ row' = row
    BY <1>7 DEF PatchDropped, PatchReplyLost, WriteAfterFault
  <2>2. QED BY <1>1, <1>3, <1>4, <2>1
<1>8. CASE PatchLands(k) \/ SaveFails(k)
  <2>1. row' = row
    BY <1>8 DEF PatchLands, SaveFails, store
  <2>2. QED BY <1>3, <2>1
<1>9. CASE MarkEdited(k)
  <2>1. row' = [row EXCEPT ![k] = [row[k] EXCEPT !.edited = TRUE]]
    BY <1>9 DEF MarkEdited
  <2>2. [row[k] EXCEPT !.edited = TRUE].comments = row[k].comments
    BY <1>1 DEF Row
  <2>3. QED BY <1>1, <1>3, <2>1, <2>2
<1>10. QED BY <1>5, <1>6, <1>7, <1>8, <1>9 DEF Apply

(* No row is ahead of its message.                                         *)
LEMMA CommentsHold == Spec => []CommentsInv
<1>1. Init => CommentsInv
  BY DEF Init, CommentsInv
<1>2. ASSUME TypeInv, TypeInv', CommentsInv, [Next]_vars
      PROVE  CommentsInv'
  <2>1. ASSUME NEW m \in Msgs, NEW s \in Source, Change(m, s),
               s.comments \in {src[m].comments, 1}
        PROVE  CommentsInv'
    <3>1. UNCHANGED <<row, tracked, todo, answer>> /\ src' = [src EXCEPT ![m] = s]
      BY <2>1 DEF Change, store, tick
    <3>2. \A q \in tracked : src'[MsgOf[q]].comments >= src[MsgOf[q]].comments
      <4> SUFFICES ASSUME NEW q \in tracked
                   PROVE  src'[MsgOf[q]].comments >= src[MsgOf[q]].comments
        OBVIOUS
      <4>1. MsgOf[q] \in Msgs /\ src \in [Msgs -> Source] /\ src[MsgOf[q]].comments \in 0..1
        BY <1>2, CommentTypes DEF TypeInv, SourceOK
      <4>2. src'[MsgOf[q]] = IF MsgOf[q] = m THEN s ELSE src[MsgOf[q]]
        BY <3>1, <4>1
      <4>3. CASE MsgOf[q] = m
        BY <2>1, <4>1, <4>2, <4>3
      <4>4. CASE MsgOf[q] # m
        BY <4>1, <4>2, <4>4
      <4>5. QED BY <4>3, <4>4
    <3>3. QED BY <1>2, <3>1, <3>2, StillComments DEF Slot
  <2>2. ASSUME NEW m \in Msgs,
               \/ \E t \in Texts : EditSource(m, t)
               \/ React(m) \/ Comment(m) \/ DeleteSource(m)
        PROVE  CommentsInv'
    <3>1. src[m] \in Source /\ src[m].comments \in 0..1
      BY <1>2 DEF TypeInv, SourceOK, Source
    <3>2. /\ \A t \in Texts : [src[m] EXCEPT !.text = t] \in Source
          /\ [src[m] EXCEPT !.likes = 1 - @] \in Source
          /\ [src[m] EXCEPT !.comments = 1] \in Source
          /\ [src[m] EXCEPT !.where = "gone"] \in Source
      BY <3>1 DEF Source, Where
    <3>3. /\ \A t : [src[m] EXCEPT !.text = t].comments = src[m].comments
          /\ [src[m] EXCEPT !.likes = 1 - @].comments = src[m].comments
          /\ [src[m] EXCEPT !.comments = 1].comments = 1
          /\ [src[m] EXCEPT !.where = "gone"].comments = src[m].comments
      BY <3>1 DEF Source
    <3>4. PICK s \in Source : Change(m, s) /\ s.comments \in {src[m].comments, 1}
      BY <2>2, <3>2, <3>3 DEF EditSource, React, Comment, DeleteSource
    <3>5. QED BY <2>1, <3>4
  <2>3. ASSUME NEW k \in Keys, NEW t \in Texts, NEW live \in BOOLEAN, Record(k, t, live)
        PROVE  CommentsInv'
    <3>1. /\ tracked' = tracked \cup {k} /\ k \notin tracked
          /\ UNCHANGED <<src, todo, answer>>
          /\ \A q \in tracked : row'[q] = row[q]
      BY <1>2, <2>3 DEF Record, source, tick, TypeInv, StoreOK
    <3>2. row'[k].comments = IF live THEN 0 ELSE src[MsgOf[k]].comments
      BY <2>3 DEF Record
    <3>3. src[MsgOf[k]].comments \in 0..1
      BY <1>2, RefreshAssumption DEF TypeInv, SourceOK, Source
    <3>4. Behind(k)'
      <4>1. CASE live
        BY <3>1, <3>2, <3>3, <4>1 DEF Behind
      <4>2. CASE ~live
        BY <3>1, <3>2, <3>3, <4>2 DEF Behind
      <4>3. QED BY <4>1, <4>2
    <3>5. \A q \in todo : q \in tracked
      BY <1>2 DEF TypeInv, TickOK
    <3>6. QED BY <1>2, <3>1, <3>4, <3>5 DEF CommentsInv, Behind, Between, Slot
  <2>4. CASE Elapse
    <3>1. /\ UNCHANGED <<src, todo, answer, tracked>>
          /\ row' = [k \in tracked |-> IF row[k].age > Horizon THEN row[k]
                                       ELSE [row[k] EXCEPT !.age = @ + 1]]
      BY <2>4 DEF Elapse, tick, source
    <3>2. \A k \in tracked : row[k] \in Row
      BY <1>2 DEF TypeInv, StoreOK
    <3>3. \A k \in tracked : row'[k].comments = row[k].comments
      BY <3>1, <3>2 DEF Row
    <3>4. \A q \in tracked : src'[MsgOf[q]].comments >= src[MsgOf[q]].comments
      BY <1>2, <3>1, CommentTypes
    <3>5. QED BY <1>2, <3>1, <3>3, <3>4, StillComments DEF Slot
  <2>5. CASE TickIdle \/ TickStart \/ TickFails \/ Restart \/ UNCHANGED vars
    <3>1. UNCHANGED <<src, todo, answer, tracked, row>>
      BY <2>5 DEF TickIdle, TickStart, TickFails, Restart, vars, store, tick, source
    <3>2. QED BY <1>2, <3>1 DEF CommentsInv, Behind, Between, Slot
  <2>6. ASSUME NEW c, Fetch(c)
        PROVE  CommentsInv'
    <3>1. /\ UNCHANGED <<src, tracked, row>>
          /\ \A q \in todo' : \E counted \in BOOLEAN : Slot(q)' = SlotOf(MsgOf[q], counted)
      BY <2>6 DEF Fetch, source, store, Slot
    <3>2. todo' \subseteq tracked
      BY <1>2, <3>1 DEF TypeInv, TickOK
    <3>3. ASSUME NEW q \in todo', Slot(q)'.counted
          PROVE  Between(q)'
      <4>1. PICK counted \in BOOLEAN : Slot(q)' = SlotOf(MsgOf[q], counted)
        BY <3>1
      <4>2. counted
        BY <3>3, <4>1 DEF SlotOf
      <4>3. Slot(q)'.comments = src[MsgOf[q]].comments
        BY <4>1, <4>2 DEF SlotOf
      <4>4. Behind(q) /\ src[MsgOf[q]].comments \in 0..1
        BY <1>2, <3>2, CommentTypes DEF CommentsInv
      <4>5. QED BY <3>1, <4>3, <4>4 DEF Behind, Between
    <3>4. QED BY <1>2, <3>1, <3>3 DEF CommentsInv, Behind
  <2>7. CASE Prune \/ PruneFails
    <3>1. /\ UNCHANGED <<src, todo>> /\ todo = {}
          /\ tracked' \subseteq tracked /\ \A k \in tracked' : row'[k] = row[k]
      BY <2>7 DEF Prune, PruneFails, store, source
    <3>2. QED BY <1>2, <3>1 DEF CommentsInv, Behind
  <2>8. CASE Crash
    <3>1. UNCHANGED <<src, tracked, row>> /\ todo' = {}
      BY <2>8 DEF Crash, source, store
    <3>2. QED BY <1>2, <3>1 DEF CommentsInv, Behind
  <2>9. ASSUME NEW k \in todo, Apply(k)
        PROVE  CommentsInv'
    BY <1>2, <2>9, ApplyComments
  <2>10. QED BY <1>2, <2>2, <2>3, <2>4, <2>5, <2>6, <2>7, <2>8, <2>9 DEF Next, Working
<1>3. QED BY <1>1, <1>2, TypesHold, PTL DEF Spec

(* A rebuilt embed keeps the edit the old one showed, but in a tombstone,  *)
(* and its comments.                                                       *)
LEMMA RebuiltRemembers ==
    ASSUME TypeInv, RowsInv, CommentsInv, NEW k \in todo, k \in Known, k \notin excused,
           landed = {}
    PROVE  /\ embed[k].edited => Rebuilt(k).edited \/ Rebuilt(k).deleted
           /\ Rebuilt(k).comments >= embed[k].comments
<1>1. k \in tracked /\ row[k] \in Row /\ embed[k] \in Embed /\ Slot(k) \in Answer
  BY RowTypes
<1>2. InStep(k) /\ ~row[k].deleted
  BY <1>1 DEF RowsInv, RowsTellTheEmbeds, WorkedAreLive
<1>3. row[k].edited = embed[k].edited /\ row[k].comments = embed[k].comments
  BY <1>2 DEF InStep
<1>4. CASE Kind(k) = "Deleted"
  <2>1. Rebuilt(k) = [embed[k] EXCEPT !.likes = row[k].likes, !.comments = row[k].comments,
                                      !.edited = FALSE, !.deleted = TRUE]
    BY <1>4 DEF Rebuilt
  <2>2. Rebuilt(k).deleted = TRUE /\ Rebuilt(k).comments = row[k].comments
    BY <1>1, <2>1 DEF Embed
  <2>3. embed[k].comments \in 0..1
    BY <1>1 DEF Embed
  <2>4. Rebuilt(k).comments >= embed[k].comments
    BY <1>3, <2>2, <2>3
  <2>5. QED BY <2>2, <2>4
<1>5. CASE Kind(k) # "Deleted"
  <2>1. /\ Rebuilt(k).edited = (row[k].edited \/ Kind(k) = "Edited")
        /\ Rebuilt(k).comments = EffectiveComments(k)
    BY <1>5 DEF Rebuilt
  <2>2. embed[k].edited => Rebuilt(k).edited
    BY <1>3, <2>1, Zenon
  <2>3. EffectiveComments(k) >= row[k].comments
    <3>1. row[k].comments \in 0..1 /\ Slot(k).comments \in 0..1
      BY <1>1 DEF Row, Answer
    <3>2. CASE Slot(k).counted
      <4>1. Between(k) /\ EffectiveComments(k) = Slot(k).comments
        BY <3>2 DEF CommentsInv, EffectiveComments
      <4>2. QED BY <3>1, <4>1 DEF Between
    <3>3. CASE ~Slot(k).counted
      <4>1. EffectiveComments(k) = row[k].comments
        BY <3>3 DEF EffectiveComments
      <4>2. QED BY <3>1, <4>1
    <3>4. QED BY <3>2, <3>3
  <2>4. QED BY <1>3, <2>1, <2>2, <2>3
<1>6. QED BY <1>4, <1>5

(* What an embed has told stays told: once a post has been edited it stays *)
(* edited, save to a tombstone, and a refresh that was told no comment     *)
(* count takes no comments away (apply).                                   *)
THEOREM EmbedsRememberAlways == Spec => EmbedsRemember
<1> DEFINE Remember(k) == /\ embed[k].edited => embed'[k].edited \/ embed'[k].deleted
                          /\ embed'[k].comments >= embed[k].comments
           Step == [\A k \in DOMAIN embed \ excused : Remember(k)]_vars
<1>1. ASSUME TypeInv, RowsInv, CommentsInv, [Next]_vars
      PROVE  Step
  <2> SUFFICES ASSUME NEW q \in DOMAIN embed \ excused
               PROVE  Remember(q)
    OBVIOUS
  <2>1. embed[q].comments \in 0..1
    BY <1>1 DEF TypeInv, StoreOK, Embed
  <2>2. ASSUME embed'[q] = embed[q]
        PROVE  Remember(q)
    <3>1. embed'[q].comments >= embed[q].comments
      BY <2>1, <2>2
    <3>2. QED BY <2>2, <3>1
  <2>3. CASE \E k \in todo : PatchLands(k) \/ PatchReplyLost(k)
    <3>1. PICK k \in todo : PatchLands(k) \/ PatchReplyLost(k)
      BY <2>3
    <3>2. landed = {} /\ k \in Known /\ embed' = [embed EXCEPT ![k] = Rebuilt(k)]
      BY <3>1 DEF PatchLands, PatchReplyLost, Idle
    <3>3. CASE q = k
      <4>1. embed'[q] = Rebuilt(q)
        BY <3>2, <3>3
      <4>2. QED BY <1>1, <3>2, <3>3, <4>1, RebuiltRemembers
    <3>4. CASE q # k
      <4>1. embed'[q] = embed[q]
        BY <3>2, <3>4
      <4>2. QED BY <2>2, <4>1
    <3>5. QED BY <3>3, <3>4
  <2>4. CASE \E k \in Keys, t \in Texts, live \in BOOLEAN : Record(k, t, live)
    <3>1. embed'[q] = embed[q]
      BY <2>4 DEF Record
    <3>2. QED BY <2>2, <3>1
  <2>5. CASE embed' = embed
    BY <2>2, <2>5
  <2>6. QED
    <3>1. ASSUME NEW k \in todo, Apply(k)
          PROVE  PatchLands(k) \/ PatchReplyLost(k) \/ embed' = embed
      BY <3>1 DEF Apply, Touch, PatchDropped, MarkEdited, Save, SaveFails
    <3>2. CASE Working
      BY <2>3, <2>5, <3>1, <3>2 DEF Working, TickIdle, TickStart, TickFails,
                                        Fetch, Prune, PruneFails
    <3>3. CASE ~Working
      BY <1>1, <2>4, <2>5, <3>3
         DEF Next, EditSource, React, Comment, DeleteSource, Change, Elapse, Crash, Restart, vars
    <3>4. QED BY <3>2, <3>3
<1>2. Spec => []TypeInv /\ []RowsInv /\ []CommentsInv
  BY TypesHold, RowsHold, CommentsHold, PTL
<1>3. QED BY <1>1, <1>2, PTL DEF Spec, EmbedsRemember
-----------------------------------------------------------------------------
(* How often a row is asked for. Passed(x) counts the checkpoints and the  *)
(* intervals up to age x; each answer is paid for by what was passed since *)
(* the row was checked, or by a fault.                                     *)
Passed(x) == Cardinality({c \in Checkpoints : c <= x}) + x \div Interval

Polite(k) ==
    /\ row[k].checked <= row[k].age
    /\ polled[k] <= Passed(row[k].checked) + faults + (IF k \in todo THEN 1 ELSE 0)
    /\ k \in picks \cup todo => Passed(row[k].age) >= Passed(row[k].checked) + 1

PollInv ==
    /\ \A k \in tracked : Polite(k)
    /\ \A k \in Keys \ DOMAIN embed : polled[k] = 0

(* There are three checkpoints at most.                                   *)
LEMMA UpToIsFinite ==
    ASSUME NEW x \in Nat
    PROVE  /\ IsFiniteSet({c \in Checkpoints : c <= x})
           /\ Cardinality({c \in Checkpoints : c <= x}) \in Nat
<1>1. IsFiniteSet(Checkpoints)
  <2>1. IsFiniteSet({Early}) /\ IsFiniteSet({Interval}) /\ IsFiniteSet({ReactionHorizon})
    BY FS_Singleton
  <2>2. Checkpoints = ({Early} \cup {Interval}) \cup {ReactionHorizon}
    BY DEF Checkpoints
  <2>3. IsFiniteSet({Early} \cup {Interval})
    BY <2>1, FS_Union
  <2>4. QED BY <2>1, <2>2, <2>3, FS_Union
<1>2. IsFiniteSet({c \in Checkpoints : c <= x})
  BY <1>1, FS_Subset
<1>3. QED BY <1>2, FS_CardinalityType

(* Counting whole intervals.                                               *)
LEMMA Quotients ==
    ASSUME NEW n \in Nat, n > 0, NEW a \in Nat, NEW c \in Nat, c <= a
    PROVE  /\ a \div n \in Nat /\ c \div n \in Nat /\ c \div n <= a \div n
           /\ a >= c + n => a \div n >= c \div n + 1
<1>1. a \div n \in Nat /\ c \div n \in Nat
  OBVIOUS
<1>2. c \div n <= a \div n
  OBVIOUS
<1>3. ASSUME a >= c + n PROVE a \div n >= c \div n + 1
  BY <1>3
<1>4. QED BY <1>1, <1>2, <1>3

(* More is passed with age.                                                *)
LEMMA PassedGrows ==
    ASSUME Interval > 0, NEW a \in Nat, NEW c \in Nat, c <= a
    PROVE  Passed(a) \in Nat /\ Passed(c) \in Nat /\ Passed(c) <= Passed(a)
<1> DEFINE U == {p \in Checkpoints : p <= a}
           V == {p \in Checkpoints : p <= c}
<1>1. Checkpoints \subseteq Nat /\ Interval \in Nat
  BY RefreshAssumption DEF Checkpoints
<1>2. V \subseteq U
  <2>1. \A p \in Checkpoints : p <= c => p <= a
    BY <1>1
  <2>2. QED BY <2>1
<1>3. IsFiniteSet(U) /\ Cardinality(U) \in Nat /\ Cardinality(V) \in Nat
  BY UpToIsFinite
<1>4. Cardinality(V) <= Cardinality(U)
  BY <1>2, <1>3, FS_Subset
<1>5. a \div Interval \in Nat /\ c \div Interval \in Nat /\ c \div Interval <= a \div Interval
  BY <1>1, Quotients
<1>6. Passed(a) = Cardinality(U) + a \div Interval /\ Passed(c) = Cardinality(V) + c \div Interval
  BY DEF Passed
<1> HIDE DEF U, V
<1>7. QED BY <1>3, <1>4, <1>5, <1>6

(* A row that is due has passed something since it was checked.            *)
LEMMA DueHasPassed ==
    ASSUME Interval > 0, NEW a \in Nat, NEW c \in Nat, c <= a, FetchDue(a, c)
    PROVE  Passed(a) >= Passed(c) + 1
<1> DEFINE U == {p \in Checkpoints : p <= a}
           V == {p \in Checkpoints : p <= c}
<1>1. Checkpoints \subseteq Nat /\ Interval \in Nat
  BY RefreshAssumption DEF Checkpoints
<1>2. /\ IsFiniteSet(U) /\ IsFiniteSet(V)
      /\ Cardinality(U) \in Nat /\ Cardinality(V) \in Nat
  BY UpToIsFinite
<1>3. V \subseteq U
  <2>1. \A p \in Checkpoints : p <= c => p <= a
    BY <1>1
  <2>2. QED BY <2>1
<1>4. Cardinality(V) <= Cardinality(U)
  BY <1>2, <1>3, FS_Subset
<1>5. a \div Interval \in Nat /\ c \div Interval \in Nat /\ c \div Interval <= a \div Interval
  BY <1>1, Quotients
<1>6. Passed(a) = Cardinality(U) + a \div Interval /\ Passed(c) = Cardinality(V) + c \div Interval
  BY DEF Passed
<1>7. CASE Crossed(a, c) # {}
  <2>1. PICK p \in Checkpoints : c < p /\ p <= a
    BY <1>7 DEF Crossed
  <2>2. p \in U /\ p \notin V
    BY <1>1, <2>1
  <2>3. Cardinality(V) < Cardinality(U)
    BY <1>2, <1>3, <2>2, FS_Subset
  <2> HIDE DEF U, V
  <2>4. QED BY <1>2, <1>5, <1>6, <2>3
<1>8. CASE a - c >= Interval
  <2>1. a \div Interval >= c \div Interval + 1
    BY <1>1, <1>8, Quotients
  <2> HIDE DEF U, V
  <2>2. QED BY <1>2, <1>4, <1>5, <1>6, <2>1
<1>9. QED BY <1>7, <1>8 DEF FetchDue

(* A row the step does not check, and what is asked for does not grow.     *)
LEMMA StillPolite ==
    ASSUME Interval > 0, TypeInv, TypeInv', NEW k \in tracked, k \in tracked', Polite(k),
           row'[k].checked = row[k].checked, row'[k].age >= row[k].age,
           polled'[k] = polled[k], faults' >= faults,
           k \in todo => k \in todo' \/ faults' >= faults + 1,
           k \in picks' \cup todo' => k \in picks \cup todo
    PROVE  Polite(k)'
<1>1. /\ row[k].age \in Nat /\ row[k].checked \in Nat
      /\ row'[k].age \in Nat /\ row'[k].checked \in Nat
      /\ polled[k] \in Nat /\ faults \in Nat /\ faults' \in Nat
  BY RefreshAssumption DEF TypeInv, StoreOK, CountsOK, NumbersOK, Row, Ages
<1>2. /\ Passed(row[k].checked) \in Nat /\ Passed(row[k].age) \in Nat
      /\ Passed(row'[k].age) \in Nat /\ Passed(row[k].age) <= Passed(row'[k].age)
  BY <1>1, PassedGrows
<1>3. row'[k].checked <= row'[k].age
  BY <1>1 DEF Polite
<1>4. polled'[k] <= Passed(row'[k].checked) + faults' + (IF k \in todo' THEN 1 ELSE 0)
  <2>1. CASE k \in todo
    BY <1>1, <1>2, <2>1 DEF Polite
  <2>2. CASE k \notin todo
    BY <1>1, <1>2, <2>2 DEF Polite
  <2>3. QED BY <2>1, <2>2
<1>5. k \in picks' \cup todo' => Passed(row'[k].age) >= Passed(row'[k].checked) + 1
  BY <1>1, <1>2 DEF Polite
<1>6. QED BY <1>3, <1>4, <1>5 DEF Polite, Passed

(* A row that was asked for and is checked now.                            *)
LEMMA CheckedIsPolite ==
    ASSUME Interval > 0, TypeInv, TypeInv', NEW k \in todo, k \in tracked, k \in tracked', Polite(k),
           row'[k].checked = row[k].age, row'[k].age = row[k].age,
           polled'[k] = polled[k], faults' >= faults, k \notin picks' \cup todo'
    PROVE  Polite(k)'
<1>1. /\ row[k].age \in Nat /\ row[k].checked \in Nat
      /\ polled[k] \in Nat /\ faults \in Nat /\ faults' \in Nat
  BY RefreshAssumption DEF TypeInv, StoreOK, CountsOK, NumbersOK, Row, Ages
<1>2. /\ Passed(row[k].checked) \in Nat /\ Passed(row[k].age) \in Nat
  BY <1>1, PassedGrows
<1>3. polled[k] <= Passed(row[k].checked) + faults + 1 /\ Passed(row[k].age) >= Passed(row[k].checked) + 1
  BY DEF Polite
<1>4. polled'[k] <= Passed(row'[k].checked) + faults' + (IF k \in todo' THEN 1 ELSE 0)
  BY <1>1, <1>2, <1>3
<1>5. row'[k].checked <= row'[k].age
  BY <1>1
<1>6. k \notin picks' /\ k \notin todo'
  OBVIOUS
<1>7. QED BY <1>4, <1>5, <1>6 DEF Polite, Passed

(* Each way to apply a row checks it or is a fault.                        *)
LEMMA ApplyIsPolite ==
    ASSUME Interval > 0, TypeInv, TypeInv', PollInv, NEW k \in todo, Apply(k)
    PROVE  PollInv'
<1>1. /\ k \in tracked /\ row[k] \in Row /\ row \in [tracked -> Row] /\ k \notin picks
      /\ faults \in Nat /\ faults' \in Nat
  <2>1. k \in tracked /\ row[k] \in Row /\ row \in [tracked -> Row]
    BY RowTypes DEF TypeInv, StoreOK
  <2>2. k \notin picks
    BY DEF TypeInv, TickOK
  <2>3. faults \in Nat /\ faults' \in Nat
    BY RefreshAssumption DEF TypeInv, NumbersOK
  <2>4. QED BY <2>1, <2>2, <2>3
<1>2. /\ UNCHANGED <<tracked, polled, picks>> /\ DOMAIN embed' = DOMAIN embed
      /\ todo' = todo \/ todo' = todo \ {k}
      /\ faults' = faults \/ faults' = faults + 1
  BY DEF Apply, Touch, PatchLands, PatchDropped, PatchReplyLost, MarkEdited, Save, SaveFails,
         Write, Strike, history, store, Done
<1>3. \A q \in tracked : q # k => row'[q] = row[q]
  BY <1>1 DEF Apply, Touch, PatchLands, PatchDropped, PatchReplyLost, MarkEdited, Save, SaveFails,
         Write, WriteAfterFault, store
<1>4. faults' >= faults
  BY <1>1, <1>2
<1>5. Touched(k).checked = row[k].age /\ Touched(k).age = row[k].age /\ Touched(k) \in Row
  BY <1>1, RowTypes DEF Touched, Row
<1>6. \/ /\ row'[k].checked = row[k].age /\ row'[k].age = row[k].age /\ todo' = todo \ {k}
      \/ /\ row'[k].checked = row[k].checked /\ row'[k].age = row[k].age
         /\ todo' = todo \/ faults' = faults + 1
  <2>1. CASE Touch(k)
    <3>1. /\ [Touched(k) EXCEPT !.deleted = TRUE].checked = row[k].age
          /\ [Touched(k) EXCEPT !.deleted = TRUE].age = row[k].age
      BY <1>5 DEF Row
    <3>2. PICK r : /\ Write(k, r) /\ r.checked = row[k].age /\ r.age = row[k].age
      BY <1>5, <2>1, <3>1 DEF Touch
    <3>3. CASE row' = [row EXCEPT ![k] = r]
      BY <1>1, <2>1, <3>2, <3>3 DEF Touch, Done
    <3>4. CASE Strike("storeError") /\ UNCHANGED row
      BY <3>4 DEF Strike
    <3>5. QED BY <3>2, <3>3, <3>4 DEF Write
  <2>2. CASE PatchDropped(k) \/ PatchReplyLost(k)
    <3>1. /\ row' = [row EXCEPT ![k] = Touched(k)] \/ row' = row
          /\ faults' = faults + 1
      BY <2>2 DEF PatchDropped, PatchReplyLost, WriteAfterFault, Strike
    <3>2. QED BY <1>1, <1>5, <2>2, <3>1 DEF PatchDropped, PatchReplyLost, Done
  <2>3. CASE PatchLands(k)
    BY <2>3 DEF PatchLands, store
  <2>4. CASE SaveFails(k)
    BY <2>4 DEF SaveFails, store, Strike
  <2>5. CASE MarkEdited(k)
    <3>1. row' = [row EXCEPT ![k] = [row[k] EXCEPT !.edited = TRUE]] /\ todo' = todo
      BY <2>5 DEF MarkEdited
    <3>2. QED BY <1>1, <3>1 DEF Row
  <2>6. ASSUME NEW step \in {"stats", "delete"}, Save(k, step)
        PROVE  row'[k].checked = row[k].age /\ row'[k].age = row[k].age /\ todo' = todo \ {k}
    <3>1. CASE step = "delete"
      <4>1. row'[k] = [Touched(k) EXCEPT !.deleted = TRUE]
        BY <1>1, <2>6, <3>1 DEF Save
      <4>2. QED BY <1>5, <2>6, <4>1 DEF Save, Done, Row
    <3>2. CASE step = "stats"
      <4>1. row'[k] = [Touched(k) EXCEPT !.hash = FetchedBody(k), !.likes = Slot(k).likes,
                                         !.comments = EffectiveComments(k)]
        BY <1>1, <2>6, <3>2 DEF Save
      <4>2. QED BY <1>5, <2>6, <4>1 DEF Save, Done, Row
    <3>3. QED BY <3>1, <3>2
  <2>7. QED BY <2>1, <2>2, <2>3, <2>4, <2>5, <2>6 DEF Apply
<1>7. Polite(k) /\ row[k].age \in Nat
  BY <1>1 DEF PollInv, Row, Ages
<1>8. Polite(k)'
  <2>1. CASE /\ row'[k].checked = row[k].age /\ row'[k].age = row[k].age /\ todo' = todo \ {k}
    BY <1>1, <1>2, <1>4, <1>7, <2>1, CheckedIsPolite
  <2>2. CASE /\ row'[k].checked = row[k].checked /\ row'[k].age = row[k].age
             /\ todo' = todo \/ faults' = faults + 1
    <3>1. k \in todo => k \in todo' \/ faults' >= faults + 1
      BY <1>1, <2>2
    <3>2. QED BY <1>1, <1>2, <1>4, <1>7, <2>2, <3>1, StillPolite
  <2>3. QED BY <1>6, <2>1, <2>2
<1>9. ASSUME NEW q \in tracked, q # k
      PROVE  Polite(q)'
  <2>1. row'[q] = row[q] /\ row[q].age \in Nat /\ Polite(q)
    BY <1>1, <1>3, <1>9 DEF PollInv, Row, Ages
  <2>2. q \in todo => q \in todo'
    BY <1>2, <1>9
  <2>3. q \in picks' \cup todo' => q \in picks \cup todo
    BY <1>2
  <2>4. QED BY <1>2, <1>4, <1>9, <2>1, <2>2, <2>3, StillPolite
<1>10. QED BY <1>2, <1>8, <1>9 DEF PollInv

(* A tick picks only what is due, and nothing is fetched that was not      *)
(* picked.                                                                 *)
LEMMA TickIsPolite ==
    ASSUME Interval > 0, TypeInv, TypeInv', PollInv, TickStart \/ \E c : Fetch(c)
    PROVE  PollInv'
<1>1. ASSUME NEW q \in tracked
      PROVE  /\ row[q].age \in Nat /\ row[q].checked \in Nat /\ polled[q] \in Nat
             /\ Passed(row[q].age) \in Nat /\ Passed(row[q].checked) \in Nat
             /\ Polite(q) /\ q \in Keys /\ row[q].checked <= row[q].age
  <2>1. row[q].age \in Nat /\ row[q].checked \in Nat /\ polled[q] \in Nat /\ q \in Keys
    BY <1>1, RefreshAssumption DEF TypeInv, StoreOK, CountsOK, Row, Ages
  <2>2. Polite(q)
    BY <1>1 DEF PollInv
  <2>3. QED BY <2>1, <2>2, PassedGrows DEF Polite
<1>2. faults \in Nat /\ faults' \in Nat
  BY RefreshAssumption DEF TypeInv, NumbersOK
<1>3. CASE TickStart
  <2>1. /\ UNCHANGED <<tracked, row, embed, todo, polled, faults>>
        /\ picks' = {k \in Due : FetchDue(row[k].age, row[k].checked)}
    BY <1>3 DEF TickStart, store
  <2>2. ASSUME NEW q \in tracked
        PROVE  Polite(q)'
    <3>1. q \in picks' => Passed(row[q].age) >= Passed(row[q].checked) + 1
      BY <1>1, <2>1, <2>2, DueHasPassed
    <3>2. Polite(q)
      BY <1>1, <2>2
    <3>3. QED BY <2>1, <3>1, <3>2 DEF Polite, Passed
  <2>3. QED BY <2>1, <2>2 DEF PollInv
<1>4. ASSUME NEW c, Fetch(c)
      PROVE  PollInv'
  <2>1. /\ UNCHANGED <<tracked, row, embed>> /\ todo = {}
        /\ picks' \subseteq picks /\ todo' \subseteq picks
        /\ polled' = [k \in Keys |-> IF k \in todo' THEN polled[k] + 1 ELSE polled[k]]
        /\ faults' = faults \/ faults' = faults + 1
    BY <1>4 DEF Fetch, store, Strike
  <2>2. ASSUME NEW q \in tracked
        PROVE  Polite(q)'
    <3>1. polled[q] <= Passed(row[q].checked) + faults
      <4>1. Polite(q) /\ q \notin todo /\ Passed(row[q].checked) \in Nat
        BY <1>1, <2>1, <2>2
      <4>2. polled[q] <= Passed(row[q].checked) + faults + 0
        BY <4>1 DEF Polite
      <4>3. QED BY <1>2, <4>1, <4>2
    <3>2. polled'[q] = IF q \in todo' THEN polled[q] + 1 ELSE polled[q]
      BY <1>1, <2>1, <2>2
    <3>3. polled'[q] <= Passed(row[q].checked) + faults' + (IF q \in todo' THEN 1 ELSE 0)
      BY <1>1, <1>2, <2>1, <2>2, <3>1, <3>2
    <3>4. q \in picks' \cup todo' => Passed(row[q].age) >= Passed(row[q].checked) + 1
      BY <1>1, <2>1, <2>2 DEF Polite
    <3>5. row[q].checked <= row[q].age
      BY <1>1, <2>2
    <3>6. QED BY <2>1, <3>3, <3>4, <3>5 DEF Polite, Passed
  <2>3. ASSUME NEW q \in Keys \ DOMAIN embed
        PROVE  polled'[q] = 0
    <3>1. q \notin todo'
      BY <2>1, <2>3 DEF TypeInv, TickOK, StoreOK
    <3>2. QED BY <2>1, <2>3, <3>1 DEF PollInv
  <2>4. QED BY <2>1, <2>2, <2>3 DEF PollInv
<1>5. QED BY <1>3, <1>4

(* Every answer is paid for.                                               *)
LEMMA PollsHold ==
    ASSUME Interval > 0
    PROVE  Spec => []PollInv
<1>1. Init => PollInv
  BY DEF Init, PollInv
<1>2. ASSUME TypeInv, TypeInv', PollInv, [Next]_vars
      PROVE  PollInv'
  <2>1. faults \in Nat /\ faults' \in Nat
    BY <1>2, RefreshAssumption DEF TypeInv, NumbersOK
  <2>2. \A q \in tracked : Polite(q) /\ row[q].age \in Nat
    BY <1>2, RefreshAssumption DEF PollInv, TypeInv, StoreOK, Row, Ages
  <2>3. ASSUME UNCHANGED <<tracked, row, embed, picks, todo, polled, faults>>
        PROVE  PollInv'
    BY <1>2, <2>3 DEF PollInv, Polite, Passed
  <2>4. CASE \/ \E m \in Msgs, t \in Texts : EditSource(m, t)
             \/ \E m \in Msgs : React(m) \/ Comment(m) \/ DeleteSource(m)
    BY <2>3, <2>4 DEF EditSource, React, Comment, DeleteSource, Change, store, tick
  <2>5. CASE TickIdle \/ Restart \/ UNCHANGED vars
    BY <2>3, <2>5 DEF TickIdle, Restart, vars, store, tick, history
  <2>6. ASSUME NEW k \in Keys, NEW t \in Texts, NEW live \in BOOLEAN, Record(k, t, live)
        PROVE  PollInv'
    <3>1. /\ tracked' = tracked \cup {k} /\ k \notin tracked /\ k \notin DOMAIN embed
          /\ DOMAIN embed' = DOMAIN embed \cup {k}
          /\ UNCHANGED <<picks, todo, polled, faults>>
          /\ \A q \in tracked : row'[q] = row[q]
          /\ row'[k].age = 0 /\ row'[k].checked = 0
      BY <1>2, <2>6 DEF Record, tick, history, TypeInv, StoreOK
    <3>2. polled'[k] = 0 /\ k \notin picks' /\ k \notin todo'
      BY <1>2, <3>1 DEF PollInv, TypeInv, StoreOK, TickOK
    <3>3. Passed(0) \in Nat
      BY PassedGrows
    <3>4. Polite(k)'
      <4>1. /\ row'[k].checked <= row'[k].age
            /\ polled'[k] <= Passed(row'[k].checked) + faults' + (IF k \in todo' THEN 1 ELSE 0)
        BY <2>1, <3>1, <3>2, <3>3
      <4>2. QED BY <3>2, <4>1 DEF Polite, Passed
    <3>5. \A q \in tracked : Polite(q)'
      BY <2>2, <3>1 DEF Polite, Passed
    <3>6. QED BY <1>2, <3>1, <3>4, <3>5 DEF PollInv
  <2>7. CASE Elapse
    <3>1. /\ UNCHANGED <<tracked, embed, picks, todo, polled, faults>>
          /\ row' = [k \in tracked |-> IF row[k].age > Horizon THEN row[k]
                                       ELSE [row[k] EXCEPT !.age = @ + 1]]
      BY <2>7 DEF Elapse, tick
    <3>2. \A q \in tracked : row'[q].checked = row[q].checked /\ row'[q].age >= row[q].age
      <4>1. \A q \in tracked : row[q] \in Row
        BY <1>2 DEF TypeInv, StoreOK
      <4>2. QED BY <2>2, <3>1, <4>1 DEF Row
    <3>3. \A q \in tracked : Polite(q)'
      BY <1>2, <2>1, <2>2, <3>1, <3>2, StillPolite
    <3>4. QED BY <1>2, <3>1, <3>3 DEF PollInv
  <2>8. CASE TickStart \/ \E c : Fetch(c)
    BY <1>2, <2>8, TickIsPolite
  <2>13. CASE TickFails \/ PruneFails
    <3>1. /\ UNCHANGED <<tracked, row, embed, picks, todo, polled>> /\ faults' = faults + 1
      BY <2>13 DEF TickFails, PruneFails, Strike, store, tick, history
    <3>2. \A q \in tracked : Polite(q)'
      BY <1>2, <2>1, <2>2, <3>1, StillPolite
    <3>3. QED BY <1>2, <3>1, <3>2 DEF PollInv
  <2>9. CASE Prune
    <3>1. /\ UNCHANGED <<embed, picks, todo, polled, faults>>
          /\ tracked' \subseteq tracked /\ \A q \in tracked' : row'[q] = row[q]
      BY <2>9 DEF Prune, history
    <3>2. QED BY <1>2, <3>1 DEF PollInv, Polite, Passed
  <2>10. CASE Crash
    <3>1. /\ UNCHANGED <<tracked, row, embed, polled>>
          /\ picks' = {} /\ todo' = {} /\ faults' = faults + 1
      BY <2>10 DEF Crash, Strike, store
    <3>2. \A q \in tracked : Polite(q)'
      BY <1>2, <2>1, <2>2, <3>1, StillPolite
    <3>3. QED BY <1>2, <3>1, <3>2 DEF PollInv
  <2>11. ASSUME NEW k \in todo, Apply(k)
         PROVE  PollInv'
    BY <1>2, <2>11, ApplyIsPolite
  <2>12. QED BY <1>2, <2>4, <2>5, <2>6, <2>7, <2>8, <2>9, <2>10, <2>11, <2>13
             DEF Next, Working
<1>3. QED BY <1>1, <1>2, TypesHold, PTL DEF Spec

(* A row is asked for once per checkpoint its age has reached and once per *)
(* interval at most, plus once per fault: each way apply handles a row     *)
(* advances last_checked or is a fault.                                    *)
THEOREM PollingIsPoliteAlways ==
    ASSUME Interval > 0
    PROVE  Spec => []PollingIsPolite
<1>1. ASSUME TypeInv, PollInv
      PROVE  PollingIsPolite
  <2> SUFFICES ASSUME NEW k \in tracked
               PROVE  polled[k] <= Passed(row[k].age) + faults
    BY DEF PollingIsPolite, Passed
  <2>1. /\ row[k].age \in Nat /\ row[k].checked \in Nat /\ polled[k] \in Nat /\ faults \in Nat
    BY <1>1, RefreshAssumption DEF TypeInv, StoreOK, CountsOK, NumbersOK, Row, Ages
  <2>2. Polite(k)
    BY <1>1 DEF PollInv
  <2>3. /\ Passed(row[k].age) \in Nat /\ Passed(row[k].checked) \in Nat
        /\ Passed(row[k].checked) <= Passed(row[k].age)
    BY <2>1, <2>2, PassedGrows DEF Polite
  <2>4. QED BY <2>1, <2>2, <2>3 DEF Polite
<1>2. QED BY <1>1, PollsHold, TypesHold, PTL
-----------------------------------------------------------------------------
(* How long an embed may be out of date. *)

(* The answer about key k is what Telegram would answer now. *)
UpToDate(k) == /\ Slot(k).there <=> src[MsgOf[k]].where = "here"
               /\ Slot(k).text = src[MsgOf[k]].text

(* The time until the ticker fires. *)
Waiting(over, at) == IF over THEN 0 ELSE Base - at

Late(k) == k \in Due \cap (Known \ excused) /\ OutOfDate(k)

(* A late row that is not at work in this tick was checked before it       *)
(* became late, but for the time ticks have taken, and will be picked when *)
(* the interval since is over and the ticker fires.                        *)
InTime(k) == Late(k) => /\ stale[k] + row[k].checked <= row[k].age + slow
                        /\ stale[k] + Waiting(owed, phase) <= Interval + Base + slow

(* Nothing is late that is not there, or while the worker is not.          *)
NoneLate == /\ ~up => \A k \in Keys : stale[k] = 0
            /\ \A k \in Keys \ DOMAIN embed : stale[k] = 0

CheckedBefore == \A k \in tracked : row[k].checked <= row[k].age

(* An answer that is out of date became so while this tick was running.    *)
AnswersAreRecent == \A k \in todo : ~UpToDate(k) => stale[k] <= slow

LandedAsTold == \A l \in landed : l.step = "delete" <=> ~Slot(l.key).there

RestInTime == \A k \in tracked \ (picks \cup todo) : InTime(k)

StaleInv == /\ StaleIsBounded /\ NoneLate /\ CheckedBefore
            /\ AnswersAreRecent /\ LandedAsTold /\ RestInTime

(* The ticker fires within a base tick.                                    *)
LEMMA WaitingIsShort ==
    ASSUME NEW over \in BOOLEAN, NEW at \in 0..(Base - 1)
    PROVE  Waiting(over, at) \in Nat /\ Waiting(over, at) <= Base
  BY RefreshAssumption DEF Waiting

(* Time brings the ticker nearer, until it fires.                          *)
LEMMA WaitingFalls ==
    ASSUME NEW over \in BOOLEAN, NEW at \in 0..(Base - 1),
           NEW next, next = (at + 1) % Base,
           NEW then \in BOOLEAN, then <=> over \/ next = 0
    PROVE  IF over THEN Waiting(then, next) = Waiting(over, at)
                   ELSE Waiting(then, next) + 1 = Waiting(over, at)
<1>1. Base \in Nat /\ at \in Nat /\ at < Base
  BY RefreshAssumption
<1>2. CASE over
  BY <1>2 DEF Waiting
<1>3. CASE ~over /\ at + 1 = Base
  <2>1. next = 0
    BY <1>1, <1>3
  <2>2. Waiting(then, next) = 0
    BY <2>1 DEF Waiting
  <2>3. Waiting(over, at) = Base - at
    BY <1>3 DEF Waiting
  <2>4. QED BY <1>1, <1>3, <2>2, <2>3
<1>4. CASE ~over /\ at + 1 < Base
  <2>1. next = at + 1
    BY <1>1, <1>4
  <2>2. next # 0
    BY <1>1, <2>1
  <2>3. Waiting(then, next) = Base - (at + 1)
    BY <1>4, <2>1, <2>2 DEF Waiting
  <2>4. Waiting(over, at) = Base - at
    BY <1>4 DEF Waiting
  <2>5. QED BY <1>1, <1>4, <2>3, <2>4
<1>5. QED BY <1>1, <1>2, <1>3, <1>4

(* The numbers are numbers.                                                *)
LEMMA StaleNumbers ==
    ASSUME TypeInv
    PROVE  /\ Interval \in Nat /\ Base \in Nat /\ Base > 0 /\ slow \in Nat
           /\ phase \in Nat /\ phase < Base
           /\ Waiting(owed, phase) \in Nat /\ Waiting(owed, phase) <= Base
           /\ \A k \in Keys : stale[k] \in Nat
           /\ \A k \in tracked : k \in Keys /\ row[k] \in Row
                                 /\ row[k].age \in Nat /\ row[k].checked \in Nat
  BY RefreshAssumption DEF TypeInv, StoreOK, CountsOK, NumbersOK, FlagsOK, Row, Ages, Waiting

(* A row that is not late for longer than ticks have taken is in time.     *)
LEMMA RecentIsInTime ==
    ASSUME TypeInv', NEW k \in tracked', Late(k)' => stale'[k] <= slow',
           row'[k].checked <= row'[k].age
    PROVE  InTime(k)'
<1>1. /\ Interval \in Nat /\ Base \in Nat /\ slow' \in Nat /\ Waiting(owed', phase') \in Nat /\ Waiting(owed', phase') <= Base
      /\ stale'[k] \in Nat /\ row'[k].age \in Nat /\ row'[k].checked \in Nat
  BY StaleNumbers, RefreshAssumption
     DEF TypeInv, StoreOK, CountsOK, NumbersOK, FlagsOK, Row, Ages, Waiting
<1>2. stale'[k] <= slow' => /\ stale'[k] + row'[k].checked <= row'[k].age + slow'
                            /\ stale'[k] + Waiting(owed', phase') <= Interval + Base + slow'
  BY <1>1
<1>3. QED BY <1>2 DEF InTime

(* A step that does not concern key k and lets no time pass.               *)
LEMMA StillInTime ==
    ASSUME TypeInv, TypeInv', NEW k \in tracked, k \in tracked', InTime(k),
           row'[k] = row[k], embed'[k] = embed[k], src'[MsgOf[k]] = src[MsgOf[k]],
           k \in excused => k \in excused',
           stale'[k] = stale[k], slow' = slow, Waiting(owed', phase') = Waiting(owed, phase)
    PROVE  InTime(k)'
  BY DEF InTime, Late, Due, OutOfDate

(* A tick in service leaves nothing of a row undone: what it is done with  *)
(* is up to date as far as Telegram has told.                              *)
LEMMA TouchedIsRecent ==
    ASSUME TypeInv, RowsInv, NEW k \in todo, landed = {}, Kind(k) = "None",
           k \in Known, k \notin excused, UpToDate(k)
    PROVE  ~OutOfDate(k)
<1>1. InStep(k) /\ ~row[k].deleted
  BY DEF RowsInv, RowsTellTheEmbeds, WorkedAreLive, TypeInv, TickOK
<1>2. Slot(k).there /\ FetchedBody(k) = row[k].hash
  BY DEF Kind
<1>3. row[k].hash.text = embed[k].body.text /\ row[k].hash.text = Slot(k).text
  BY <1>1, <1>2 DEF InStep, FetchedBody
<1>4. src[MsgOf[k]].where = "here" /\ src[MsgOf[k]].text = Slot(k).text
  BY <1>2 DEF UpToDate
<1>5. QED BY <1>3, <1>4 DEF OutOfDate

(* And so is an embed that was PATCHed after the answer.                   *)
LEMMA LandedIsRecent ==
    ASSUME TypeInv, RowsInv, LandedAsTold, NEW k \in todo, NEW s \in Steps,
           landed = {[key |-> k, step |-> s]}, UpToDate(k)
    PROVE  ~OutOfDate(k)
<1>1. Lands(k, s) /\ (s = "delete" <=> ~Slot(k).there)
  BY DEF RowsInv, LandedTells, LandedAsTold
<1>2. src[MsgOf[k]].where \in Where
  BY RowTypes, SourceOfKeys DEF TypeInv, SourceOK, Source
<1>3. CASE s = "delete"
  BY <1>1, <1>2, <1>3 DEF UpToDate, OutOfDate, Lands, Where
<1>4. CASE s # "delete"
  BY <1>1, <1>2, <1>4 DEF UpToDate, OutOfDate, Lands, Where
<1>5. QED BY <1>3, <1>4

(* Applying a row leaves it fresh, excused, or as late as this tick is     *)
(* slow.                                                                   *)
LEMMA ApplyInTime ==
    ASSUME TypeInv, TypeInv', RowsInv, StaleInv, NEW k \in todo, Apply(k)
    PROVE  StaleInv'
<1>1. /\ k \in tracked /\ k \in Keys /\ row[k] \in Row /\ row \in [tracked -> Row]
      /\ stale \in [Keys -> Nat] /\ embed \in [DOMAIN embed -> Embed] /\ k \in DOMAIN embed
      /\ row[k].age \in Nat /\ slow \in Nat
  BY RowTypes, StaleNumbers DEF TypeInv, StoreOK, CountsOK
<1>2. /\ UNCHANGED <<src, tracked, up, owed, phase, slow, picks, answer>>
      /\ DOMAIN embed' = DOMAIN embed
      /\ todo' = todo \/ todo' = todo \ {k}
      /\ stale' = stale \/ stale' = [stale EXCEPT ![k] = 0]
      /\ landed' \subseteq landed \/ PatchLands(k) \/ MarkEdited(k)
  BY DEF Apply, Touch, PatchLands, PatchDropped, PatchReplyLost, MarkEdited, Save, SaveFails,
         history, store, source, ticker, Done
<1>3. /\ \A q \in tracked : q # k => row'[q] = row[q]
      /\ \A q \in DOMAIN embed : q # k => embed'[q] = embed[q]
      /\ \A q \in Keys : q # k /\ q \in excused => q \in excused'
  BY <1>1 DEF Apply, Touch, PatchLands, PatchDropped, PatchReplyLost, MarkEdited, Save, SaveFails,
         Write, WriteAfterFault, store, history
<1>4. /\ stale'[k] \in {0, stale[k]}
      /\ \A q \in Keys : q # k => stale'[q] = stale[q]
  BY <1>1, <1>2
<1>5. \A q \in Keys : stale'[q] <= stale[q] /\ stale[q] \in Nat /\ stale'[q] \in Nat
  BY <1>1, <1>4
<1>6. StaleIsBounded'
  <2>1. \A q \in Keys : stale[q] <= Interval + Base + slow
    BY DEF StaleInv, StaleIsBounded
  <2>2. \A q \in Keys : stale'[q] <= Interval + Base + slow
    BY <1>1, <1>5, <2>1, StaleNumbers
  <2>3. QED BY <1>2, <2>2 DEF StaleIsBounded
<1>7. NoneLate'
  <2>1. \A q \in Keys : stale[q] = 0 => stale'[q] = 0
    BY <1>4
  <2>2. QED BY <1>2, <2>1 DEF StaleInv, NoneLate
<1>8. row'[k].checked \in {row[k].checked, row[k].age} /\ row'[k].age = row[k].age
  <2>1. Touched(k).checked = row[k].age /\ Touched(k).age = row[k].age /\ Touched(k) \in Row
    BY <1>1, RowTypes DEF Touched, Row
  <2>2. /\ [Touched(k) EXCEPT !.deleted = TRUE].checked = row[k].age
        /\ [Touched(k) EXCEPT !.deleted = TRUE].age = row[k].age
    BY <2>1 DEF Row
  <2>3. LET r == [Touched(k) EXCEPT !.hash = FetchedBody(k), !.likes = Slot(k).likes,
                                    !.comments = EffectiveComments(k)]
        IN  r.checked = row[k].age /\ r.age = row[k].age
    BY <2>1 DEF Row
  <2>4. [row[k] EXCEPT !.edited = TRUE].checked = row[k].checked /\ [row[k] EXCEPT !.edited = TRUE].age = row[k].age
    BY <1>1 DEF Row
  <2>5. CASE Touch(k)
    BY <1>1, <2>1, <2>2, <2>5 DEF Touch, Write
  <2>6. CASE PatchDropped(k) \/ PatchReplyLost(k)
    BY <1>1, <2>1, <2>6 DEF PatchDropped, PatchReplyLost, WriteAfterFault
  <2>7. CASE PatchLands(k) \/ SaveFails(k)
    BY <2>7 DEF PatchLands, SaveFails, store
  <2>8. CASE MarkEdited(k)
    BY <1>1, <2>4, <2>8 DEF MarkEdited
  <2>9. CASE Save(k, "stats") \/ Save(k, "delete")
    BY <1>1, <2>2, <2>3, <2>9 DEF Save
  <2>10. QED BY <2>5, <2>6, <2>7, <2>8, <2>9 DEF Apply
<1>9. CheckedBefore'
  <2>1. row[k].checked <= row[k].age
    BY <1>1 DEF StaleInv, CheckedBefore
  <2>2. row'[k].checked <= row'[k].age
    BY <1>1, <1>8, <2>1
  <2>3. QED BY <1>2, <1>3, <2>2 DEF StaleInv, CheckedBefore
<1>10. AnswersAreRecent'
  <2> SUFFICES ASSUME NEW q \in todo', ~UpToDate(q)'
               PROVE  stale'[q] <= slow'
    BY DEF AnswersAreRecent
  <2>1. q \in todo /\ q \in Keys /\ ~UpToDate(q)
    BY <1>2, RowTypes DEF UpToDate, Slot
  <2>2. stale[q] <= slow
    BY <2>1 DEF StaleInv, AnswersAreRecent
  <2>3. QED BY <1>1, <1>2, <1>5, <2>1, <2>2
<1>11. LandedAsTold'
  <2>1. CASE landed' \subseteq landed
    BY <1>2, <2>1 DEF StaleInv, LandedAsTold, Slot
  <2>2. CASE PatchLands(k)
    <3>1. PICK s : landed' = {[key |-> k, step |-> s]} /\ (s = "delete" <=> Kind(k) = "Deleted")
      BY <2>2 DEF PatchLands
    <3>2. Kind(k) = "Deleted" <=> ~Slot(k).there
      BY DEF Kind
    <3>3. QED BY <1>2, <3>1, <3>2 DEF LandedAsTold, Slot
  <2>3. CASE MarkEdited(k)
    BY <1>2, <2>3 DEF MarkEdited, StaleInv, LandedAsTold, Slot
  <2>4. QED BY <1>2, <2>1, <2>2, <2>3
<1>12. ASSUME k \notin todo'
       PROVE  Late(k)' => stale'[k] <= slow'
  <2> SUFFICES ASSUME Late(k)'
               PROVE  stale'[k] <= slow'
    OBVIOUS
  <2>1. CASE stale'[k] = 0
    BY <1>1, <1>2, <2>1
  <2>2. CASE ~UpToDate(k)
    <3>1. stale[k] <= slow
      BY <2>2 DEF StaleInv, AnswersAreRecent
    <3>2. QED BY <1>1, <1>2, <1>5, <3>1
  <2>3. ASSUME UpToDate(k), Touch(k)
        PROVE  FALSE
    <3>1. k \in Known /\ k \notin excused /\ landed = {} /\ OutOfDate(k)
      BY <1>2, <2>3 DEF Touch, Idle, history, Late, OutOfDate
    <3>2. QED BY <2>3, <3>1, TouchedIsRecent DEF Touch
  <2>4. ASSUME UpToDate(k), NEW s \in {"stats", "delete"}, Save(k, s)
        PROVE  FALSE
    <3>1. landed = {[key |-> k, step |-> s]} /\ OutOfDate(k)
      BY <1>2, <2>4 DEF Save, Late, OutOfDate
    <3>2. QED BY <2>4, <3>1, LandedIsRecent DEF StaleInv, Steps
  <2>5. CASE PatchDropped(k)
    BY <1>1, <1>2, <2>5 DEF PatchDropped
  <2>6. ASSUME PatchReplyLost(k) \/ SaveFails(k)
        PROVE  FALSE
    BY <2>6 DEF PatchReplyLost, SaveFails, Late
  <2>7. ASSUME PatchLands(k) \/ MarkEdited(k)
        PROVE  FALSE
    BY <1>12, <2>7 DEF PatchLands, MarkEdited
  <2>8. QED BY <2>1, <2>2, <2>3, <2>4, <2>5, <2>6, <2>7 DEF Apply
<1>13. RestInTime'
  <2> SUFFICES ASSUME NEW q \in tracked', q \notin picks', q \notin todo'
               PROVE  InTime(q)'
    BY DEF RestInTime
  <2>1. CASE q = k
    BY <1>9, <1>12, <2>1, RecentIsInTime DEF CheckedBefore
  <2>2. CASE q # k
    <3>1. /\ q \in tracked /\ q \in Keys /\ q \in DOMAIN embed /\ q \notin picks /\ q \notin todo
      BY <1>2, <2>2, StaleNumbers DEF TypeInv, StoreOK
    <3>2. InTime(q)
      BY <3>1 DEF StaleInv, RestInTime
    <3>3. /\ row'[q] = row[q] /\ embed'[q] = embed[q] /\ src'[MsgOf[q]] = src[MsgOf[q]]
          /\ q \in excused => q \in excused'
          /\ stale'[q] = stale[q] /\ slow' = slow /\ Waiting(owed', phase') = Waiting(owed, phase)
      BY <1>2, <1>3, <1>4, <2>2, <3>1 DEF Waiting
    <3>4. QED BY <3>1, <3>2, <3>3, StillInTime
  <2>3. QED BY <2>1, <2>2
<1>14. QED BY <1>6, <1>7, <1>9, <1>10, <1>11, <1>13 DEF StaleInv

(* Time passes: a late row that waits comes nearer to the tick that will   *)
(* pick it, and one at work is late by the time the tick takes.            *)
LEMMA ElapseInTime ==
    ASSUME TypeInv, TypeInv', StaleInv, Elapse
    PROVE  StaleInv'
<1>1. /\ UNCHANGED <<src, tracked, embed, up, busy, picks, todo, answer, landed, excused>>
      /\ IF busy THEN slow' = slow + 1 ELSE ~(up /\ owed) /\ slow' = slow
      /\ phase' = (phase + 1) % Base
      /\ owed' = (owed \/ (up /\ phase' = 0))
      /\ row' = [k \in tracked |-> IF row[k].age > Horizon THEN row[k]
                                   ELSE [row[k] EXCEPT !.age = @ + 1]]
      /\ stale' = [k \in Keys |-> IF up /\ Late(k) THEN stale[k] + 1 ELSE 0]
  BY DEF Elapse, source, tick, Late
<1>2. /\ Interval \in Nat /\ Base \in Nat /\ Base > 0 /\ slow \in Nat /\ Waiting(owed, phase) \in Nat
      /\ phase \in Nat /\ phase < Base
      /\ slow' \in Nat /\ Waiting(owed', phase') \in Nat /\ Waiting(owed', phase') <= Base
      /\ \A k \in Keys : stale[k] \in Nat
      /\ \A k \in tracked : k \in Keys /\ row[k] \in Row
                            /\ row[k].age \in Nat /\ row[k].checked \in Nat
  <2>1. slow' \in Nat /\ phase' \in 0..(Base - 1) /\ owed' \in BOOLEAN
    BY RefreshAssumption DEF TypeInv, NumbersOK, FlagsOK
  <2>2. QED BY <2>1, WaitingIsShort, StaleNumbers
<1>3. slow <= slow' /\ (busy => slow' = slow + 1)
  BY <1>1, <1>2
<1>4. up => Waiting(owed', phase') + slow + 1 <= Waiting(owed, phase) + slow'
  <2> SUFFICES ASSUME up
               PROVE  Waiting(owed', phase') + slow + 1 <= Waiting(owed, phase) + slow'
    OBVIOUS
  <2>1. phase \in 0..(Base - 1) /\ owed \in BOOLEAN /\ owed' \in BOOLEAN
    BY DEF TypeInv, NumbersOK, FlagsOK
  <2>2. owed' <=> owed \/ phase' = 0
    BY <1>1, <2>1
  <2>3. IF owed THEN Waiting(owed', phase') = Waiting(owed, phase)
                ELSE Waiting(owed', phase') + 1 = Waiting(owed, phase)
    BY <1>1, <2>1, <2>2, WaitingFalls
  <2>4. owed => slow' = slow + 1
    BY <1>1
  <2>5. QED BY <1>2, <1>3, <2>3, <2>4
<1>5. \A k \in tracked : /\ row'[k].checked = row[k].checked /\ row'[k].deleted = row[k].deleted
                         /\ row'[k].age \in {row[k].age, row[k].age + 1}
                         /\ row[k].age <= Horizon => row'[k].age = row[k].age + 1
  <2> SUFFICES ASSUME NEW k \in tracked
               PROVE  /\ row'[k].checked = row[k].checked /\ row'[k].deleted = row[k].deleted
                      /\ row'[k].age \in {row[k].age, row[k].age + 1}
                      /\ row[k].age <= Horizon => row'[k].age = row[k].age + 1
    OBVIOUS
  <2>1. row[k] \in Row /\ row[k].age \in Nat /\ Horizon \in Nat
    BY <1>2, RefreshAssumption
  <2>2. /\ [row[k] EXCEPT !.age = @ + 1].age = row[k].age + 1
        /\ [row[k] EXCEPT !.age = @ + 1].checked = row[k].checked
        /\ [row[k] EXCEPT !.age = @ + 1].deleted = row[k].deleted
    BY <2>1 DEF Row
  <2>3. QED BY <1>1, <2>1, <2>2
<1>6. \A k \in tracked : row[k].checked <= row[k].age
  BY DEF StaleInv, CheckedBefore
<1>7. CheckedBefore'
  <2>1. \A k \in tracked : row'[k].checked <= row'[k].age
    BY <1>2, <1>5, <1>6
  <2>2. QED BY <1>1, <2>1 DEF CheckedBefore
<1>8. \A k \in Keys : stale'[k] \in {0, stale[k] + 1}
  BY <1>1
<1>9. StaleIsBounded'
  <2> SUFFICES ASSUME NEW k \in Keys
               PROVE  stale'[k] <= Interval + Base + slow'
    BY DEF StaleIsBounded
  <2>1. CASE ~(up /\ Late(k))
    BY <1>1, <1>2, <2>1
  <2>2. CASE up /\ Late(k) /\ busy
    <3>1. stale[k] <= Interval + Base + slow
      BY DEF StaleInv, StaleIsBounded
    <3>2. QED BY <1>2, <1>3, <1>8, <2>2, <3>1
  <2>3. CASE up /\ Late(k) /\ ~busy
    <3>1. k \in tracked \ (picks \cup todo)
      BY <2>3 DEF TypeInv, TickOK, Late, Due
    <3>2. stale[k] + Waiting(owed, phase) <= Interval + Base + slow
      BY <2>3, <3>1 DEF StaleInv, RestInTime, InTime
    <3>3. stale'[k] = stale[k] + 1
      BY <1>1, <2>3
    <3>4. Waiting(owed', phase') + slow + 1 <= Waiting(owed, phase) + slow'
      BY <1>4, <2>3
    <3>5. stale[k] \in Nat
      BY <1>2
    <3>6. QED BY <1>2, <3>2, <3>3, <3>4, <3>5
  <2>4. QED BY <2>1, <2>2, <2>3
<1>10. NoneLate'
  <2>1. \A k \in Keys \ DOMAIN embed : ~Late(k)
    BY DEF Late, Due, TypeInv, StoreOK
  <2>2. QED BY <1>1, <2>1 DEF NoneLate
<1>11. AnswersAreRecent'
  <2> SUFFICES ASSUME NEW k \in todo, ~UpToDate(k)
               PROVE  stale'[k] <= slow'
    BY <1>1 DEF AnswersAreRecent, UpToDate, Slot
  <2>1. busy /\ k \in Keys
    BY RowTypes DEF TypeInv, TickOK
  <2>2. stale[k] <= slow
    BY DEF StaleInv, AnswersAreRecent
  <2>3. QED BY <1>2, <1>3, <1>8, <2>1, <2>2
<1>12. LandedAsTold'
  BY <1>1 DEF StaleInv, LandedAsTold, Slot
<1>13. RestInTime'
  <2> SUFFICES ASSUME NEW k \in tracked, k \notin picks, k \notin todo
               PROVE  InTime(k)'
    BY <1>1 DEF RestInTime
  <2>1. CASE up /\ Late(k)
    <3>1. row[k].age <= Horizon /\ k \in Keys
      BY <1>2, <2>1 DEF Late, Due
    <3>2. row'[k].age = row[k].age + 1 /\ row'[k].checked = row[k].checked
      BY <1>5, <3>1
    <3>3. /\ stale[k] + row[k].checked <= row[k].age + slow
          /\ stale[k] + Waiting(owed, phase) <= Interval + Base + slow
      BY <2>1 DEF StaleInv, RestInTime, InTime
    <3>4. stale'[k] = stale[k] + 1
      BY <1>1, <2>1, <3>1
    <3>5. stale'[k] + row'[k].checked <= row'[k].age + slow'
      BY <1>2, <1>3, <3>1, <3>2, <3>3, <3>4
    <3>6. stale'[k] + Waiting(owed', phase') <= Interval + Base + slow'
      <4>1. Waiting(owed', phase') + slow + 1 <= Waiting(owed, phase) + slow'
        BY <1>4, <2>1
      <4>2. stale[k] \in Nat
        BY <1>2, <3>1
      <4>3. QED BY <1>2, <3>3, <3>4, <4>1, <4>2
    <3>7. QED BY <3>5, <3>6 DEF InTime
  <2>2. CASE ~(up /\ Late(k))
    <3>1. stale'[k] = 0
      BY <1>1, <1>2, <2>2
    <3>2. stale'[k] <= slow' /\ row'[k].checked <= row'[k].age
      BY <1>1, <1>2, <1>7, <3>1 DEF CheckedBefore
    <3>3. k \in tracked'
      BY <1>1
    <3>4. QED BY <3>2, <3>3, RecentIsInTime
  <2>3. QED BY <2>1, <2>2
<1>14. QED BY <1>7, <1>9, <1>10, <1>11, <1>12, <1>13 DEF StaleInv

(* A change of the source restarts the count of the posts it is about.     *)
LEMMA ChangeInTime ==
    ASSUME TypeInv, TypeInv', StaleInv, NEW m \in Msgs, NEW s, Change(m, s)
    PROVE  StaleInv'
<1>1. /\ UNCHANGED <<tracked, row, embed, up, owed, phase, slow, picks, todo, answer, landed, excused>>
      /\ src' = [src EXCEPT ![m] = s]
      /\ stale' = [k \in Keys |-> IF MsgOf[k] = m THEN 0 ELSE stale[k]]
  BY DEF Change, store, ticker, tick
<1>2. /\ slow \in Nat /\ Interval \in Nat /\ Base \in Nat
      /\ \A k \in Keys : stale[k] \in Nat /\ stale'[k] \in {0, stale[k]}
      /\ \A k \in tracked : k \in Keys /\ MsgOf[k] \in Msgs
      /\ \A k \in todo : k \in tracked
      /\ src \in [Msgs -> Source]
  BY <1>1, StaleNumbers, RefreshAssumption DEF TypeInv, TickOK, SourceOK
<1>3. \A k \in tracked : MsgOf[k] # m => src'[MsgOf[k]] = src[MsgOf[k]]
  BY <1>1, <1>2
<1>4. StaleIsBounded'
  <2>1. \A k \in Keys : stale'[k] <= Interval + Base + slow
    BY <1>2 DEF StaleInv, StaleIsBounded
  <2>2. QED BY <1>1, <2>1 DEF StaleIsBounded
<1>5. NoneLate' /\ CheckedBefore' /\ LandedAsTold'
  <2>1. \A k \in Keys : stale[k] = 0 => stale'[k] = 0
    BY <1>2
  <2>2. QED BY <1>1, <2>1 DEF StaleInv, NoneLate, CheckedBefore, LandedAsTold, Slot
<1>6. AnswersAreRecent'
  <2> SUFFICES ASSUME NEW k \in todo, ~UpToDate(k)'
               PROVE  stale'[k] <= slow
    BY <1>1 DEF AnswersAreRecent
  <2>1. CASE MsgOf[k] = m
    BY <1>1, <1>2, <2>1
  <2>2. CASE MsgOf[k] # m
    <3>1. ~UpToDate(k)
      BY <1>1, <1>2, <1>3, <2>2 DEF UpToDate, Slot
    <3>2. QED BY <1>1, <1>2, <2>2, <3>1 DEF StaleInv, AnswersAreRecent
  <2>3. QED BY <2>1, <2>2
<1>7. RestInTime'
  <2> SUFFICES ASSUME NEW k \in tracked, k \notin picks, k \notin todo
               PROVE  InTime(k)'
    BY <1>1 DEF RestInTime
  <2>1. k \in tracked' /\ k \in Keys
    BY <1>1, <1>2
  <2>2. CASE MsgOf[k] = m
    <3>1. stale'[k] <= slow'
      BY <1>1, <1>2, <2>1, <2>2
    <3>2. QED BY <1>5, <2>1, <3>1, RecentIsInTime DEF CheckedBefore
  <2>3. CASE MsgOf[k] # m
    <3>1. InTime(k)
      BY DEF StaleInv, RestInTime
    <3>2. stale'[k] = stale[k] /\ src'[MsgOf[k]] = src[MsgOf[k]] /\ Waiting(owed', phase') = Waiting(owed, phase)
      BY <1>1, <1>3, <2>1, <2>3
    <3>3. QED BY <1>1, <2>1, <3>1, <3>2, StillInTime
  <2>4. QED BY <2>2, <2>3
<1>8. QED BY <1>4, <1>5, <1>6, <1>7 DEF StaleInv

(* A new post is not late.                                                 *)
LEMMA RecordInTime ==
    ASSUME TypeInv, TypeInv', StaleInv,
           NEW k \in Keys, NEW t \in Texts, NEW live \in BOOLEAN, Record(k, t, live)
    PROVE  StaleInv'
<1>1. /\ tracked' = tracked \cup {k} /\ k \notin tracked /\ k \notin DOMAIN embed
      /\ DOMAIN embed' = DOMAIN embed \cup {k}
      /\ UNCHANGED <<src, up, owed, phase, slow, picks, todo, answer, landed, excused, stale>>
      /\ \A q \in tracked : row'[q] = row[q] /\ embed'[q] = embed[q]
      /\ row'[k].age = 0 /\ row'[k].checked = 0
  BY DEF Record, source, ticker, tick, history, TypeInv, StoreOK
<1>2. stale'[k] = 0 /\ slow \in Nat
  BY <1>1, StaleNumbers DEF StaleInv, NoneLate
<1>3. StaleIsBounded' /\ NoneLate' /\ LandedAsTold' /\ AnswersAreRecent'
  BY <1>1 DEF StaleInv, StaleIsBounded, NoneLate, LandedAsTold, AnswersAreRecent, UpToDate, Slot
<1>4. CheckedBefore'
  BY <1>1 DEF StaleInv, CheckedBefore
<1>5. InTime(k)'
  <2>1. stale'[k] <= slow' /\ row'[k].checked <= row'[k].age
    BY <1>1, <1>2
  <2>2. QED BY <1>1, <2>1, RecentIsInTime
<1>6. \A q \in tracked \ (picks \cup todo) : InTime(q)'
  <2> SUFFICES ASSUME NEW q \in tracked, q \notin picks, q \notin todo
               PROVE  InTime(q)'
    OBVIOUS
  <2>1. InTime(q)
    BY DEF StaleInv, RestInTime
  <2>2. QED BY <1>1, <2>1, StillInTime
<1>7. RestInTime'
  BY <1>1, <1>5, <1>6 DEF RestInTime
<1>8. QED BY <1>3, <1>4, <1>7 DEF StaleInv

(* A tick picks what is due: what it leaves was checked within the         *)
(* interval, and has until the next tick.                                  *)
LEMMA StartInTime ==
    ASSUME TypeInv, TypeInv', StaleInv, TickIdle \/ TickStart
    PROVE  StaleInv'
<1>1. /\ UNCHANGED <<src, tracked, row, embed, up, phase, slow, todo, answer, landed, excused, stale>>
      /\ todo = {} /\ picks = {}
  BY DEF TickIdle, TickStart, source, store, tick, history, TypeInv, TickOK
<1>2. /\ StaleIsBounded' /\ NoneLate' /\ CheckedBefore'
      /\ LandedAsTold' /\ AnswersAreRecent'
  BY <1>1 DEF StaleInv, StaleIsBounded, NoneLate, CheckedBefore, LandedAsTold,
              AnswersAreRecent, UpToDate, Slot
<1>3. RestInTime'
  <2> SUFFICES ASSUME NEW k \in tracked, k \notin picks', Late(k)'
               PROVE  /\ stale'[k] + row'[k].checked <= row'[k].age + slow'
                      /\ stale'[k] + Waiting(owed', phase') <= Interval + Base + slow'
    BY <1>1 DEF RestInTime, InTime
  <2>1. Late(k) /\ k \in Due
    BY <1>1 DEF Late, Due, OutOfDate
  <2>2. TickStart
    BY <2>1 DEF TickIdle
  <2>3. ~(row[k].age - row[k].checked >= Interval)
    BY <2>1, <2>2 DEF TickStart, FetchDue
  <2>4. /\ stale[k] \in Nat /\ row[k].age \in Nat /\ row[k].checked \in Nat
        /\ Interval \in Nat /\ Base \in Nat /\ slow \in Nat
    BY StaleNumbers
  <2>5. stale[k] + row[k].checked <= row[k].age + slow
    BY <1>1, <2>1 DEF StaleInv, RestInTime, InTime
  <2>6. Waiting(owed', phase') \in Nat /\ Waiting(owed', phase') <= Base
    BY WaitingIsShort DEF TypeInv, FlagsOK, NumbersOK
  <2>7. stale[k] <= Interval + slow
    BY <2>3, <2>4, <2>5
  <2>8. stale[k] + Waiting(owed', phase') <= Interval + Base + slow
    BY <2>4, <2>6, <2>7
  <2>9. QED BY <1>1, <2>5, <2>8
<1>4. QED BY <1>2, <1>3 DEF StaleInv

(* An answer is what Telegram answers now; a row without one starts anew.  *)
LEMMA FetchInTime ==
    ASSUME TypeInv, TypeInv', StaleInv, NEW c, Fetch(c)
    PROVE  StaleInv'
<1> DEFINE mine == {k \in picks : ChatOf[MsgOf[k]] = c}
           ids  == {MsgOf[k] : k \in mine}
<1>1. PICK lost \in SUBSET ids, counted \in BOOLEAN :
        /\ answer' = [m \in ids \ lost |-> SlotOf(m, counted)]
        /\ todo' = {k \in mine : MsgOf[k] \notin lost}
        /\ stale' = [k \in Keys |-> IF k \in mine \ todo' THEN 0 ELSE stale[k]]
  BY DEF Fetch
<1>2. /\ UNCHANGED <<src, tracked, row, embed, up, owed, phase, slow, landed, excused>>
      /\ todo = {} /\ picks' = picks \ mine
  BY DEF Fetch, source, store, ticker
<1>3. landed = {}
  BY <1>2 DEF TypeInv, TickOK
<1>4. /\ slow \in Nat /\ Interval \in Nat /\ Base \in Nat
      /\ \A k \in Keys : stale[k] \in Nat /\ stale'[k] \in {0, stale[k]}
      /\ \A k \in tracked : k \in Keys
  BY <1>1, StaleNumbers
<1>5. StaleIsBounded'
  <2>1. \A k \in Keys : stale'[k] <= Interval + Base + slow
    BY <1>4 DEF StaleInv, StaleIsBounded
  <2>2. QED BY <1>2, <2>1 DEF StaleIsBounded
<1>6. NoneLate' /\ CheckedBefore' /\ LandedAsTold'
  <2>1. \A k \in Keys : stale[k] = 0 => stale'[k] = 0
    BY <1>4
  <2>2. QED BY <1>2, <1>3, <2>1 DEF StaleInv, NoneLate, CheckedBefore, LandedAsTold
<1>7. AnswersAreRecent'
  <2> SUFFICES ASSUME NEW k \in todo'
               PROVE  UpToDate(k)'
    BY DEF AnswersAreRecent
  <2>1. answer'[MsgOf[k]] = SlotOf(MsgOf[k], counted)
    BY <1>1
  <2>2. Slot(k)' = SlotOf(MsgOf[k], counted)
    BY <2>1 DEF Slot
  <2>3. /\ SlotOf(MsgOf[k], counted).there <=> src[MsgOf[k]].where = "here"
        /\ SlotOf(MsgOf[k], counted).text = src[MsgOf[k]].text
    BY DEF SlotOf
  <2>4. QED BY <1>2, <2>2, <2>3 DEF UpToDate
<1>8. RestInTime'
  <2> SUFFICES ASSUME NEW k \in tracked, k \notin picks', k \notin todo'
               PROVE  InTime(k)'
    BY <1>2 DEF RestInTime
  <2>1. k \in tracked' /\ k \in Keys
    BY <1>2, <1>4
  <2>2. CASE k \in mine
    <3>1. stale'[k] = 0
      BY <1>1, <2>1, <2>2
    <3>2. stale'[k] <= slow'
      BY <1>2, <1>4, <3>1
    <3>3. QED BY <1>6, <2>1, <3>2, RecentIsInTime DEF CheckedBefore
  <2>3. CASE k \notin mine
    <3>1. stale'[k] = stale[k]
      BY <1>1, <2>1, <2>3
    <3>2. InTime(k)
      BY <1>2, <2>3 DEF StaleInv, RestInTime
    <3>3. Waiting(owed', phase') = Waiting(owed, phase)
      BY <1>2
    <3>4. QED BY <1>2, <2>1, <3>1, <3>2, <3>3, StillInTime
  <2>4. QED BY <2>2, <2>3
<1>9. QED BY <1>5, <1>6, <1>7, <1>8 DEF StaleInv

(* A tick ends or fails, the process ends, and starts again.               *)
LEMMA EndInTime ==
    ASSUME TypeInv, TypeInv', StaleInv,
           Prune \/ PruneFails \/ TickFails \/ Crash \/ Restart
    PROVE  StaleInv'
<1>1. slow \in Nat /\ Interval \in Nat /\ Base \in Nat /\ \A k \in tracked : k \in Keys
  BY StaleNumbers
<1>2. CASE Prune \/ PruneFails
  <2>1. /\ UNCHANGED <<src, embed, up, owed, phase, slow, picks, todo, landed, excused, stale>>
        /\ picks = {} /\ todo = {} /\ tracked' \subseteq tracked
        /\ \A k \in tracked' : row'[k] = row[k]
    BY <1>2 DEF Prune, PruneFails, store, source, ticker, history
  <2>2. landed = {}
    BY <2>1 DEF TypeInv, TickOK
  <2>3. /\ StaleIsBounded' /\ NoneLate' /\ CheckedBefore'
        /\ LandedAsTold' /\ AnswersAreRecent'
    BY <2>1, <2>2 DEF StaleInv, StaleIsBounded, NoneLate, CheckedBefore, LandedAsTold, AnswersAreRecent
  <2>4. ASSUME NEW k \in tracked'
        PROVE  InTime(k)'
    <3>1. k \in tracked /\ InTime(k)
      BY <2>1 DEF StaleInv, RestInTime
    <3>2. QED BY <2>1, <3>1, StillInTime
  <2>5. QED BY <2>3, <2>4 DEF StaleInv, RestInTime
<1>3. CASE TickFails \/ Crash \/ Restart
  <2>1. UNCHANGED <<src, tracked, row, embed, slow>> /\ \A k \in Keys : stale'[k] = 0
    BY <1>3 DEF TickFails, Crash, Restart, source, store, history, StaleInv, NoneLate
  <2>2. StaleIsBounded' /\ NoneLate' /\ CheckedBefore'
    BY <1>1, <2>1 DEF StaleInv, StaleIsBounded, NoneLate, CheckedBefore
  <2>3. LandedAsTold'
    BY <1>3 DEF TickFails, Crash, Restart, tick, StaleInv, LandedAsTold, Slot
  <2>4. AnswersAreRecent'
    <3>1. \A k \in todo' : k \in Keys
      BY DEF TypeInv, TickOK, StoreOK
    <3>2. \A k \in todo' : stale'[k] <= slow'
      BY <1>1, <2>1, <3>1
    <3>3. QED BY <3>2 DEF AnswersAreRecent
  <2>5. ASSUME NEW k \in tracked'
        PROVE  InTime(k)'
    <3>1. stale'[k] <= slow'
      BY <1>1, <2>1
    <3>2. QED BY <2>2, <3>1, RecentIsInTime DEF CheckedBefore
  <2>6. QED BY <2>2, <2>3, <2>4, <2>5 DEF StaleInv, RestInTime
<1>4. QED BY <1>2, <1>3

(* In untroubled service an edit or a deletion is on Discord within one    *)
(* interval, one tick, and the time that ticks have taken (decide_refresh, *)
(* tick_once, apply).                                                      *)
THEOREM StaleIsBoundedAlways == Spec => []StaleIsBounded
<1>1. Init => StaleInv
  BY RefreshAssumption
     DEF Init, StaleInv, StaleIsBounded, NoneLate, CheckedBefore, AnswersAreRecent,
         LandedAsTold, RestInTime
<1>2. ASSUME TypeInv, TypeInv', RowsInv, StaleInv, [Next]_vars
      PROVE  StaleInv'
  <2>1. ASSUME NEW m \in Msgs, NEW s, Change(m, s)
        PROVE  StaleInv'
    BY <1>2, <2>1, ChangeInTime
  <2>2. ASSUME NEW k \in Keys, NEW t \in Texts, NEW live \in BOOLEAN, Record(k, t, live)
        PROVE  StaleInv'
    BY <1>2, <2>2, RecordInTime
  <2>3. ASSUME NEW c, Fetch(c)
        PROVE  StaleInv'
    BY <1>2, <2>3, FetchInTime
  <2>4. ASSUME NEW k \in todo, Apply(k)
        PROVE  StaleInv'
    BY <1>2, <2>4, ApplyInTime
  <2>5. CASE UNCHANGED vars
    BY <1>2, <2>5
       DEF vars, StaleInv, StaleIsBounded, NoneLate, CheckedBefore, AnswersAreRecent,
           LandedAsTold, RestInTime, InTime, Late, Due, OutOfDate, UpToDate, Slot
  <2>6. QED BY <1>2, <2>1, <2>2, <2>3, <2>4, <2>5, ElapseInTime, StartInTime, EndInTime
            DEF Next, Working, EditSource, React, Comment, DeleteSource
<1>3. StaleInv => StaleIsBounded
  BY DEF StaleInv
<1>4. QED BY <1>1, <1>2, <1>3, TypesHold, RowsHold, PTL DEF Spec
-----------------------------------------------------------------------------
(* Checkpoints, when no tick takes time and the process does not die. *)

Pending(k, c) == ~row[k].deleted /\ c \notin fired[k]

(* A checkpoint that is not found due yet is still ahead, or will be found *)
(* by a tick within a base tick; while a tick is running it is ahead.      *)
Ahead(k, c) ==
    Pending(k, c) => /\ row[k].checked < c
                     /\ busy => row[k].age < c
                     /\ row[k].age >= c => row[k].age + Waiting(owed, phase) < c + Base

AheadInv(c) == /\ up /\ (owed => ~busy)
               /\ \A k \in tracked : Ahead(k, c)

(* A step that only works on rows, or on none.                             *)
LEMMA StillAhead ==
    ASSUME TypeInv, TypeInv', NEW c \in Nat, AheadInv(c),
           UNCHANGED <<up, owed, phase, fired>>, busy' => busy,
           \A k \in tracked' : /\ k \in tracked
                               /\ row'[k].age = row[k].age
                               /\ row[k].deleted => row'[k].deleted
                               /\ \/ row'[k].checked = row[k].checked
                                  \/ busy /\ row'[k].checked = row[k].age
    PROVE  AheadInv(c)'
<1> SUFFICES ASSUME NEW k \in tracked', Pending(k, c)'
             PROVE  /\ row'[k].checked < c
                    /\ busy' => row'[k].age < c
                    /\ row'[k].age >= c => row'[k].age + Waiting(owed', phase') < c + Base
  BY DEF AheadInv, Ahead
<1>1. Pending(k, c) /\ k \in tracked
  BY DEF Pending
<1>2. /\ row[k].checked < c
      /\ busy => row[k].age < c
      /\ row[k].age >= c => row[k].age + Waiting(owed, phase) < c + Base
  BY <1>1 DEF AheadInv, Ahead
<1>3. QED BY <1>1, <1>2

(* Time brings a checkpoint and the ticker nearer together.                *)
LEMMA ElapseAhead ==
    ASSUME TypeInv, TypeInv', NEW c \in Nat, AheadInv(c), MaxSlow = 0, Elapse
    PROVE  AheadInv(c)'
<1>1. slow = 0
  BY DEF TypeInv, NumbersOK
<1>2. up /\ ~busy /\ ~owed
  BY <1>1 DEF Elapse, AheadInv
<1>3. /\ UNCHANGED <<tracked, up, busy, fired>>
      /\ phase' = (phase + 1) % Base
      /\ owed' = (owed \/ (up /\ phase' = 0))
      /\ row' = [k \in tracked |-> IF row[k].age > Horizon THEN row[k]
                                   ELSE [row[k] EXCEPT !.age = @ + 1]]
  BY DEF Elapse, tick
<1>4. phase \in 0..(Base - 1) /\ owed \in BOOLEAN /\ owed' \in BOOLEAN
  BY DEF TypeInv, NumbersOK, FlagsOK
<1>5. owed' <=> owed \/ phase' = 0
  BY <1>2, <1>3, <1>4
<1>6. Waiting(owed', phase') + 1 = Waiting(owed, phase)
  BY <1>2, <1>3, <1>4, <1>5, WaitingFalls
<1>7. /\ Waiting(owed, phase) \in Nat /\ Waiting(owed, phase) <= Base
      /\ Waiting(owed', phase') \in Nat /\ Base \in Nat
  <2>1. phase' \in 0..(Base - 1)
    BY DEF TypeInv, NumbersOK
  <2>2. QED BY <1>4, <2>1, WaitingIsShort, RefreshAssumption
<1>8. ASSUME NEW k \in tracked
      PROVE  /\ row'[k].checked = row[k].checked /\ row'[k].deleted = row[k].deleted
             /\ row'[k].age \in {row[k].age, row[k].age + 1}
             /\ row[k].age \in Nat /\ row[k].checked \in Nat
  <2>1. row[k] \in Row /\ row[k].age \in Nat /\ row[k].checked \in Nat
    BY StaleNumbers
  <2>2. /\ [row[k] EXCEPT !.age = @ + 1].age = row[k].age + 1
        /\ [row[k] EXCEPT !.age = @ + 1].checked = row[k].checked
        /\ [row[k] EXCEPT !.age = @ + 1].deleted = row[k].deleted
    BY <2>1 DEF Row
  <2>3. QED BY <1>3, <2>1, <2>2
<1>9. ASSUME NEW k \in tracked, Pending(k, c)'
      PROVE  /\ row'[k].checked < c
             /\ row'[k].age >= c => row'[k].age + Waiting(owed', phase') < c + Base
  <2>1. Pending(k, c)
    BY <1>3, <1>8, <1>9 DEF Pending
  <2>2. /\ row[k].checked < c
        /\ row[k].age >= c => row[k].age + Waiting(owed, phase) < c + Base
    BY <2>1 DEF AheadInv, Ahead
  <2>3. /\ row'[k].checked = row[k].checked /\ row'[k].age \in {row[k].age, row[k].age + 1}
        /\ row[k].age \in Nat
    BY <1>8
  <2>4. ASSUME row'[k].age >= c
        PROVE  row'[k].age + Waiting(owed', phase') < c + Base
    <3>1. CASE row[k].age >= c
      BY <1>6, <1>7, <2>2, <2>3, <3>1
    <3>2. CASE row[k].age < c
      <4>1. row'[k].age = c
        BY <2>3, <2>4, <3>2
      <4>2. QED BY <1>6, <1>7, <4>1
    <3>3. QED BY <2>3, <3>1, <3>2
  <2>5. QED BY <2>2, <2>3, <2>4
<1>10. QED BY <1>2, <1>3, <1>9 DEF AheadInv, Ahead

(* A tick finds every checkpoint that has been reached.                    *)
LEMMA StartAhead ==
    ASSUME TypeInv, TypeInv', NEW c \in Checkpoints, c \in Nat, AheadInv(c),
           c + Base <= ReactionHorizon + 1, c + Base <= Horizon + 1,
           TickIdle \/ TickStart
    PROVE  AheadInv(c)'
<1>1. /\ UNCHANGED <<tracked, row, up, phase>> /\ owed' = FALSE
      /\ Base \in Nat /\ Base > 0 /\ Horizon \in Nat /\ ReactionHorizon \in Nat
  BY RefreshAssumption DEF TickIdle, TickStart, store
<1>2. ASSUME NEW k \in tracked, Pending(k, c)
      PROVE  /\ k \in Due /\ k \in Keys /\ row[k].age <= ReactionHorizon
             /\ row[k].checked < c /\ row[k].age \in Nat
  <2>1. /\ row[k].checked < c
        /\ row[k].age >= c => row[k].age + Waiting(owed, phase) < c + Base
    BY <1>2 DEF AheadInv, Ahead
  <2>2. row[k].age \in Nat /\ Waiting(owed, phase) \in Nat /\ k \in Keys
    BY StaleNumbers
  <2>3. row[k].age < c + Base
    <3>1. CASE row[k].age >= c
      BY <1>1, <2>1, <2>2, <3>1
    <3>2. CASE row[k].age < c
      BY <1>1, <2>2, <3>2
    <3>3. QED BY <2>2, <3>1, <3>2
  <2>4. row[k].age <= Horizon /\ row[k].age <= ReactionHorizon
    BY <1>1, <2>2, <2>3
  <2>5. QED BY <1>2, <2>1, <2>2, <2>4 DEF Due, Pending
<1>3. CASE TickIdle
  <2>1. UNCHANGED <<busy, fired>> /\ Due = {}
    BY <1>3 DEF TickIdle, tick, history
  <2>2. \A k \in tracked : ~Pending(k, c)
    BY <1>2, <2>1
  <2>3. QED BY <1>1, <2>1, <2>2 DEF AheadInv, Ahead, Pending
<1>4. CASE TickStart
  <2>1. fired' = [k \in Keys |-> IF k \in Due
                                 THEN fired[k] \cup Crossed(row[k].age, row[k].checked)
                                 ELSE fired[k]]
    BY <1>4 DEF TickStart
  <2>2. ASSUME NEW k \in tracked, Pending(k, c)'
        PROVE  row[k].checked < c /\ row[k].age < c
    <3>1. k \in Keys
      BY StaleNumbers
    <3>2. Pending(k, c)
      BY <1>1, <2>1, <2>2, <3>1 DEF Pending
    <3>3. c \notin Crossed(row[k].age, row[k].checked)
      BY <1>2, <2>1, <2>2, <3>1, <3>2 DEF Pending
    <3>4. ~(row[k].checked < c /\ c <= row[k].age)
      BY <1>1, <1>2, <3>2, <3>3 DEF Crossed
    <3>5. QED BY <1>2, <3>2, <3>4
  <2>3. \A k \in tracked : row[k].age \in Nat
    BY StaleNumbers
  <2>4. \A k \in tracked : Ahead(k, c)'
    <3> SUFFICES ASSUME NEW k \in tracked, Pending(k, c)'
                 PROVE  row'[k].checked < c /\ row'[k].age < c /\ ~(row'[k].age >= c)
      BY DEF Ahead
    <3>1. row[k].checked < c /\ row[k].age < c /\ row[k].age \in Nat
      BY <2>2, <2>3
    <3>2. QED BY <1>1, <3>1
  <2>5. QED BY <1>1, <2>4 DEF AheadInv
<1>5. QED BY <1>3, <1>4

(* Applying a row does not bring it past a checkpoint.                     *)
LEMMA ApplyAhead ==
    ASSUME TypeInv, TypeInv', NEW c \in Nat, AheadInv(c), NEW k \in todo, Apply(k)
    PROVE  AheadInv(c)'
<1>1. /\ k \in tracked /\ row[k] \in Row /\ row \in [tracked -> Row] /\ busy
  BY RowTypes DEF TypeInv, StoreOK, TickOK
<1>2. /\ UNCHANGED <<tracked, up, owed, phase, fired, busy>>
      /\ \A q \in tracked : q # k => row'[q] = row[q]
  BY <1>1 DEF Apply, Touch, PatchLands, PatchDropped, PatchReplyLost, MarkEdited, Save, SaveFails,
         Write, WriteAfterFault, store, history, ticker
<1>3. /\ row'[k].age = row[k].age
      /\ row[k].deleted => row'[k].deleted
      /\ row'[k].checked \in {row[k].checked, row[k].age}
  <2>1. /\ Touched(k).checked = row[k].age /\ Touched(k).age = row[k].age
        /\ Touched(k).deleted = row[k].deleted /\ Touched(k) \in Row
    BY <1>1, RowTypes DEF Touched, Row
  <2>2. /\ [Touched(k) EXCEPT !.deleted = TRUE].checked = row[k].age
        /\ [Touched(k) EXCEPT !.deleted = TRUE].age = row[k].age
        /\ [Touched(k) EXCEPT !.deleted = TRUE].deleted = TRUE
    BY <2>1 DEF Row
  <2>3. LET r == [Touched(k) EXCEPT !.hash = FetchedBody(k), !.likes = Slot(k).likes,
                                    !.comments = EffectiveComments(k)]
        IN  r.checked = row[k].age /\ r.age = row[k].age /\ r.deleted = row[k].deleted
    BY <2>1 DEF Row
  <2>4. /\ [row[k] EXCEPT !.edited = TRUE].checked = row[k].checked
        /\ [row[k] EXCEPT !.edited = TRUE].age = row[k].age
        /\ [row[k] EXCEPT !.edited = TRUE].deleted = row[k].deleted
    BY <1>1 DEF Row
  <2>5. CASE Touch(k)
    BY <1>1, <2>1, <2>2, <2>5 DEF Touch, Write
  <2>6. CASE PatchDropped(k) \/ PatchReplyLost(k)
    BY <1>1, <2>1, <2>6 DEF PatchDropped, PatchReplyLost, WriteAfterFault
  <2>7. CASE PatchLands(k) \/ SaveFails(k)
    BY <2>7 DEF PatchLands, SaveFails, store
  <2>8. CASE MarkEdited(k)
    BY <1>1, <2>4, <2>8 DEF MarkEdited
  <2>9. CASE Save(k, "stats") \/ Save(k, "delete")
    BY <1>1, <2>2, <2>3, <2>9 DEF Save
  <2>10. QED BY <2>5, <2>6, <2>7, <2>8, <2>9 DEF Apply
<1>4. QED BY <1>1, <1>2, <1>3, StillAhead

(* Every step keeps a checkpoint ahead.                                    *)
LEMMA AheadStays ==
    ASSUME "crash" \notin Faults, "dueError" \notin Faults, MaxSlow = 0,
           NEW c \in Checkpoints, 0 < c,
           c + Base <= ReactionHorizon + 1, c + Base <= Horizon + 1,
           TypeInv, TypeInv', AheadInv(c), [Next]_vars
    PROVE  AheadInv(c)'
<1>1. c \in Nat
  BY RefreshAssumption DEF Checkpoints
<1>2. ASSUME NEW m \in Msgs, NEW s, Change(m, s)
      PROVE  AheadInv(c)'
  BY <1>1, <1>2, StillAhead DEF Change, store, ticker, tick
<1>3. ASSUME NEW k \in Keys, NEW t \in Texts, NEW live \in BOOLEAN, Record(k, t, live)
      PROVE  AheadInv(c)'
  <2>1. /\ tracked' = tracked \cup {k} /\ k \notin tracked
        /\ UNCHANGED <<up, owed, phase, busy, fired>>
        /\ \A q \in tracked : row'[q] = row[q]
        /\ row'[k].age = 0 /\ row'[k].checked = 0
    BY <1>3 DEF Record, ticker, tick, history, TypeInv, StoreOK
  <2>2. Ahead(k, c)'
    BY <1>1, <2>1 DEF Ahead
  <2>3. \A q \in tracked : Ahead(q, c)'
    BY <2>1 DEF AheadInv, Ahead, Pending
  <2>4. QED BY <2>1, <2>2, <2>3 DEF AheadInv
<1>4. ASSUME NEW d, Fetch(d)
      PROVE  AheadInv(c)'
  BY <1>1, <1>4, StillAhead DEF Fetch, store, ticker
<1>5. ASSUME NEW k \in todo, Apply(k)
      PROVE  AheadInv(c)'
  BY <1>1, <1>5, ApplyAhead
<1>6. CASE Prune \/ PruneFails
  <2>1. /\ UNCHANGED <<up, owed, phase, fired>> /\ ~busy'
        /\ tracked' \subseteq tracked /\ \A q \in tracked' : row'[q] = row[q]
    BY <1>6 DEF Prune, PruneFails, store, ticker, history
  <2>2. QED BY <1>1, <2>1, StillAhead
<1>7. CASE TickFails \/ Crash \/ Restart
  BY <1>7 DEF TickFails, Crash, Restart, Strike, AheadInv
<1>8. CASE UNCHANGED vars
  BY <1>1, <1>8, StillAhead DEF vars
<1>9. CASE Elapse
  BY <1>1, <1>9, ElapseAhead
<1>10. CASE TickIdle \/ TickStart
  BY <1>1, <1>10, StartAhead
<1>11. QED BY <1>2, <1>3, <1>4, <1>5, <1>6, <1>7, <1>8, <1>9, <1>10
             DEF Next, Working, EditSource, React, Comment, DeleteSource

(* The checks at reaction_early_check_secs and interval_mins happen at the *)
(* first tick at or after them, when the process lives, due() does not     *)
(* fail, ticks take no time and the reaction horizon is a base tick        *)
(* further away (decide_refresh).                                          *)
THEOREM EarlyChecksHappenAlways ==
    ASSUME "crash" \notin Faults, "dueError" \notin Faults, MaxSlow = 0,
           \A c \in {Early, Interval} : /\ 0 < c
                                        /\ c + Base <= ReactionHorizon + 1
                                        /\ c + Base <= Horizon + 1
    PROVE  Spec => []EarlyChecksHappen
<1>1. ASSUME NEW c \in Checkpoints, TypeInv, AheadInv(c)
      PROVE  OnTime(c)
  <2> SUFFICES ASSUME NEW k \in tracked, Pending(k, c), row[k].age >= c + Base
               PROVE  FALSE
    BY DEF OnTime, Pending
  <2>1. c \in Nat /\ row[k].age \in Nat /\ Waiting(owed, phase) \in Nat /\ Base \in Nat
    BY <1>1, RefreshAssumption, StaleNumbers DEF Checkpoints
  <2>2. row[k].age >= c => row[k].age + Waiting(owed, phase) < c + Base
    BY <1>1 DEF AheadInv, Ahead
  <2>3. QED BY <2>1, <2>2
<1>2. Early \in Checkpoints /\ Interval \in Checkpoints
  BY DEF Checkpoints
<1>3. Init => AheadInv(Early) /\ AheadInv(Interval)
  BY DEF Init, AheadInv
<1>4. ASSUME TypeInv, TypeInv', AheadInv(Early), AheadInv(Interval), [Next]_vars
      PROVE  AheadInv(Early)' /\ AheadInv(Interval)'
  BY <1>2, <1>4, AheadStays
<1>5. TypeInv /\ AheadInv(Early) /\ AheadInv(Interval) => EarlyChecksHappen
  BY <1>1, <1>2 DEF EarlyChecksHappen
<1>6. QED BY <1>3, <1>4, <1>5, TypesHold, PTL DEF Spec
=============================================================================
