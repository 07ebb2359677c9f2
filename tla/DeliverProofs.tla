--------------------------- MODULE DeliverProofs ---------------------------
(***************************************************************************)
(* Proofs about one call of the Deliverer, for any backoffs, limits and    *)
(* answers of Discord, and about the rate limit of drop notices, for any   *)
(* callers, any minute and any length of a post.                           *)
(***************************************************************************)
EXTENDS Deliver, Notices, DataLemmas, TLAPS

(* The counters of post_embed, post_media_embed and the patches keep their *)
(* types: in particular the backoff that is slept next exists.             *)
THEOREM TypeCorrect == Spec => []TypeOK
<1> USE DeliverAssumption
<1>1. Init => TypeOK
  BY DEF Init, TypeOK
<1>2. TypeOK /\ [Next]_vars => TypeOK'
  <2> SUFFICES ASSUME TypeOK, [Next]_vars
               PROVE  TypeOK'
    OBVIOUS
  <2>1. ASSUME NEW readable \in BOOLEAN, Success(readable)
        PROVE  TypeOK'
    BY <2>1 DEF Success, Send, Finish, TypeOK
  <2>2. ASSUME NEW w \in Waits, PostLimited(w)
        PROVE  TypeOK'
    BY <2>2 DEF PostLimited, Send, Finish, TypeOK
  <2>3. ASSUME NEW w \in Waits, PatchLimited(w)
        PROVE  TypeOK'
    BY <2>3 DEF PatchLimited, Send, Finish, TypeOK
  <2>4. ASSUME NEW e \in BOOLEAN, PostFailed(e)
        PROVE  TypeOK'
    <3>1. CASE attempt >= Len(Backoffs)
      BY <2>4, <3>1 DEF PostFailed, Send, Finish, TypeOK
    <3>2. CASE ~(attempt >= Len(Backoffs))
      <4>1. Len(Backoffs) \in Nat /\ attempt + 1 \in 1..Len(Backoffs)
        BY <3>2 DEF TypeOK
      <4>2. Backoffs[attempt + 1] \in Nat
        BY <4>1
      <4>3. QED BY <2>4, <3>2, <4>1, <4>2 DEF PostFailed, Send, TypeOK
    <3>3. QED BY <3>1, <3>2
  <2>5. ASSUME NEW e \in BOOLEAN, PatchFailed(e)
        PROVE  TypeOK'
    BY <2>5 DEF PatchFailed, Send, Finish, TypeOK
  <2>6. CASE Refused
    BY <2>6 DEF Refused, Send, Finish, TypeOK
  <2>7. CASE Sleep
    BY <2>7 DEF Sleep, TypeOK
  <2>8. CASE UNCHANGED vars
    BY <2>8 DEF vars, TypeOK
  <2>9. QED BY <2>1, <2>2, <2>3, <2>4, <2>5, <2>6, <2>7, <2>8 DEF Next
<1>3. QED BY <1>1, <1>2, PTL DEF Spec

(* Whatever Discord answers, a delivered post tells the id of the message  *)
(* just made, and a post that tells none is not called delivered           *)
(* (post_embed, parse_message_id).                                         *)
THEOREM IdIsOfTheLastAlways == Spec => []IdIsOfTheLast
<1>1. Init => IdIsOfTheLast
  BY DEF Init, IdIsOfTheLast
<1>2. TypeOK /\ IdIsOfTheLast /\ [Next]_vars => IdIsOfTheLast'
  <2> SUFFICES ASSUME TypeOK, IdIsOfTheLast, [Next]_vars
               PROVE  IdIsOfTheLast'
    OBVIOUS
  <2>1. ASSUME NEW readable \in BOOLEAN, Success(readable)
        PROVE  IdIsOfTheLast'
    BY <2>1 DEF Success, Send, Finish, IdIsOfTheLast, TypeOK
  (* Every other answer leaves the id untold, and the call not delivered.  *)
  <2>2. ASSUME outcome = "none", UNCHANGED <<kind, id>>, outcome' \in {"none", "dropped"}
        PROVE  IdIsOfTheLast'
    BY <2>2 DEF IdIsOfTheLast
  <2>3. ASSUME NEW w \in Waits, PostLimited(w) \/ PatchLimited(w)
        PROVE  IdIsOfTheLast'
    BY <2>2, <2>3 DEF PostLimited, PatchLimited, Send, Finish
  <2>4. ASSUME NEW e \in BOOLEAN, PostFailed(e) \/ PatchFailed(e)
        PROVE  IdIsOfTheLast'
    BY <2>2, <2>4 DEF PostFailed, PatchFailed, Send, Finish
  <2>5. CASE Refused
    BY <2>2, <2>5 DEF Refused, Send, Finish
  <2>6. CASE Sleep \/ UNCHANGED vars
    BY <2>6 DEF Sleep, vars, IdIsOfTheLast
  <2>7. QED BY <2>1, <2>3, <2>4, <2>5, <2>6 DEF Next
<1>3. QED BY <1>1, <1>2, TypeCorrect, PTL DEF Spec

(* A post sends a bounded number of requests, even when every 429 asks for *)
(* no wait at all (MAX_429_ATTEMPTS and the backoffs).                     *)
THEOREM RequestsAreBounded ==
    Spec => [](kind = "post" => sends <= Len(Backoffs) + MaxLimited)
<1> USE DeliverAssumption
<1>1. Init => RequestsAreCounted
  BY DEF Init, RequestsAreCounted
<1>2. TypeOK /\ RequestsAreCounted /\ [Next]_vars => RequestsAreCounted'
  <2> SUFFICES ASSUME TypeOK, RequestsAreCounted, [Next]_vars
               PROVE  RequestsAreCounted'
    OBVIOUS
  <2>0. Len(Backoffs) \in Nat /\ MaxLimited \in Nat /\ sends \in Nat
        /\ attempt \in Nat /\ attempt <= Len(Backoffs) /\ limited \in Nat
    BY DEF TypeOK
  (* A request that ends the call.                                         *)
  <2>1. ASSUME outcome = "none", kind' = kind, sends' = sends + 1, outcome' # "none"
        PROVE  RequestsAreCounted'
    BY <2>0, <2>1 DEF RequestsAreCounted
  <2>2. ASSUME NEW readable \in BOOLEAN, Success(readable)
        PROVE  RequestsAreCounted'
    BY <2>1, <2>2 DEF Success, Send, Finish
  <2>3. ASSUME NEW w \in Waits, PostLimited(w)
        PROVE  RequestsAreCounted'
    <3>1. CASE limited + 1 >= MaxLimited \/ waited + w > Budget
      BY <2>1, <2>3, <3>1 DEF PostLimited, Send, Finish
    <3>2. CASE ~(limited + 1 >= MaxLimited \/ waited + w > Budget)
      BY <2>0, <2>3, <3>2 DEF PostLimited, Send, RequestsAreCounted
    <3>3. QED BY <3>1, <3>2
  <2>4. ASSUME NEW e \in BOOLEAN, PostFailed(e)
        PROVE  RequestsAreCounted'
    <3>1. CASE attempt >= Len(Backoffs)
      BY <2>1, <2>4, <3>1 DEF PostFailed, Send, Finish
    <3>2. CASE ~(attempt >= Len(Backoffs))
      BY <2>0, <2>4, <3>2 DEF PostFailed, Send, RequestsAreCounted
    <3>3. QED BY <3>1, <3>2
  <2>5. CASE Refused
    BY <2>1, <2>5 DEF Refused, Send, Finish
  <2>6. CASE kind # "post" /\ kind' = kind
    BY <2>6 DEF RequestsAreCounted
  <2>7. CASE Sleep \/ UNCHANGED vars
    BY <2>7 DEF Sleep, vars, RequestsAreCounted
  <2>8. QED
    <3>1. ASSUME NEW w \in Waits, PatchLimited(w)
          PROVE  RequestsAreCounted'
      BY <2>6, <3>1 DEF PatchLimited, Send
    <3>2. ASSUME NEW e \in BOOLEAN, PatchFailed(e)
          PROVE  RequestsAreCounted'
      BY <2>6, <3>2 DEF PatchFailed, Send
    <3>3. QED BY <2>2, <2>3, <2>4, <2>5, <2>7, <3>1, <3>2 DEF Next
<1>3. TypeOK /\ RequestsAreCounted => (kind = "post" => sends <= Len(Backoffs) + MaxLimited)
  BY DEF TypeOK, RequestsAreCounted
<1>4. QED BY <1>1, <1>2, <1>3, TypeCorrect, PTL DEF Spec

(* A post is what the delivery tasks take it to be: messages may be made   *)
(* whose id never arrives, and the last step delivers or drops.            *)
THEOREM PostPromiseKept == Spec => KeepsPostPromise
<1> USE DEF Promise!Next, Promise!Lose, Promise!Deliver, Promise!Drop, Promise!vars
<1>1. Init => Promise!Init
  BY DEF Init, Promise!Init
<1>2. TypeOK /\ [Next]_vars => [Promise!Next]_(Promise!vars)
  <2> SUFFICES ASSUME TypeOK, [Next]_vars
               PROVE  Promise!Next \/ UNCHANGED Promise!vars
    OBVIOUS
  <2>1. ASSUME NEW readable \in BOOLEAN, Success(readable)
        PROVE  Promise!Next \/ UNCHANGED Promise!vars
    BY <2>1 DEF Success, Send, Finish, TypeOK
  <2>2. ASSUME NEW w \in Waits, PostLimited(w)
        PROVE  Promise!Next \/ UNCHANGED Promise!vars
    BY <2>2 DEF PostLimited, Send, Finish, TypeOK
  <2>3. ASSUME NEW w \in Waits, PatchLimited(w)
        PROVE  Promise!Next \/ UNCHANGED Promise!vars
    BY <2>3 DEF PatchLimited, Send
  <2>4. ASSUME NEW e \in BOOLEAN, PostFailed(e)
        PROVE  Promise!Next \/ UNCHANGED Promise!vars
    BY <2>4 DEF PostFailed, Send, Finish, TypeOK
  <2>5. ASSUME NEW e \in BOOLEAN, PatchFailed(e)
        PROVE  Promise!Next \/ UNCHANGED Promise!vars
    BY <2>5 DEF PatchFailed, Send
  <2>6. CASE Refused
    BY <2>6 DEF Refused, Send, Finish, TypeOK
  <2>7. CASE Sleep \/ UNCHANGED vars
    BY <2>7 DEF Sleep, vars
  <2>8. QED BY <2>1, <2>2, <2>3, <2>4, <2>5, <2>6, <2>7 DEF Next
<1>3. QED BY <1>1, <1>2, TypeCorrect, PTL DEF Spec, KeepsPostPromise, Promise!Spec

(* How far a patch can be: it has sent nothing, or waits once and sends    *)
(* again, or is over.                                                      *)
PatchStage ==
    kind = "patch" =>
        /\ outcome = "none" =>
              \/ limited = 0 /\ sends = 0 /\ slept = 0 /\ pause = 0
              \/ limited = 1 /\ sends = 1 /\ slept + pause \in Waits
        /\ outcome # "none" => sends <= 2 /\ slept + pause \in Waits \cup {0}

(* A patch holds up the refresh tick, or the start of the process, with    *)
(* two requests and one of Discord's waits at the most (patch_embed,       *)
(* patch_webhook).                                                         *)
THEOREM PatchIsBriefAlways == Spec => []PatchIsBrief
<1> USE DeliverAssumption
<1>1. Init => PatchStage
  BY DEF Init, PatchStage
<1>2. TypeOK /\ PatchStage /\ [Next]_vars => PatchStage'
  <2> SUFFICES ASSUME TypeOK, PatchStage, [Next]_vars
               PROVE  PatchStage'
    OBVIOUS
  (* A request that ends the call.                                         *)
  <2>1. ASSUME outcome = "none", kind' = kind, sends' = sends + 1, outcome' # "none",
               UNCHANGED <<slept, pause>>
        PROVE  PatchStage'
    BY <2>1 DEF PatchStage, TypeOK
  <2>2. ASSUME kind = "post", kind' = kind
        PROVE  PatchStage'
    BY <2>2 DEF PatchStage
  <2>3. ASSUME NEW readable \in BOOLEAN, Success(readable)
        PROVE  PatchStage'
    BY <2>1, <2>3 DEF Success, Send, Finish
  <2>4. ASSUME NEW w \in Waits, PatchLimited(w)
        PROVE  PatchStage'
    <3>1. CASE limited = 0
      <4>1. limited' = 1 /\ sends' = sends + 1 /\ outcome' = "none" /\ pause' = w
            /\ kind = "patch" /\ outcome = "none" /\ UNCHANGED <<slept, kind>>
        BY <2>4, <3>1 DEF PatchLimited, Send
      <4>2. sends = 0 /\ slept = 0
        BY <3>1, <4>1 DEF PatchStage
      <4>3. slept' + pause' = w
        BY <4>1, <4>2
      <4>4. QED BY <4>1, <4>2, <4>3 DEF PatchStage
    <3>2. CASE limited # 0
      BY <2>1, <2>4, <3>2 DEF PatchLimited, Send, Finish
    <3>3. QED BY <3>1, <3>2
  <2>5. ASSUME NEW w \in Waits, PostLimited(w)
        PROVE  PatchStage'
    BY <2>2, <2>5 DEF PostLimited, Send
  <2>6. ASSUME NEW e \in BOOLEAN, PostFailed(e)
        PROVE  PatchStage'
    BY <2>2, <2>6 DEF PostFailed, Send
  <2>7. ASSUME NEW e \in BOOLEAN, PatchFailed(e)
        PROVE  PatchStage'
    BY <2>1, <2>7 DEF PatchFailed, Send, Finish
  <2>8. CASE Refused
    BY <2>1, <2>8 DEF Refused, Send, Finish
  <2>9. CASE Sleep
    <3>1. pause > 0 /\ slept' + pause' = slept + pause
          /\ UNCHANGED <<kind, limited, sends, outcome>>
      BY <2>9 DEF Sleep, TypeOK
    <3>2. QED BY <3>1 DEF PatchStage
  <2>10. CASE UNCHANGED vars
    BY <2>10 DEF vars, PatchStage
  <2>11. QED BY <2>3, <2>4, <2>5, <2>6, <2>7, <2>8, <2>9, <2>10 DEF Next
<1>3. TypeOK /\ PatchStage => PatchIsBrief
  BY DEF TypeOK, PatchStage, PatchIsBrief
<1>4. QED BY <1>1, <1>2, <1>3, TypeCorrect, PTL DEF Spec

(* The time a post has slept is what 429s asked for, within the budget, and *)
(* the backoffs that are used up.                                          *)
AllBackoffs == FoldSeq(LAMBDA x, y : x + y, 0, Backoffs)

BackoffTime == CHOOSE f \in PrefixSums(Backoffs) : f[Len(Backoffs)] = AllBackoffs

TimeIsAccountedFor ==
    kind = "post" => waited <= Budget /\ slept + pause = waited + BackoffTime[attempt]

(* Each backoff in turn is added to that time, and all of them together are *)
(* what PostIsBounded allows.                                              *)
LEMMA BackoffTimeAdvances ==
    /\ BackoffTime[0] = 0
    /\ \A n \in 0..Len(Backoffs) : BackoffTime[n] \in Nat
    /\ \A n \in 0..Len(Backoffs) :
          n < Len(Backoffs) => BackoffTime[n + 1] = BackoffTime[n] + Backoffs[n + 1]
    /\ \A n \in 0..Len(Backoffs) : BackoffTime[n] <= AllBackoffs
    /\ AllBackoffs \in Nat
<1>1. Backoffs \in Seq(Nat) /\ Len(Backoffs) \in Nat
  BY DeliverAssumption
<1>2. \E f \in PrefixSums(Backoffs) : f[Len(Backoffs)] = AllBackoffs
  BY <1>1, SumIsTheLastPrefixSum DEF AllBackoffs
<1>3. BackoffTime \in PrefixSums(Backoffs) /\ BackoffTime[Len(Backoffs)] = AllBackoffs
  BY <1>2 DEF BackoffTime
<1>4. \A n \in 0..Len(Backoffs) : BackoffTime[n] <= BackoffTime[Len(Backoffs)]
  BY <1>1, <1>3, PrefixSumsGrow
<1>5. BackoffTime \in [0..Len(Backoffs) -> Nat] /\ BackoffTime[0] = 0
  BY <1>3 DEF PrefixSums
<1>6. \A n \in 1..Len(Backoffs) : BackoffTime[n] = BackoffTime[n - 1] + Backoffs[n]
  BY <1>3 DEF PrefixSums
<1>7. \A n \in 0..Len(Backoffs) :
         n < Len(Backoffs) => BackoffTime[n + 1] = BackoffTime[n] + Backoffs[n + 1]
  <2> SUFFICES ASSUME NEW n \in 0..Len(Backoffs), n < Len(Backoffs)
               PROVE  BackoffTime[n + 1] = BackoffTime[n] + Backoffs[n + 1]
    OBVIOUS
  <2>1. n + 1 \in 1..Len(Backoffs) /\ (n + 1) - 1 = n
    BY <1>1
  <2>2. QED BY <1>6, <2>1
<1>8. QED BY <1>1, <1>3, <1>4, <1>5, <1>7

(* However Discord mixes its answers, a post ends: in requests, and in the *)
(* time slept, which the budget and the sum of all backoffs bound          *)
(* (send_json_capture, post_media_embed).                                  *)
THEOREM PostIsBoundedAlways == Spec => []PostIsBounded
<1> USE DeliverAssumption
<1>1. Init => TimeIsAccountedFor
  BY BackoffTimeAdvances DEF Init, TimeIsAccountedFor
<1>2. TypeOK /\ TimeIsAccountedFor /\ [Next]_vars => TimeIsAccountedFor'
  <2> SUFFICES ASSUME TypeOK, TimeIsAccountedFor, [Next]_vars
               PROVE  TimeIsAccountedFor'
    OBVIOUS
  <2>0. /\ waited \in Nat /\ slept \in Nat /\ pause \in Nat
        /\ attempt \in 0..Len(Backoffs) /\ Len(Backoffs) \in Nat
        /\ BackoffTime[attempt] \in Nat
    BY BackoffTimeAdvances DEF TypeOK
  (* A request that ends the call, or one of a patch.                      *)
  <2>1. ASSUME UNCHANGED <<kind, slept>>,
               kind = "post" => UNCHANGED <<waited, pause, attempt>>
        PROVE  TimeIsAccountedFor'
    BY <2>1 DEF TimeIsAccountedFor
  <2>2. ASSUME NEW readable \in BOOLEAN, Success(readable)
        PROVE  TimeIsAccountedFor'
    BY <2>1, <2>2 DEF Success, Send, Finish
  <2>3. ASSUME NEW w \in Waits, PostLimited(w)
        PROVE  TimeIsAccountedFor'
    <3>1. CASE limited + 1 >= MaxLimited \/ waited + w > Budget
      BY <2>1, <2>3, <3>1 DEF PostLimited, Send, Finish
    <3>2. CASE ~(limited + 1 >= MaxLimited \/ waited + w > Budget)
      <4>1. /\ kind = "post" /\ kind' = kind /\ slept' = slept /\ pause = 0
            /\ waited' = waited + w /\ pause' = w /\ attempt' = attempt
            /\ waited + w <= Budget /\ w \in Nat
        BY <2>0, <2>3, <3>2 DEF PostLimited, Send
      <4>2. slept' + pause' = waited' + BackoffTime[attempt']
        BY <2>0, <4>1 DEF TimeIsAccountedFor
      <4>3. QED BY <4>1, <4>2 DEF TimeIsAccountedFor
    <3>3. QED BY <3>1, <3>2
  <2>4. ASSUME NEW e \in BOOLEAN, PostFailed(e)
        PROVE  TimeIsAccountedFor'
    <3>1. CASE attempt >= Len(Backoffs)
      BY <2>1, <2>4, <3>1 DEF PostFailed, Send, Finish
    <3>2. CASE attempt < Len(Backoffs)
      <4>1. /\ kind = "post" /\ kind' = kind /\ slept' = slept /\ pause = 0
            /\ waited' = waited /\ pause' = Backoffs[attempt + 1] /\ attempt' = attempt + 1
        BY <2>0, <2>4, <3>2 DEF PostFailed, Send
      <4>2. BackoffTime[attempt + 1] = BackoffTime[attempt] + Backoffs[attempt + 1]
            /\ Backoffs[attempt + 1] \in Nat
        BY <2>0, <3>2, BackoffTimeAdvances
      <4>3. slept' + pause' = waited' + BackoffTime[attempt']
        BY <2>0, <4>1, <4>2 DEF TimeIsAccountedFor
      <4>4. QED BY <4>1, <4>3 DEF TimeIsAccountedFor
    <3>3. QED BY <2>0, <3>1, <3>2
  <2>5. ASSUME NEW w \in Waits, PatchLimited(w)
        PROVE  TimeIsAccountedFor'
    BY <2>1, <2>5 DEF PatchLimited, Send
  <2>6. ASSUME NEW e \in BOOLEAN, PatchFailed(e)
        PROVE  TimeIsAccountedFor'
    BY <2>1, <2>6 DEF PatchFailed, Send
  <2>7. CASE Refused
    BY <2>1, <2>7 DEF Refused, Send, Finish
  <2>8. CASE Sleep
    <3>1. slept' + pause' = slept + pause /\ UNCHANGED <<kind, waited, attempt>>
      BY <2>0, <2>8 DEF Sleep
    <3>2. QED BY <3>1 DEF TimeIsAccountedFor
  <2>9. CASE UNCHANGED vars
    BY <2>1, <2>9 DEF vars
  <2>10. QED BY <2>2, <2>3, <2>4, <2>5, <2>6, <2>7, <2>8, <2>9 DEF Next
<1>3. TypeOK /\ TimeIsAccountedFor /\ (kind = "post" => sends <= Len(Backoffs) + MaxLimited)
      => PostIsBounded
  <2> SUFFICES ASSUME TypeOK, TimeIsAccountedFor, kind = "post"
               PROVE  slept + pause <= Budget + AllBackoffs
    BY DEF PostIsBounded, AllBackoffs
  <2>1. BackoffTime[attempt] \in Nat /\ BackoffTime[attempt] <= AllBackoffs /\ AllBackoffs \in Nat
    BY BackoffTimeAdvances DEF TypeOK
  <2>2. QED BY <2>1 DEF TypeOK, TimeIsAccountedFor
<1>4. QED BY <1>1, <1>2, <1>3, TypeCorrect, RequestsAreBounded, PTL DEF Spec
-----------------------------------------------------------------------------
(* The slot that was taken last is the one taken ever counts: it frees     *)
(* when the minute after it has passed.                                    *)
SlotIsTheLast ==
    /\ slot \in 0..Gap /\ tried \in 0..Gap
    /\ taken \in {0, 1}
    /\ taken = 1 => tried = slot /\ slot < Gap

(* An age stays within the minute (duration_since).                        *)
LEMMA OlderStays ==
    ASSUME NEW n \in 0..Gap
    PROVE  Older(n) \in 0..Gap
  BY NoticesAssumption DEF Older

(* In any minute of one process at most one caller gets through, however   *)
(* many there are and however long they post (drop_notice).                *)
THEOREM OneAMinuteAlways == NoticesSpec => []OneAMinute
<1> USE NoticesAssumption
<1>1. NoticesInit => SlotIsTheLast
  BY DEF NoticesInit, SlotIsTheLast
<1>2. SlotIsTheLast /\ [NoticesNext]_noticesVars => SlotIsTheLast'
  <2> SUFFICES ASSUME SlotIsTheLast, [NoticesNext]_noticesVars
               PROVE  SlotIsTheLast'
    OBVIOUS
  <2>1. ASSUME NEW t \in Tasks, Admit(t)
        PROVE  SlotIsTheLast'
    BY <2>1 DEF Admit, SlotIsTheLast
  <2>2. ASSUME UNCHANGED <<slot, tried, taken>>
        PROVE  SlotIsTheLast'
    BY <2>2 DEF SlotIsTheLast
  <2>3. ASSUME NEW t \in Tasks, Step(t), ~Admit(t)
        PROVE  SlotIsTheLast'
    BY <2>2, <2>3 DEF Step, Swallow, Post, Heard, Unheard, noticesVars
  <2>4. CASE NewProcess
    BY <2>4 DEF NewProcess, SlotIsTheLast
  <2>5. CASE Discord
    BY <2>2, <2>5 DEF Discord
  <2>6. CASE MinuteRuns
    <3>1. slot' \in 0..Gap /\ tried' \in 0..Gap
      BY <2>6, OlderStays DEF MinuteRuns, SlotIsTheLast
    <3>2. QED BY <2>6, <3>1 DEF MinuteRuns, SlotIsTheLast, Older
  <2>7. CASE UNCHANGED noticesVars
    BY <2>2, <2>7 DEF noticesVars
  <2>8. QED BY <2>1, <2>3, <2>4, <2>5, <2>6, <2>7 DEF NoticesNext
<1>3. SlotIsTheLast => OneAMinute
  BY DEF SlotIsTheLast, OneAMinute
<1>4. QED BY <1>1, <1>2, <1>3, PTL DEF NoticesSpec
=============================================================================
