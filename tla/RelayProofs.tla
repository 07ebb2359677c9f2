----------------------------- MODULE RelayProofs -----------------------------
(***************************************************************************)
(* Proofs about Relay, for every set of messages, webhooks and routes,     *)
(* every capacity of the LRU, every number of faults and of backfills.     *)
(***************************************************************************)
EXTENDS Relay, DataLemmas, FiniteSetTheorems, TLAPS

(***************************************************************************)
(* Types.                                                                  *)
(***************************************************************************)

(* What moving one job along, or dropping it, leaves in jobs. *)
LEMMA MoveType ==
    ASSUME jobs \subseteq Job, NEW j \in jobs,
           NEW pc \in {"check", "post", "record"}, NEW n \in Nat
    PROVE  (jobs \ {j}) \cup {[j EXCEPT !.pc = pc, !.copy = n]} \subseteq Job
BY DEF Job

(* A fresh delivery is a Job. *)
LEMMA NewJobType ==
    ASSUME NEW src \in {"live", "backfill"}, NEW i \in Nat, NEW r \in Routes,
           NEW m \in Msgs, NEW w \in Webhooks
    PROVE  NewJob(src, i, r, m, w) \in Job
BY DEF NewJob, Job

(* A job's pair and the id it holds are in their sets. *)
LEMMA PairType ==
    ASSUME NEW j \in Job
    PROVE  Pair(j) \in Pairs /\ IdOf(j) \in Ids
BY DEF Job, Pair, Pairs, IdOf, Ids

(* Every variable keeps its type, the LRU its capacity, and the saved       *)
(* position never passes the run loop's, whatever updates, faults, stops    *)
(* and backfills occur (handle_update, spawn_embed, run).                   *)
THEOREM TypeCorrect == Spec => []TypeOK
<1> USE RelayAssumption
<1> USE DEF telegram, session, loop, backfill, store, history
<1>1. Init => TypeOK
  BY DEF Init, TypeOK, Pairs
<1>2. TypeOK /\ [Next]_vars => TypeOK'
  <2> SUFFICES ASSUME TypeOK, [Next]_vars
               PROVE  TypeOK'
    OBVIOUS
  <2>1. ASSUME NEW m \in Msgs, NEW b \in Bodies, Emit(m, b)
        PROVE  TypeOK'
    <3>1. log' \in Seq(Update) /\ Len(log') = Len(log) + 1
      BY <2>1 DEF Emit, TypeOK, Update
    <3>2. body' \in [Msgs -> Bodies \cup {"none"}]
      BY <2>1 DEF Emit, TypeOK
    <3>3. QED BY <2>1, <3>1, <3>2 DEF Emit, TypeOK
  <2>2. CASE HandleUpdate
    <3> DEFINE u == log[cursor + 1]
               fresh == IF Seen(lru, u.msg) THEN {} ELSE Targets(ChatOf[u.msg], u.body)
               new == {NewJob("live", cursor + 1, t[1], u.msg, t[2]) : t \in fresh}
    <3>1. u \in Update /\ cursor + 1 \in Nat /\ cursor + 1 <= Len(log)
      BY <2>2 DEF HandleUpdate, TypeOK
    <3>2. u.msg \in Msgs
      BY <3>1 DEF Update
    <3>3. fresh \subseteq Routes \X Webhooks
      BY DEF Targets
    <3>4. new \subseteq Job
      <4>1. ASSUME NEW t \in fresh
            PROVE  NewJob("live", cursor + 1, t[1], u.msg, t[2]) \in Job
        <5>1. t[1] \in Routes /\ t[2] \in Webhooks
          BY <3>3
        <5> HIDE DEF u, fresh
        <5>2. QED BY <3>1, <3>2, <5>1, NewJobType
      <4>2. QED BY <4>1
    <3>5. Spawn(new)
      BY <2>2 DEF HandleUpdate
    <3>6. jobs' \subseteq Job
      BY <3>4, <3>5 DEF Spawn, TypeOK
    <3>7. overlapped' \subseteq Pairs
      BY <3>4, <3>5, PairType DEF Spawn, TypeOK
    <3>8. lru' \in Seq(Msgs) /\ Len(lru') <= DedupCap
      BY <2>2, <3>2, TouchType DEF HandleUpdate, TypeOK
    <3>9. cursor' \in Nat /\ synced' <= cursor' /\ cursor' <= Len(log')
      BY <2>2, <3>1 DEF HandleUpdate, TypeOK
    <3>10. QED
      BY <2>2, <3>6, <3>7, <3>8, <3>9 DEF HandleUpdate, TypeOK
  <2>3. ASSUME NEW j \in jobs, JobStep(j)
        PROVE  TypeOK'
    <3> j \in Job
      BY DEF TypeOK
    <3> Pair(j) \in Pairs /\ IdOf(j) \in Ids
      BY PairType
    <3> copies[Pair(j)] \in Nat
      BY DEF TypeOK
    <3>1. ASSUME NEW pc \in {"check", "post", "record"}, NEW n \in Nat, Move(j, pc, n)
          PROVE  jobs' \subseteq Job
      BY <3>1, MoveType DEF Move, TypeOK
    <3>2. ASSUME Finish(j)
          PROVE  jobs' \subseteq Job
      BY <3>2 DEF Finish, TypeOK
    <3>3. ASSUME NEW k, Strike(k)
          PROVE  faults' \in 0..MaxFaults
      BY <3>3 DEF Strike, TypeOK
    <3>4. CASE CheckStore(j)
      BY <3>1, <3>2, <3>4 DEF CheckStore, TypeOK
    <3>5. CASE CheckError(j)
      BY <3>1, <3>3, <3>5 DEF CheckError, TypeOK
    <3>6. CASE PostDelivered(j)
      BY <3>1, <3>6 DEF PostDelivered, TypeOK
    <3>7. CASE PostLostReply(j)
      <4>1. <<j.msg, j.hook, copies[Pair(j)] + 1>> \in Ids
        BY DEF Job, Ids
      <4>2. copies' \in [Pairs -> Nat]
        BY <3>7 DEF PostLostReply, TypeOK
      <4>3. QED BY <3>3, <3>7, <4>1, <4>2 DEF PostLostReply, TypeOK
    <3>8. CASE PostDropped(j)
      BY <3>2, <3>3, <3>8 DEF PostDropped, TypeOK
    <3>9. CASE RecordRow(j)
      BY <3>2, <3>9 DEF RecordRow, TypeOK
    <3>10. CASE RecordError(j)
      BY <3>2, <3>3, <3>10 DEF RecordError, TypeOK
    <3>11. QED
      BY <2>3, <3>4, <3>5, <3>6, <3>7, <3>8, <3>9, <3>10 DEF JobStep
  <2>4. ASSUME Stop
        PROVE  /\ body' \in [Msgs -> Bodies \cup {"none"}] /\ log' = log
               /\ up' \in BOOLEAN /\ lru' \in Seq(Msgs) /\ Len(lru') <= DedupCap
               /\ jobs' \subseteq Job /\ orphans' \subseteq Ids /\ abandoned' \subseteq Pairs
               /\ UNCHANGED <<backfills, todo, rows, aged, pruned, copies,
                              doubted, overlapped, noticed>>
    <3>1. \A j \in jobs : Pair(j) \in Pairs /\ IdOf(j) \in Ids
      BY PairType DEF TypeOK
    <3>2. Live \subseteq jobs
      BY DEF Live
    <3>3. orphans' \subseteq Ids /\ abandoned' \subseteq Pairs /\ jobs' \subseteq Job
      BY <2>4, <3>1, <3>2 DEF Stop, TypeOK
    <3>4. lru' \in Seq(Msgs) /\ Len(lru') <= DedupCap
      BY <2>4 DEF Stop
    <3>5. UNCHANGED <<body, log, backfills, todo, rows, aged, pruned, copies,
                      doubted, overlapped, noticed>>
      BY <2>4 DEF Stop
    <3>6. up' \in BOOLEAN
      BY <2>4 DEF Stop
    <3>7. QED BY <3>3, <3>4, <3>5, <3>6 DEF TypeOK
  <2>5. CASE Crash
    BY <2>4, <2>5 DEF Crash, Strike, TypeOK
  <2>6. CASE Shutdown
    BY <2>4, <2>6 DEF Shutdown, Strike, TypeOK
  <2>7. CASE Restart
    BY <2>7 DEF Restart, TypeOK
  <2>8. CASE SyncState
    BY <2>8 DEF SyncState, TypeOK
  <2>9. ASSUME NEW r \in Routes, BackfillStart(r)
        PROVE  TypeOK'
    <3>1. To[r] \subseteq Webhooks
      BY DEF RelayAssumption
    <3>2. Recent(RouteChat[r]) \subseteq Msgs
      BY DEF Recent, Published
    <3>3. todo' \subseteq Routes \X Msgs \X Webhooks
      BY <2>9, <3>1, <3>2 DEF BackfillStart
    <3>4. QED BY <2>9, <3>3 DEF BackfillStart, TypeOK
  <2>10. ASSUME NEW d \in todo, BackfillNext(d)
         PROVE  TypeOK'
    <3>1. NewJob("backfill", 0, d[1], d[2], d[3]) \in Job
      BY NewJobType DEF TypeOK
    <3> DEFINE new == {NewJob("backfill", 0, d[1], d[2], d[3])}
    <3>2. Spawn(new) /\ new \subseteq Job
      BY <2>10, <3>1 DEF BackfillNext
    <3>3. jobs' \subseteq Job /\ overlapped' \subseteq Pairs
      BY <3>2, PairType DEF Spawn, TypeOK
    <3>4. QED BY <2>10, <3>3 DEF BackfillNext, TypeOK
  <2>11. CASE BackfillCrash
    BY <2>11, PairType DEF BackfillCrash, Strike, Live, TypeOK
  <2>12. CASE HorizonPasses
    BY <2>12 DEF HorizonPasses, TypeOK
  <2>13. CASE Prune
    BY <2>13 DEF Prune, Strike, TypeOK
  <2>14. CASE UNCHANGED vars
    BY <2>14 DEF vars, TypeOK
  <2>15. QED
    BY <2>1, <2>2, <2>3, <2>5, <2>6, <2>7, <2>8, <2>9, <2>10, <2>11, <2>12,
       <2>13, <2>14 DEF Next, Publish, Edit
<1>3. QED BY <1>1, <1>2, PTL DEF Spec

(***************************************************************************)
(* Every Discord message is accounted for.                                 *)
(***************************************************************************)

(* A step that posts nothing, records nothing and loses nothing. *)
LEMMA AccountedFrame ==
    ASSUME Accounted, UNCHANGED <<rows, pruned, orphans, copies>>,
           Recording' = Recording
    PROVE  Accounted'
BY DEF Accounted, Pending

(* A job at any other step of its delivery is not Recording. *)
LEMMA MoveFrame ==
    ASSUME NEW j \in jobs, j.pc # "record", jobs \subseteq Job,
           \/ Finish(j)
           \/ \E pc \in {"check", "post"}, n \in Nat : Move(j, pc, n)
    PROVE  Recording' = Recording
<1>1. CASE Finish(j)
  BY <1>1 DEF Finish, Recording
<1>2. ASSUME NEW pc \in {"check", "post"}, NEW n \in Nat, Move(j, pc, n)
      PROVE  Recording' = Recording
  <2>1. [j EXCEPT !.pc = pc, !.copy = n].pc # "record"
    BY DEF Job
  <2>2. QED BY <1>2, <2>1 DEF Move, Recording
<1>3. QED BY <1>1, <1>2

(* Jobs that stop while they hold an id leave it to the orphans. *)
LEMMA AccountedRetire ==
    ASSUME Accounted, UNCHANGED <<rows, pruned, copies>>,
           NEW S \in SUBSET Recording,
           Recording' = Recording \ S,
           orphans' = orphans \cup {IdOf(j) : j \in S}
    PROVE  Accounted'
<1>1. Pending' = {IdOf(j) : j \in Recording \ S}
  BY DEF Pending
<1>2. Pending = Pending' \cup {IdOf(j) : j \in S}
  BY <1>1 DEF Pending
<1>3. Pending' \cap {IdOf(j) : j \in S} = {}
  BY <1>1 DEF Accounted
<1>4. QED BY <1>1, <1>2, <1>3 DEF Accounted

(* A new job is not Recording. *)
LEMMA SpawnFrame ==
    ASSUME NEW new, Spawn(new), \A j \in new : j.pc = "check"
    PROVE  Recording' = Recording
BY DEF Spawn, Recording

(* No Discord id is forgotten unnoticed, reused or recorded twice: each     *)
(* message the relay created is recorded, pruned, about to be recorded or   *)
(* a known orphan (spawn_embed, Store::record, Store::prune, every stop).   *)
THEOREM AccountedAlways == Spec => []Accounted
<1> USE RelayAssumption
<1> USE DEF telegram, session, loop, backfill, store, history
<1>1. Init => Accounted
  BY DEF Init, Accounted, Recording, Pending, Pairs
<1>2. TypeOK /\ Accounted /\ [Next]_vars => Accounted'
  <2> SUFFICES ASSUME TypeOK, Accounted, [Next]_vars
               PROVE  Accounted'
    OBVIOUS
  <2>1. ASSUME NEW m \in Msgs, NEW b \in Bodies, Emit(m, b)
        PROVE  Accounted'
    BY <2>1, AccountedFrame DEF Emit, Recording
  <2>2. CASE HandleUpdate
    <3>1. PICK new : Spawn(new) /\ \A j \in new : j.pc = "check"
      BY <2>2 DEF HandleUpdate, NewJob
    <3>2. Recording' = Recording
      BY <3>1, SpawnFrame
    <3>3. QED BY <2>2, <3>2, AccountedFrame DEF HandleUpdate
  <2>3. ASSUME NEW j \in jobs, JobStep(j)
        PROVE  Accounted'
    <3> j \in Job /\ jobs \subseteq Job
      BY DEF TypeOK
    <3> Pair(j) \in Pairs
      BY PairType
    <3> DEFINE c == copies[Pair(j)]
               id == <<j.msg, j.hook, c + 1>>
    <3>n. c \in Nat /\ copies \in [Pairs -> Nat]
      BY DEF TypeOK
    (* The id that a post creates is new. *)
    <3>f. ASSUME copies' = [copies EXCEPT ![Pair(j)] = @ + 1]
          PROVE  /\ id \notin rows \cup pruned \cup orphans \cup Pending
                 /\ \A p \in Pairs : \A n \in 1..copies'[p] :
                       <<p[1], p[2], n>> = id \/ n \in 1..copies[p]
                 /\ \A i \in Ids : i[3] \in 1..copies[<<i[1], i[2]>>] \/ i = id
                       => i[3] \in 1..copies'[<<i[1], i[2]>>]
      <4>1. id \notin rows \cup pruned \cup orphans \cup Pending
        BY <3>n DEF Accounted, Pair
      <4>2. ASSUME NEW p \in Pairs, NEW n \in 1..copies'[p]
            PROVE  <<p[1], p[2], n>> = id \/ n \in 1..copies[p]
        <5>1. CASE p = Pair(j)
          BY <3>f, <3>n, <5>1 DEF Pair
        <5>2. CASE p # Pair(j)
          BY <3>f, <3>n, <5>2
        <5>3. QED BY <5>1, <5>2
      <4>3. ASSUME NEW i \in Ids, i[3] \in 1..copies[<<i[1], i[2]>>] \/ i = id
            PROVE  i[3] \in 1..copies'[<<i[1], i[2]>>]
        <5>1. <<i[1], i[2]>> \in Pairs
          BY DEF Ids, Pairs
        <5>2. CASE <<i[1], i[2]>> = Pair(j)
          BY <3>f, <3>n, <4>3, <5>2 DEF Pair
        <5>3. CASE <<i[1], i[2]>> # Pair(j)
          BY <3>f, <3>n, <4>3, <5>1, <5>3 DEF Pair
        <5>4. QED BY <5>2, <5>3
      <4>4. QED BY <4>1, <4>2, <4>3
    <3>i. rows \cup pruned \cup orphans \cup Pending \subseteq Ids /\ id \in Ids
      <4>1. Pending \subseteq Ids
        BY PairType DEF Pending, Recording
      <4>2. id \in Ids
        BY <3>n DEF Ids, Job
      <4>3. QED BY <4>1, <4>2 DEF TypeOK
    <3>1. CASE CheckStore(j)
      BY <3>1, MoveFrame, AccountedFrame DEF CheckStore
    <3>2. CASE CheckError(j)
      BY <3>2, MoveFrame, AccountedFrame DEF CheckError
    <3>3. CASE PostDelivered(j)
      <4> DEFINE k == [j EXCEPT !.pc = "record", !.copy = c + 1]
      <4>1. k.pc = "record" /\ IdOf(k) = id
        BY <3>n DEF Job, IdOf
      <4>2. jobs' = (jobs \ {j}) \cup {k} /\ j.pc = "post"
        BY <3>3 DEF PostDelivered, Move
      <4> HIDE DEF k
      <4>3. Recording' = Recording \cup {k}
        BY <4>1, <4>2 DEF Recording
      <4>4. Pending' = Pending \cup {id}
        BY <4>1, <4>3 DEF Pending
      <4>5. UNCHANGED <<rows, pruned, orphans>>
            /\ copies' = [copies EXCEPT ![Pair(j)] = @ + 1]
        BY <3>3 DEF PostDelivered
      <4>6. \A h, i \in Recording' : IdOf(h) = IdOf(i) => h = i
        BY <4>1, <4>3, <4>5, <3>f DEF Accounted, Pending
      <4> HIDE DEF id, c
      <4>7. QED BY <4>4, <4>5, <4>6, <3>f, <3>i DEF Accounted
    <3>4. CASE PostLostReply(j)
      <4>1. UNCHANGED <<rows, pruned, jobs>> /\ orphans' = orphans \cup {id}
            /\ copies' = [copies EXCEPT ![Pair(j)] = @ + 1]
        BY <3>4 DEF PostLostReply
      <4>2. Recording' = Recording /\ Pending' = Pending
        BY <4>1 DEF Recording, Pending
      <4> HIDE DEF id, c
      <4>3. QED BY <4>1, <4>2, <3>f, <3>i DEF Accounted
    <3>5. CASE PostDropped(j)
      BY <3>5, MoveFrame, AccountedFrame DEF PostDropped
    <3>6. CASE RecordRow(j)
      <4>1. j \in Recording /\ Recording' = Recording \ {j}
        BY <3>6 DEF RecordRow, Finish, Recording
      <4>2. Pending = Pending' \cup {IdOf(j)} /\ IdOf(j) \notin Pending'
        BY <4>1 DEF Pending, Accounted
      <4>3. UNCHANGED <<pruned, orphans, copies>> /\ rows' = rows \cup {IdOf(j)}
        BY <3>6 DEF RecordRow
      <4>4. \A h, i \in Recording' : IdOf(h) = IdOf(i) => h = i
        BY <4>1 DEF Accounted
      <4>5. QED BY <4>2, <4>3, <4>4 DEF Accounted
    <3>7. CASE RecordError(j)
      <4>1. {j} \in SUBSET Recording /\ Recording' = Recording \ {j}
        BY <3>7 DEF RecordError, Finish, Recording
      <4>2. orphans' = orphans \cup {IdOf(i) : i \in {j}}
        BY <3>7 DEF RecordError
      <4>3. UNCHANGED <<rows, pruned, copies>>
        BY <3>7 DEF RecordError
      <4>4. QED BY <4>1, <4>2, <4>3, AccountedRetire
    <3>8. QED
      BY <2>3, <3>1, <3>2, <3>3, <3>4, <3>5, <3>6, <3>7 DEF JobStep
  <2>4. ASSUME Stop
        PROVE  Accounted'
    <3> DEFINE S == {k \in Live : k.pc = "record"}
    <3>1. S \in SUBSET Recording
      BY DEF Live, Recording
    <3>2. Recording' = Recording \ S
      BY <2>4 DEF Stop, Live, Recording
    <3>3. orphans' = orphans \cup {IdOf(j) : j \in S} /\ UNCHANGED <<rows, pruned, copies>>
      BY <2>4 DEF Stop
    <3>4. QED BY <3>1, <3>2, <3>3, AccountedRetire
  <2>5. ASSUME NEW r \in Routes, BackfillStart(r)
        PROVE  Accounted'
    BY <2>5, AccountedFrame DEF BackfillStart, Recording
  <2>6. ASSUME NEW d \in todo, BackfillNext(d)
        PROVE  Accounted'
    <3>1. PICK new : Spawn(new) /\ \A j \in new : j.pc = "check"
      BY <2>6 DEF BackfillNext, NewJob
    <3>2. Recording' = Recording
      BY <3>1, SpawnFrame
    <3>3. QED BY <2>6, <3>2, AccountedFrame DEF BackfillNext
  <2>7. CASE BackfillCrash
    <3> DEFINE S == {k \in jobs \ Live : k.pc = "record"}
    <3>1. S \in SUBSET Recording
      BY DEF Recording
    <3>2. Recording' = Recording \ S
      BY <2>7 DEF BackfillCrash, Live, Recording
    <3>3. orphans' = orphans \cup {IdOf(j) : j \in S} /\ UNCHANGED <<rows, pruned, copies>>
      BY <2>7 DEF BackfillCrash
    <3>4. QED BY <3>1, <3>2, <3>3, AccountedRetire
  <2>8. CASE Restart \/ SyncState \/ HorizonPasses \/ UNCHANGED vars
    BY <2>8, AccountedFrame DEF Restart, SyncState, HorizonPasses, vars, Recording
  <2>9. CASE Prune
    <3>1. aged \subseteq rows
      BY DEF TypeOK
    <3>2. Recording' = Recording /\ Pending' = Pending
      BY <2>9 DEF Prune, Recording, Pending
    <3>3. QED BY <2>9, <3>1, <3>2 DEF Prune, Accounted
  <2>10. QED
    BY <2>1, <2>2, <2>3, <2>4, <2>5, <2>6, <2>7, <2>8, <2>9
       DEF Next, Publish, Edit, Crash, Shutdown
<1>3. QED BY <1>1, <1>2, TypeCorrect, PTL DEF Spec

(***************************************************************************)
(* Only an exposed pair is posted twice.                                   *)
(***************************************************************************)

(* Jobs that only leave, or stay as they are. *)
LEMMA SingleFewer ==
    ASSUME NEW p, Single(p), jobs' \subseteq jobs, copies'[p] = copies[p]
    PROVE  Single(p)'
BY DEF Single, Pair

(* New jobs of a pair that has one in flight are overlapped, and so is     *)
(* everything that came before.                                            *)
LEMMA SingleSpawn ==
    ASSUME NEW new, Spawn(new), UnexposedIsSingle,
           \A j \in new : j.pc = "check",
           \A i, j \in new : Pair(i) = Pair(j) => i = j,
           UNCHANGED <<copies, orphans, pruned, doubted>>
    PROVE  UnexposedIsSingle'
<1> SUFFICES ASSUME NEW p \in Pairs, ~Exposed(p)'
             PROVE  Single(p)'
  BY DEF UnexposedIsSingle, Pairs
<1>1. ~Exposed(p)
  BY DEF Exposed, Spawn
<1>2. Single(p)
  BY <1>1 DEF UnexposedIsSingle
<1>3. \A k \in new : Pair(k) = p => ~\E i \in jobs : Pair(i) = p
  BY DEF Exposed, Spawn
<1>4. jobs' = jobs \cup new
  BY DEF Spawn
<1>5. \A i, j \in jobs' : Pair(i) = p /\ Pair(j) = p => i = j
  BY <1>2, <1>3, <1>4 DEF Single
<1>6. \A j \in jobs' : Pair(j) = p /\ j.pc = "post" => copies[p] = 0
  BY <1>2, <1>4 DEF Single
<1>7. copies'[p] <= 1
  BY <1>2 DEF Single
<1>8. QED BY <1>5, <1>6, <1>7 DEF Single, Pair

(* A job moving one step along; pair p is not posted by it. *)
LEMMA SingleMove ==
    ASSUME NEW p, Single(p), jobs \subseteq Job, NEW j \in jobs,
           NEW pc \in {"check", "post", "record"}, NEW n \in Nat, Move(j, pc, n),
           copies'[p] \in Nat, copies'[p] <= 1,
           Pair(j) # p => copies'[p] = copies[p],
           Pair(j) = p /\ pc = "post" => copies'[p] = 0
    PROVE  Single(p)'
<1> DEFINE k == [j EXCEPT !.pc = pc, !.copy = n]
<1>1. Pair(k) = Pair(j) /\ k.pc = pc
  BY DEF Pair, Job
<1>2. jobs' = (jobs \ {j}) \cup {k}
  BY DEF Move
<1> HIDE DEF k
<1>3. \A h, i \in jobs' : Pair(h) = p /\ Pair(i) = p => h = i
  BY <1>1, <1>2 DEF Single
<1>4. \A i \in jobs' : Pair(i) = p /\ i.pc = "post" => copies'[p] = 0
  BY <1>1, <1>2 DEF Single
<1>5. QED BY <1>3, <1>4 DEF Single, Pair

(* Targets names each webhook once. *)
LEMMA TargetsOnce ==
    ASSUME NEW c, NEW b, NEW s \in Targets(c, b), NEW t \in Targets(c, b), s[2] = t[2],
           NumRoutes \in Nat
    PROVE  s = t
<1>1. s[1] \in Nat /\ t[1] \in Nat
  BY DEF Targets, Routes
<1>2. s[1] <= t[1] /\ t[1] <= s[1]
  BY DEF Targets
<1>3. s[1] = t[1]
  BY <1>1, <1>2
<1>4. s = <<s[1], s[2]>> /\ t = <<t[1], t[2]>>
  BY DEF Targets
<1>5. QED BY <1>3, <1>4

(* A pair that was never exposed has one delivery at most, and its post     *)
(* finds no copy: the inductive reason why the store check of spawn_embed   *)
(* and of backfill suffices outside the exposed cases.                      *)
THEOREM UnexposedIsSingleAlways == Spec => []UnexposedIsSingle
<1> USE RelayAssumption
<1> USE DEF telegram, session, loop, backfill, store, history
<1>1. Init => UnexposedIsSingle
  BY DEF Init, UnexposedIsSingle, Single
<1>2. TypeOK /\ Accounted /\ UnexposedIsSingle /\ [Next]_vars => UnexposedIsSingle'
  <2> SUFFICES ASSUME TypeOK, Accounted, UnexposedIsSingle, [Next]_vars
               PROVE  UnexposedIsSingle'
    OBVIOUS
  (* Steps that spawn nothing and move no job along. *)
  <2>a. ASSUME jobs' \subseteq jobs, copies' = copies,
               orphans \subseteq orphans', pruned \subseteq pruned',
               doubted \subseteq doubted', overlapped \subseteq overlapped'
        PROVE  UnexposedIsSingle'
    <3> SUFFICES ASSUME NEW p \in Pairs, ~Exposed(p)'
                 PROVE  Single(p)'
      BY DEF UnexposedIsSingle, Pairs
    <3>1. ~Exposed(p)
      BY <2>a DEF Exposed
    <3>2. QED BY <2>a, <3>1, SingleFewer DEF UnexposedIsSingle
  <2>1. ASSUME NEW m \in Msgs, NEW b \in Bodies, Emit(m, b)
        PROVE  UnexposedIsSingle'
    BY <2>1, <2>a DEF Emit
  <2>2. CASE HandleUpdate
    <3> DEFINE u == log[cursor + 1]
               fresh == IF Seen(lru, u.msg) THEN {} ELSE Targets(ChatOf[u.msg], u.body)
               new == {NewJob("live", cursor + 1, t[1], u.msg, t[2]) : t \in fresh}
    <3>1. Spawn(new)
      BY <2>2 DEF HandleUpdate
    <3>2. \A j \in new : j.pc = "check"
      BY DEF NewJob
    <3>3. ASSUME NEW i \in new, NEW j \in new, Pair(i) = Pair(j)
          PROVE  i = j
      <4>1. PICK s \in fresh : i = NewJob("live", cursor + 1, s[1], u.msg, s[2])
        OBVIOUS
      <4>2. PICK t \in fresh : j = NewJob("live", cursor + 1, t[1], u.msg, t[2])
        OBVIOUS
      <4>3. s[2] = t[2]
        BY <3>3, <4>1, <4>2 DEF NewJob, Pair
      <4>4. s \in Targets(ChatOf[u.msg], u.body) /\ t \in Targets(ChatOf[u.msg], u.body)
        OBVIOUS
      <4> HIDE DEF u, fresh
      <4>5. s = t
        BY <4>3, <4>4, TargetsOnce DEF RelayAssumption
      <4>6. QED BY <4>1, <4>2, <4>5
    <3>4. UNCHANGED <<copies, orphans, pruned, doubted>>
      BY <2>2 DEF HandleUpdate
    <3> HIDE DEF new
    <3>5. QED BY <3>1, <3>2, <3>3, <3>4, SingleSpawn
  <2>3. ASSUME NEW j \in jobs, JobStep(j)
        PROVE  UnexposedIsSingle'
    <3> jobs \subseteq Job /\ j \in Job /\ copies \in [Pairs -> Nat]
      BY DEF TypeOK
    <3> Pair(j) \in Pairs
      BY PairType
    <3>1. CASE CheckStore(j)
      <4>1. CASE AlreadyRelayed(Pair(j))
        BY <3>1, <4>1, <2>a DEF CheckStore, Finish
      <4>2. CASE ~AlreadyRelayed(Pair(j))
        <5> SUFFICES ASSUME NEW p \in Pairs, ~Exposed(p)'
                     PROVE  Single(p)'
          BY DEF UnexposedIsSingle, Pairs
        <5>1. ~Exposed(p) /\ Single(p) /\ copies' = copies /\ Move(j, "post", 0) /\ j.pc = "check"
          BY <3>1, <4>2 DEF CheckStore, Exposed, UnexposedIsSingle
        <5>2. ASSUME Pair(j) = p
              PROVE  copies[p] = 0
          <6>1. ASSUME NEW n \in 1..copies[p]
                PROVE  FALSE
            <7>1. <<p[1], p[2], n>> \in rows \cup pruned \cup orphans \cup Pending
              BY DEF Accounted
            <7>2. <<p[1], p[2]>> = p
              BY DEF Pairs
            <7>3. <<p[1], p[2], n>> \notin rows
              BY <4>2, <5>2, <7>2 DEF AlreadyRelayed
            <7>4. <<p[1], p[2], n>> \notin pruned \cup orphans
              BY <5>1, <7>2 DEF Exposed
            <7>5. PICK i \in jobs : i.pc = "record" /\ IdOf(i) = <<p[1], p[2], n>>
              BY <7>1, <7>3, <7>4 DEF Pending, Recording
            <7>6. Pair(i) = p
              BY <7>2, <7>5 DEF IdOf, Pair
            <7>7. QED BY <5>1, <5>2, <7>5, <7>6 DEF Single
          <6>2. QED BY <6>1
        <5>3. QED BY <5>1, <5>2, SingleMove DEF Single
      <4>3. QED BY <4>1, <4>2
    <3>2. CASE CheckError(j)
      <4> SUFFICES ASSUME NEW p \in Pairs, ~Exposed(p)'
                   PROVE  Single(p)'
        BY DEF UnexposedIsSingle, Pairs
      <4>1. ~Exposed(p) /\ Single(p) /\ copies' = copies /\ Move(j, "post", 0) /\ p # Pair(j)
        BY <3>2 DEF CheckError, Exposed, UnexposedIsSingle
      <4>2. QED BY <4>1, SingleMove DEF Single
    <3>3. CASE PostDelivered(j)
      <4> SUFFICES ASSUME NEW p \in Pairs, ~Exposed(p)'
                   PROVE  Single(p)'
        BY DEF UnexposedIsSingle, Pairs
      <4>1. ~Exposed(p) /\ Single(p) /\ j.pc = "post" /\ Move(j, "record", copies[Pair(j)] + 1)
            /\ copies' = [copies EXCEPT ![Pair(j)] = @ + 1]
        BY <3>3 DEF PostDelivered, Exposed, UnexposedIsSingle
      <4>2. CASE p = Pair(j)
        <5>1. copies[p] = 0 /\ copies'[p] = 1
          BY <4>1, <4>2 DEF Single
        <5>2. QED BY <4>1, <4>2, <5>1, SingleMove
      <4>3. CASE p # Pair(j)
        <5>1. copies'[p] = copies[p]
          BY <4>1, <4>3
        <5>2. QED BY <4>1, <4>3, <5>1, SingleMove DEF Single
      <4>4. QED BY <4>2, <4>3
    <3>4. CASE PostLostReply(j)
      <4> SUFFICES ASSUME NEW p \in Pairs, ~Exposed(p)'
                   PROVE  Single(p)'
        BY DEF UnexposedIsSingle, Pairs
      <4>1. orphans \subseteq orphans' /\ UNCHANGED <<jobs, pruned, doubted, overlapped>>
            /\ copies' = [copies EXCEPT ![Pair(j)] = @ + 1]
            /\ <<j.msg, j.hook, copies[Pair(j)] + 1>> \in orphans'
        BY <3>4 DEF PostLostReply
      <4>2. ~Exposed(p)
        BY <4>1 DEF Exposed
      <4>3. p # Pair(j)
        BY <4>1 DEF Exposed, Pair
      <4>4. copies'[p] = copies[p]
        BY <4>1, <4>3
      <4>5. QED BY <4>1, <4>2, <4>4, SingleFewer DEF UnexposedIsSingle
    <3>5. CASE PostDropped(j)
      BY <3>5, <2>a DEF PostDropped, Finish
    <3>6. CASE RecordRow(j)
      BY <3>6, <2>a DEF RecordRow, Finish
    <3>7. CASE RecordError(j)
      BY <3>7, <2>a DEF RecordError, Finish
    <3>8. QED
      BY <2>3, <3>1, <3>2, <3>3, <3>4, <3>5, <3>6, <3>7 DEF JobStep
  <2>4. CASE Stop
    BY <2>4, <2>a DEF Stop
  <2>5. ASSUME NEW r \in Routes, BackfillStart(r)
        PROVE  UnexposedIsSingle'
    BY <2>5, <2>a DEF BackfillStart
  <2>6. ASSUME NEW d \in todo, BackfillNext(d)
        PROVE  UnexposedIsSingle'
    <3> DEFINE new == {NewJob("backfill", 0, d[1], d[2], d[3])}
    <3>1. Spawn(new) /\ \A j \in new : j.pc = "check"
      BY <2>6 DEF BackfillNext, NewJob
    <3>2. \A i, j \in new : Pair(i) = Pair(j) => i = j
      OBVIOUS
    <3>3. UNCHANGED <<copies, orphans, pruned, doubted>>
      BY <2>6 DEF BackfillNext
    <3> HIDE DEF new
    <3>4. QED BY <3>1, <3>2, <3>3, SingleSpawn
  <2>7. CASE BackfillCrash
    BY <2>7, <2>a DEF BackfillCrash, Live
  <2>8. CASE Restart \/ SyncState \/ HorizonPasses \/ Prune \/ UNCHANGED vars
    BY <2>8, <2>a DEF Restart, SyncState, HorizonPasses, Prune, vars
  <2>9. QED
    BY <2>1, <2>2, <2>3, <2>4, <2>5, <2>6, <2>7, <2>8
       DEF Next, Publish, Edit, Crash, Shutdown
<1>3. QED BY <1>1, <1>2, TypeCorrect, AccountedAlways, PTL DEF Spec

(* A message appears twice on a webhook only when the pair was exposed: by  *)
(* a Discord message no row names, an unreadable store, or two deliveries   *)
(* of it in flight at once (spawn_embed, backfill, send_json_capture).      *)
THEOREM RepeatsAreExposedAlways == Spec => []RepeatsAreExposed
<1>1. TypeOK /\ UnexposedIsSingle => RepeatsAreExposed
  BY DEF TypeOK, UnexposedIsSingle, Single, RepeatsAreExposed
<1>2. QED BY <1>1, TypeCorrect, UnexposedIsSingleAlways, PTL

(***************************************************************************)
(* The relay implements DeliveryPromise.                                   *)
(***************************************************************************)

(* Every delivery in flight or queued was asked for by some route.         *)
AskedFor ==
    /\ \A m \in Published : \E i \in 1..Len(log) : log[i].msg = m /\ log[i].body = body[m]
    /\ \A j \in jobs : Pair(j) \in Wanted
    /\ \A d \in todo : <<d[2], d[3]>> \in Wanted

(* What a step can do to the log, to the histories and to Discord. *)
StepEffect ==
    /\ UNCHANGED log \/ \E m \in Msgs, b \in Bodies : Emit(m, b)
    /\ orphans \subseteq orphans' /\ pruned \subseteq pruned'
    /\ doubted \subseteq doubted' /\ overlapped \subseteq overlapped'
    /\ \/ copies' = copies
       \/ \E j \in jobs : j.pc = "post" /\ copies' = [copies EXCEPT ![Pair(j)] = @ + 1]

(* Every step has one of these effects. *)
LEMMA StepEffects ==
    ASSUME [Next]_vars
    PROVE  StepEffect
<1> USE DEF telegram, session, loop, backfill, store, history
<1>1. ASSUME NEW m \in Msgs, NEW b \in Bodies, Emit(m, b)
      PROVE  StepEffect
  BY <1>1 DEF Emit, StepEffect
<1>2. CASE HandleUpdate
  BY <1>2 DEF HandleUpdate, Spawn, StepEffect
<1>3. ASSUME NEW j \in jobs, JobStep(j)
      PROVE  StepEffect
  <2>1. CASE CheckStore(j) \/ CheckError(j) \/ PostDropped(j)
    BY <2>1 DEF CheckStore, CheckError, PostDropped, StepEffect
  <2>2. CASE PostDelivered(j) \/ PostLostReply(j)
    BY <2>2 DEF PostDelivered, PostLostReply, StepEffect
  <2>3. CASE RecordRow(j) \/ RecordError(j)
    BY <2>3 DEF RecordRow, RecordError, StepEffect
  <2>4. QED BY <1>3, <2>1, <2>2, <2>3 DEF JobStep
<1>4. CASE Crash \/ Shutdown
  BY <1>4 DEF Crash, Shutdown, Stop, StepEffect
<1>5. CASE Restart \/ SyncState \/ HorizonPasses \/ Prune \/ BackfillCrash
  BY <1>5 DEF Restart, SyncState, HorizonPasses, Prune, BackfillCrash, StepEffect
<1>6. ASSUME NEW r \in Routes, BackfillStart(r)
      PROVE  StepEffect
  BY <1>6 DEF BackfillStart, StepEffect
<1>7. ASSUME NEW d \in todo, BackfillNext(d)
      PROVE  StepEffect
  BY <1>7 DEF BackfillNext, Spawn, StepEffect
<1>8. CASE UNCHANGED vars
  BY <1>8 DEF vars, StepEffect
<1>9. QED
  BY <1>1, <1>2, <1>3, <1>4, <1>5, <1>6, <1>7, <1>8 DEF Next, Publish, Edit

(* What a route asked for stays asked for. *)
LEMMA WantedGrows ==
    ASSUME TypeOK, [Next]_vars
    PROVE  Wanted \subseteq Wanted' /\ Len(log) <= Len(log')
           /\ \A i \in 1..Len(log) : log'[i] = log[i]
<1> USE DEF telegram, session, loop, backfill, store, history
<1>1. ASSUME NEW m \in Msgs, NEW b \in Bodies, Emit(m, b)
      PROVE  Len(log) <= Len(log') /\ \A i \in 1..Len(log) : log'[i] = log[i]
  BY <1>1 DEF Emit, TypeOK
<1>2. CASE UNCHANGED log
  BY <1>2 DEF Wanted, TypeOK
<1>3. UNCHANGED log \/ \E m \in Msgs, b \in Bodies : Emit(m, b)
  BY StepEffects DEF StepEffect
<1>4. ASSUME Len(log) <= Len(log') /\ \A i \in 1..Len(log) : log'[i] = log[i],
             NEW p \in Wanted, Len(log) \in Nat, Len(log') \in Nat
      PROVE  p \in Wanted'
  <2>1. PICK i \in 1..Len(log), r \in Routes :
           /\ log[i].msg = p[1] /\ RouteChat[r] = ChatOf[p[1]]
           /\ log[i].body \in Passes[r] /\ p[2] \in To[r]
    BY DEF Wanted
  <2>2. i \in 1..Len(log') /\ log'[i] = log[i]
    BY <1>4
  <2>3. QED BY <2>1, <2>2 DEF Wanted, Pairs
<1>5. ASSUME NEW m \in Msgs, NEW b \in Bodies, Emit(m, b)
      PROVE  Len(log) \in Nat /\ Len(log') \in Nat
  BY <1>5 DEF Emit, TypeOK
<1>6. QED BY <1>1, <1>2, <1>3, <1>4, <1>5 DEF TypeOK

(* Everything a task or a backfill is about to deliver was asked for by a   *)
(* route, at some version of the message.                                   *)
LEMMA AskedForAlways == Spec => []AskedFor
<1> USE RelayAssumption
<1> USE DEF telegram, session, loop, backfill, store, history
<1>1. Init => AskedFor
  BY DEF Init, AskedFor, Published
<1>2. TypeOK /\ AskedFor /\ [Next]_vars => AskedFor'
  <2> SUFFICES ASSUME TypeOK, AskedFor, [Next]_vars
               PROVE  AskedFor'
    OBVIOUS
  <2>w. Wanted \subseteq Wanted' /\ Len(log) <= Len(log')
        /\ \A i \in 1..Len(log) : log'[i] = log[i]
    BY WantedGrows
  (* Steps that move jobs along without publishing or spawning. *)
  <2>a. ASSUME UNCHANGED <<body, log>>, todo' \subseteq todo,
               \A j \in jobs' : \E i \in jobs : Pair(j) = Pair(i)
        PROVE  AskedFor'
    BY <2>a, <2>w DEF AskedFor, Published, Pair
  <2>1. ASSUME NEW m \in Msgs, NEW b \in Bodies, Emit(m, b)
        PROVE  AskedFor'
    <3>1. ASSUME NEW q \in Published'
          PROVE  \E i \in 1..Len(log') : log'[i].msg = q /\ log'[i].body = body'[q]
      <4>0. Len(log) \in Nat /\ Len(log') = Len(log) + 1 /\ body' = [body EXCEPT ![m] = b]
            /\ body \in [Msgs -> Bodies \cup {"none"}] /\ q \in Msgs
            /\ log'[Len(log) + 1] = [msg |-> m, body |-> b]
        BY <2>1 DEF Emit, TypeOK, Published
      <4>1. CASE q = m
        <5>1. Len(log) + 1 \in 1..Len(log')
          BY <4>0
        <5>2. QED BY <4>0, <4>1, <5>1
      <4>2. CASE q # m
        <5>1. body'[q] = body[q] /\ q \in Published
          BY <4>0, <4>2 DEF Published
        <5>2. PICK i \in 1..Len(log) : log[i].msg = q /\ log[i].body = body[q]
          BY <5>1 DEF AskedFor
        <5>3. i \in 1..Len(log') /\ log'[i] = log[i]
          BY <4>0, <2>w
        <5>4. QED BY <5>1, <5>2, <5>3
      <4>3. QED BY <4>1, <4>2
    <3>2. UNCHANGED <<jobs, todo>>
      BY <2>1 DEF Emit
    <3>3. QED BY <3>1, <3>2, <2>w DEF AskedFor, Pair
  <2>2. CASE HandleUpdate
    <3> DEFINE u == log[cursor + 1]
               fresh == IF Seen(lru, u.msg) THEN {} ELSE Targets(ChatOf[u.msg], u.body)
               new == {NewJob("live", cursor + 1, t[1], u.msg, t[2]) : t \in fresh}
    <3>1. jobs' = jobs \cup new /\ UNCHANGED <<body, log, todo>>
      BY <2>2 DEF HandleUpdate, Spawn
    <3>0. cursor + 1 \in 1..Len(log)
      BY <2>2 DEF HandleUpdate, TypeOK
    <3>1a. u \in Update
      BY <3>0 DEF TypeOK
    <3>2. cursor + 1 \in 1..Len(log) /\ u.msg \in Msgs
      BY <3>0, <3>1a DEF Update
    <3>3. ASSUME NEW j \in new
          PROVE  Pair(j) \in Wanted
      <4>1. PICK t \in fresh : j = NewJob("live", cursor + 1, t[1], u.msg, t[2])
        OBVIOUS
      <4>2. t[1] \in Routes /\ t[2] \in Webhooks /\ t[2] \in To[t[1]]
            /\ RouteChat[t[1]] = ChatOf[u.msg] /\ u.body \in Passes[t[1]]
        BY DEF Targets, Matching
      <4>3. Pair(j) = <<u.msg, t[2]>>
        BY <4>1 DEF NewJob, Pair
      <4>4. QED BY <3>2, <4>2, <4>3 DEF Wanted, Pairs
    <3> HIDE DEF new
    <3>4. QED BY <3>1, <3>3, <2>w DEF AskedFor, Pair, Published
  <2>3. ASSUME NEW j \in jobs, JobStep(j)
        PROVE  AskedFor'
    <3> j \in Job
      BY DEF TypeOK
    <3>1. ASSUME NEW pc, NEW n
          PROVE  Pair([j EXCEPT !.pc = pc, !.copy = n]) = Pair(j)
      BY DEF Pair, Job
    <3>2. UNCHANGED <<body, log, todo>>
      BY <2>3 DEF JobStep, CheckStore, CheckError, PostDelivered, PostLostReply,
                  PostDropped, RecordRow, RecordError
    <3>3. \/ jobs' \subseteq jobs
          \/ \E pc, n : Move(j, pc, n)
      BY <2>3 DEF JobStep, CheckStore, CheckError, PostDelivered, PostLostReply,
                  PostDropped, RecordRow, RecordError, Finish
    <3>4. \A i \in jobs' : \E k \in jobs : Pair(i) = Pair(k)
      BY <3>1, <3>3 DEF Move
    <3>5. QED BY <3>2, <3>4, <2>a
  <2>4. CASE Stop
    BY <2>4, <2>a DEF Stop
  <2>5. ASSUME NEW r \in Routes, BackfillStart(r)
        PROVE  AskedFor'
    <3>1. UNCHANGED <<body, log, jobs>>
          /\ todo' = {<<r, m, w>> : m \in {q \in Recent(RouteChat[r]) : body[q] \in Passes[r]}, w \in To[r]}
      BY <2>5 DEF BackfillStart
    <3>2. ASSUME NEW d \in todo'
          PROVE  <<d[2], d[3]>> \in Wanted
      <4>1. PICK m \in Recent(RouteChat[r]), w \in To[r] : d = <<r, m, w>> /\ body[m] \in Passes[r]
        BY <3>1
      <4>2. m \in Published /\ m \in Msgs /\ ChatOf[m] = RouteChat[r]
        BY <4>1 DEF Recent, Published
      <4>3. PICK i \in 1..Len(log) : log[i].msg = m /\ log[i].body = body[m]
        BY <4>2 DEF AskedFor
      <4>4. RouteChat[r] = ChatOf[m] /\ log[i].body \in Passes[r]
        BY <4>1, <4>2, <4>3
      <4>5. w \in Webhooks
        BY DEF RelayAssumption
      <4>6. <<m, w>> \in Wanted
        BY <4>2, <4>3, <4>4, <4>5 DEF Wanted, Pairs
      <4>7. QED BY <4>1, <4>6
    <3>3. QED BY <3>1, <3>2, <2>w DEF AskedFor, Published, Pair
  <2>6. ASSUME NEW d \in todo, BackfillNext(d)
        PROVE  AskedFor'
    <3>1. Pair(NewJob("backfill", 0, d[1], d[2], d[3])) = <<d[2], d[3]>>
      BY DEF NewJob, Pair
    <3>2. jobs' = jobs \cup {NewJob("backfill", 0, d[1], d[2], d[3])} /\ todo' \subseteq todo
          /\ UNCHANGED <<body, log>>
      BY <2>6 DEF BackfillNext, Spawn
    <3>3. QED BY <3>1, <3>2, <2>w DEF AskedFor, Published, Pair
  <2>7. CASE BackfillCrash
    BY <2>7, <2>a DEF BackfillCrash, Live
  <2>8. CASE Restart \/ SyncState \/ HorizonPasses \/ Prune \/ UNCHANGED vars
    BY <2>8, <2>a DEF Restart, SyncState, HorizonPasses, Prune, vars
  <2>9. QED
    BY <2>1, <2>2, <2>3, <2>4, <2>5, <2>6, <2>7, <2>8
       DEF Next, Publish, Edit, Crash, Shutdown
<1>3. QED BY <1>1, <1>2, TypeCorrect, PTL DEF Spec

(* Delivery implements DeliveryPromise: handle_update, spawn_embed and      *)
(* backfill post nothing that no route asked for, and nothing a second time *)
(* that had no excuse before.                                               *)
THEOREM PromiseKept == Spec => KeepsPromise
<1> USE RelayAssumption
<1> USE DEF telegram, session, loop, backfill, store, history
<1>1. Init => Promise!Init
  BY DEF Init, Promise!Init, Wanted, Exposed
<1>2. TypeOK /\ AskedFor /\ AskedFor' /\ TypeOK' /\ UnexposedIsSingle /\ [Next]_vars
      => Promise!Next
  <2> SUFFICES ASSUME TypeOK, TypeOK', UnexposedIsSingle, AskedFor, [Next]_vars
               PROVE  Promise!Next
    OBVIOUS
  <2>1. Wanted \subseteq Wanted' /\ Wanted' \subseteq Pairs
    BY WantedGrows DEF Wanted, Pairs
  <2>2. orphans \subseteq orphans' /\ pruned \subseteq pruned'
        /\ doubted \subseteq doubted' /\ overlapped \subseteq overlapped'
    BY StepEffects DEF StepEffect
  <2>3. {p \in Pairs : Exposed(p)} \subseteq {p \in Pairs : Exposed(p)}'
    BY <2>2 DEF Exposed, Pairs
  <2>4. copies' = copies \/ \E j \in jobs : j.pc = "post" /\ copies' = [copies EXCEPT ![Pair(j)] = @ + 1]
    BY StepEffects DEF StepEffect
  <2>5. CASE copies' = copies
    BY <2>1, <2>3, <2>5 DEF Promise!Next, Pairs
  <2>6. ASSUME NEW j \in jobs, j.pc = "post", copies' = [copies EXCEPT ![Pair(j)] = @ + 1]
        PROVE  Promise!Next
    <3> DEFINE p == Pair(j)
    <3>1. p \in Pairs /\ p \in Wanted /\ copies \in [Pairs -> Nat]
      BY PairType DEF TypeOK, AskedFor
    <3>2. copies'[p] = copies[p] + 1 /\ \A q \in Pairs : q # p => copies'[q] = copies[q]
      BY <2>6, <3>1
    <3>3. CASE copies[p] = 0
      <4>1. {q \in Pairs : copies[q] > 0}' = {q \in Pairs : copies[q] > 0} \cup {p}
        BY <3>1, <3>2, <3>3 DEF Pairs
      <4>2. {q \in Pairs : copies[q] > 1}' = {q \in Pairs : copies[q] > 1}
        BY <3>1, <3>2, <3>3 DEF Pairs
      <4>3. p \notin {q \in Pairs : copies[q] > 0}
        BY <3>3
      <4>4. Promise!Post(p)
        BY <3>1, <4>1, <4>2, <4>3 DEF Promise!Post
      <4>5. QED BY <2>1, <2>3, <3>1, <4>4 DEF Promise!Next
    <3>4. CASE copies[p] # 0
      <4>0. copies[p] \in Nat /\ copies[p] > 0
        BY <3>1, <3>4
      <4>1. Exposed(p)
        BY <2>6, <3>1, <3>4 DEF UnexposedIsSingle, Single
      <4>2. {q \in Pairs : copies[q] > 0}' = {q \in Pairs : copies[q] > 0}
        BY <3>1, <3>2, <4>0 DEF Pairs
      <4>3. {q \in Pairs : copies[q] > 1}' = {q \in Pairs : copies[q] > 1} \cup {p}
        BY <3>1, <3>2, <4>0 DEF Pairs
      <4>4. p \in {q \in Pairs : copies[q] > 0} \cap {q \in Pairs : Exposed(q)}
        BY <3>1, <4>0, <4>1
      <4>5. Promise!Post(p)
        BY <3>1, <4>2, <4>3, <4>4 DEF Promise!Post
      <4>6. QED BY <2>1, <2>3, <3>1, <4>5 DEF Promise!Next
    <3>5. QED BY <3>3, <3>4
  <2>7. QED BY <2>4, <2>5, <2>6
<1>3. QED
  BY <1>1, <1>2, TypeCorrect, AskedForAlways, UnexposedIsSingleAlways, PTL
     DEF Spec, KeepsPromise, Promise!Spec
-----------------------------------------------------------------------------
(* Two tasks for one pair need a burst.                                    *)

(* The updates as the LRU hears of them. *)
LEMMA StreamIs ==
    ASSUME TypeOK
    PROVE  /\ Len(log) \in Nat /\ cursor \in Nat /\ cursor <= Len(log)
           /\ \A k \in 1..Len(log) : Stream[k] = log[k].msg /\ Stream[k] \in Msgs
<1>1. \A k \in 1..Len(log) : log[k] \in Update
  BY DEF TypeOK
<1>2. \A k \in 1..Len(log) : log[k].msg \in Msgs
  BY <1>1 DEF Update
<1>3. QED BY <1>2 DEF Stream, TypeOK

(* A step leaves of the stream what was there.                             *)
LEMMA StreamStays ==
    ASSUME TypeOK, [Next]_vars
    PROVE  /\ Len(log) <= Len(log')
           /\ \A k \in 1..Len(log) : log'[k] = log[k] /\ Stream'[k] = Stream[k]
           /\ \A a \in 1..Len(log), b \in 0..Len(log) :
                 Burst(Stream', a, b) = Burst(Stream, a, b)
           /\ \A i \in 1..Len(log) :
                 News(Stream', i, DedupCap) <=> News(Stream, i, DedupCap)
           /\ Recalls(lru, Stream, cursor) => Recalls(lru, Stream', cursor)
<1>1. /\ Len(log) <= Len(log') /\ Len(log) \in Nat /\ cursor \in 0..Len(log)
      /\ \A k \in 1..Len(log) : log'[k] = log[k]
  BY WantedGrows DEF TypeOK
<1>2. Len(log') \in Nat
  <2>1. ASSUME NEW m \in Msgs, NEW b \in Bodies, Emit(m, b)
        PROVE  Len(log') \in Nat
    BY <2>1 DEF Emit, TypeOK
  <2>2. QED BY <1>1, <2>1, StepEffects DEF StepEffect
<1>3. \A k \in 1..Len(log) : Stream'[k] = Stream[k]
  BY <1>1, <1>2 DEF Stream
<1> DEFINE h == Stream
           g == Stream'
           n == Len(log)
<1>4. n \in Nat /\ cursor \in 0..n /\ \A k \in 1..n : g[k] = h[k]
  BY <1>1, <1>3
<1> HIDE DEF h, g, n
<1>5. /\ \A a \in 1..n, b \in 0..n : Burst(g, a, b) = Burst(h, a, b)
      /\ \A i \in 1..n : News(g, i, DedupCap) <=> News(h, i, DedupCap)
      /\ Recalls(lru, h, cursor) => Recalls(lru, g, cursor)
  BY <1>4, SamePast
<1>6. QED BY <1>1, <1>3, <1>5 DEF h, g, n

(* The messages since the k-th update were the latest, or too many.        *)
Heard(k) == Retained(lru, Burst(Stream, k, cursor), DedupCap)

(* What the LRU knows, the stream brought before, in that order.           *)
Memory == Distinct(lru) /\ Recalls(lru, Stream, cursor)

(* An update keeps the memory, and the messages since the k-th update in   *)
(* the LRU, or there are too many of them.                                 *)
LEMMA HeardGoesOn ==
    ASSUME TypeOK, Memory, HandleUpdate
    PROVE  /\ Memory'
           /\ \A k \in 1..(cursor + 1) : (k <= cursor => Heard(k)) => Heard(k)'
<1> USE RelayAssumption
<1> DEFINE m == Stream[cursor + 1]
<1>1. /\ cursor \in Nat /\ cursor' = cursor + 1 /\ log' = log /\ lru' = Touch(lru, m, DedupCap)
      /\ lru \in Seq(Msgs) /\ Len(lru) <= DedupCap /\ m \in Msgs
  <2>1. cursor \in Nat /\ cursor' = cursor + 1 /\ log' = log /\ cursor + 1 \in 1..Len(log)
        /\ lru' = Touch(lru, log[cursor + 1].msg, DedupCap)
    BY DEF HandleUpdate, telegram, TypeOK
  <2>2. m = log[cursor + 1].msg /\ m \in Msgs
    BY <2>1, StreamIs
  <2>3. QED BY <2>1, <2>2 DEF TypeOK
<1>2. Stream' = Stream
  BY <1>1 DEF Stream
<1>3. Distinct(lru) /\ Recalls(lru, Stream, cursor) /\ DedupCap \in Nat \ {0}
  BY DEF Memory
<1> DEFINE h == Stream
<1> HIDE DEF h
<1>4. /\ lru' = Touch(lru, h[cursor + 1], DedupCap) /\ h[cursor + 1] \in Msgs
      /\ Recalls(lru, h, cursor)
  BY <1>1, <1>3 DEF h
<1>5. Recalls(Touch(lru, h[cursor + 1], DedupCap), h, cursor + 1)
  BY <1>1, <1>3, <1>4, RecallsOn
<1>6. Distinct(Touch(lru, h[cursor + 1], DedupCap))
  <2>1. After(lru, Len(lru)) = {} /\ Len(lru) \in 0..Len(lru)
    BY <1>1 DEF After
  <2>2. Latest(lru, {})
    BY <2>1 DEF Latest
  <2>3. QED BY <1>1, <1>3, <1>4, <2>2, TouchKeepsLatest
<1>7. Memory'
  <2>1. Recalls(lru', Stream', cursor')
    BY <1>1, <1>2, <1>4, <1>5 DEF h
  <2>2. Distinct(lru')
    BY <1>4, <1>6
  <2>3. QED BY <2>1, <2>2 DEF Memory
<1>8. ASSUME NEW k \in 1..(cursor + 1), k <= cursor => Heard(k)
      PROVE  Heard(k)'
  <2>1. k <= cursor => Retained(lru, Burst(h, k, cursor), DedupCap)
    BY <1>8 DEF Heard, h
  <2>2. Retained(Touch(lru, h[cursor + 1], DedupCap), Burst(h, k, cursor + 1), DedupCap)
    BY <1>1, <1>3, <1>4, <2>1, RetainedOn
  <2>3. Retained(lru', Burst(Stream', k, cursor'), DedupCap)
    BY <1>1, <1>2, <1>4, <2>2 DEF h
  <2>4. QED BY <2>3 DEF Heard
<1>9. QED BY <1>7, <1>8

(* What a task delivers was heard of in this life of the process, and what *)
(* was heard of since is the latest in the LRU, if there is room for it.   *)
Started(i, m) == i \in 1..cursor /\ log[i].msg = m

Remembered ==
    /\ Memory
    /\ \A j \in Live : /\ Started(j.upd, j.msg)
                       /\ \A k \in j.upd..cursor : Heard(k)

(* A burst between the updates a and b, after the last one of message m.   *)
Overflowed(a, b, m) ==
    /\ a < b
    /\ \A k \in a..(b - 1) :
          log[k].msg = m => Cardinality(Burst(Stream, k, b - 1)) > DedupCap

(* What was consumed stays, so neither memory nor bursts change while the  *)
(* run loop consumes nothing.                                              *)
LEMMA HistoryStays ==
    ASSUME TypeOK, [Next]_vars, UNCHANGED <<cursor, lru>>
    PROVE  /\ \A i, m : Started(i, m) => Started(i, m)'
           /\ \A k \in 1..cursor : Heard(k) => Heard(k)'
           /\ Memory => Memory'
           /\ \A a, b \in 1..cursor : \A m : Overflowed(a, b, m) => Overflowed(a, b, m)'
<1>1. /\ cursor \in Nat /\ Len(log) \in Nat /\ cursor <= Len(log)
      /\ \A k \in 1..cursor : k \in 1..Len(log) /\ log'[k] = log[k]
  <2>1. cursor \in Nat /\ Len(log) \in Nat /\ cursor <= Len(log)
    BY DEF TypeOK
  <2>2. \A k \in 1..cursor : k \in 1..Len(log)
    BY <2>1
  <2>3. QED BY <2>1, <2>2, StreamStays
<1>2. \A a \in 1..cursor, b \in 0..cursor : Burst(Stream', a, b) = Burst(Stream, a, b)
  BY <1>1, StreamStays
<1>3. ASSUME NEW k \in 1..cursor, Heard(k)
      PROVE  Heard(k)'
  <2>1. cursor \in 0..cursor
    BY <1>1
  <2>2. Retained(lru', Burst(Stream', k, cursor'), DedupCap)
    BY <1>2, <1>3, <2>1 DEF Heard
  <2>3. QED BY <2>2 DEF Heard
<1>4. ASSUME Memory
      PROVE  Memory'
  <2>1. Recalls(lru', Stream', cursor') /\ Distinct(lru')
    BY <1>4, StreamStays DEF Memory
  <2>2. QED BY <2>1 DEF Memory
<1>5. ASSUME NEW a \in 1..cursor, NEW b \in 1..cursor, NEW m, Overflowed(a, b, m)
      PROVE  Overflowed(a, b, m)'
  <2>1. b - 1 \in 0..cursor /\ \A k \in a..(b - 1) : k \in 1..cursor
    BY <1>1
  <2>2. \A k \in a..(b - 1) : Burst(Stream', k, b - 1) = Burst(Stream, k, b - 1)
                              /\ log'[k] = log[k]
    BY <1>1, <1>2, <2>1
  <2>3. /\ a < b
        /\ \A k \in a..(b - 1) :
              log'[k].msg = m => Cardinality(Burst(Stream', k, b - 1)) > DedupCap
    BY <1>5, <2>2 DEF Overflowed
  <2>4. QED BY <2>3 DEF Overflowed
<1>6. \A i, m : Started(i, m) => Started(i, m)'
  BY <1>1 DEF Started
<1>7. QED BY <1>3, <1>4, <1>5, <1>6

(* Each task that is left stands for one that was there, under the same    *)
(* update, and no two of them for the same.                                *)
Stands(was) ==
    /\ \A j \in Live' : /\ was[j] \in Live /\ Pair(was[j]) = Pair(j)
                        /\ was[j].upd = j.upd /\ was[j].msg = j.msg
    /\ \A i, j \in Live' : was[i] = was[j] => i = j

(* The pairs of tasks that need a burst between them.                      *)
OverlapFor(i, j) == Pair(i) = Pair(j) /\ i # j /\ i.upd <= j.upd

(* As long as the run loop consumes nothing, no task begins.               *)
LEMMA OverlapStays ==
    ASSUME TypeOK, Remembered, OverlapNeedsABurst,
           [Next]_vars, UNCHANGED <<cursor, lru>>, NEW was, Stands(was)
    PROVE  Remembered' /\ OverlapNeedsABurst'
<1>1. /\ \A i, m : Started(i, m) => Started(i, m)'
      /\ \A k \in 1..cursor : Heard(k) => Heard(k)'
      /\ Memory => Memory'
      /\ \A a, b \in 1..cursor : \A m : Overflowed(a, b, m) => Overflowed(a, b, m)'
  BY HistoryStays
<1>2. Memory'
  BY <1>1 DEF Remembered
<1>3. ASSUME NEW j \in Live'
      PROVE  /\ Started(j.upd, j.msg)'
             /\ \A k \in j.upd..cursor : Heard(k)'
  <2>1. /\ Started(j.upd, j.msg)
        /\ \A k \in j.upd..cursor : Heard(k)
    BY <1>3 DEF Remembered, Stands
  <2>2. j.upd \in 1..cursor
    BY <2>1 DEF Started
  <2>3. \A k \in j.upd..cursor : k \in 1..cursor
    BY <2>2
  <2>4. Started(j.upd, j.msg)'
    BY <1>1, <2>1
  <2>5. QED BY <1>1, <2>1, <2>3, <2>4
<1>4. ASSUME NEW i \in Live', NEW j \in Live', OverlapFor(i, j)
      PROVE  Overflowed(i.upd, j.upd, i.msg)'
  <2>1. /\ was[i] \in Live /\ was[j] \in Live
        /\ OverlapFor(was[i], was[j])
        /\ was[i].upd = i.upd /\ was[j].upd = j.upd /\ was[i].msg = i.msg
    BY <1>4 DEF Stands, OverlapFor
  <2>2. Overflowed(i.upd, j.upd, i.msg)
    BY <2>1 DEF OverlapNeedsABurst, OverlapFor, Overflowed
  <2>3. i.upd \in 1..cursor /\ j.upd \in 1..cursor
    BY <2>1 DEF Remembered, Started
  <2>4. QED BY <1>1, <2>2, <2>3
<1>5. Remembered'
  BY <1>2, <1>3 DEF Remembered
<1>6. OverlapNeedsABurst'
  BY <1>4 DEF OverlapNeedsABurst, OverlapFor, Overflowed, Pair
<1>7. QED BY <1>5, <1>6

(* The run loop begins a task for a message it does not remember; that of  *)
(* an earlier one for the same pair must have been pushed out.             *)
LEMMA BegunAfterABurst ==
    ASSUME TypeOK, Remembered, OverlapNeedsABurst, HandleUpdate
    PROVE  Remembered' /\ OverlapNeedsABurst'
<1> USE RelayAssumption
<1> DEFINE u == log[cursor + 1]
           fresh == IF Seen(lru, u.msg) THEN {} ELSE Targets(ChatOf[u.msg], u.body)
           new == {NewJob("live", cursor + 1, t[1], u.msg, t[2]) : t \in fresh}
<1>1. /\ cursor \in Nat /\ cursor' = cursor + 1 /\ log' = log /\ jobs' = jobs \cup new
  BY DEF HandleUpdate, telegram, Spawn, TypeOK
<1>2. \A j \in new : j.src = "live" /\ j.msg = u.msg /\ j.upd = cursor + 1 /\ ~Seen(lru, u.msg)
  BY DEF NewJob
<1>3. ASSUME NEW i \in new, NEW j \in new, Pair(i) = Pair(j)
      PROVE  i = j
  <2>1. PICK s \in fresh : i = NewJob("live", cursor + 1, s[1], u.msg, s[2])
    OBVIOUS
  <2>2. PICK t \in fresh : j = NewJob("live", cursor + 1, t[1], u.msg, t[2])
    OBVIOUS
  <2>3. s[2] = t[2]
    BY <1>3, <2>1, <2>2 DEF NewJob, Pair
  <2>4. s \in Targets(ChatOf[u.msg], u.body) /\ t \in Targets(ChatOf[u.msg], u.body)
    OBVIOUS
  <2>5. s = t
    BY <2>3, <2>4, TargetsOnce
  <2>6. QED BY <2>1, <2>2, <2>5
<1> HIDE DEF new
<1>4. Live' = Live \cup new
  BY <1>1, <1>2 DEF Live
<1>5. \A j \in Live : Started(j.upd, j.msg) /\ \A k \in j.upd..cursor : Heard(k)
  BY DEF Remembered
<1>6. Memory'
  BY HeardGoesOn DEF Remembered
<1>7. ASSUME NEW j \in Live'
      PROVE  Started(j.upd, j.msg)'
  <2>1. CASE j \in Live
    BY <1>1, <1>5, <2>1 DEF Started
  <2>2. CASE j \in new
    BY <1>1, <1>2, <2>2 DEF Started
  <2>3. QED BY <1>4, <2>1, <2>2
<1>8. ASSUME NEW j \in Live', NEW k \in (j.upd)..(cursor')
      PROVE  Heard(k)'
  <2>1. j.upd \in 1..(cursor + 1) /\ k \in 1..(cursor + 1)
    BY <1>1, <1>7 DEF Started
  <2>2. ASSUME k <= cursor
        PROVE  Heard(k)
    <3>1. j \in Live
      BY <1>1, <1>2, <1>4, <2>1, <2>2
    <3>2. k \in j.upd..cursor
      BY <1>1, <2>1, <2>2
    <3>3. QED BY <1>5, <3>1, <3>2
  <2>3. Memory
    BY DEF Remembered
  <2>4. QED BY <2>1, <2>2, <2>3, HeardGoesOn
<1>9. Remembered'
  BY <1>6, <1>7, <1>8 DEF Remembered
<1>10. \A a, b, m : Overflowed(a, b, m) => Overflowed(a, b, m)'
  BY <1>1 DEF Overflowed, Burst, Stream
<1>11. ASSUME NEW i \in Live', NEW j \in Live', OverlapFor(i, j)
       PROVE  Overflowed(i.upd, j.upd, i.msg)'
  <2>1. CASE i \in Live /\ j \in Live
    <3>1. Overflowed(i.upd, j.upd, i.msg)
      BY <1>11, <2>1 DEF OverlapNeedsABurst, OverlapFor, Overflowed
    <3>2. QED BY <1>10, <3>1
  <2>2. CASE i \in new /\ j \in new
    BY <1>3, <1>11, <2>2 DEF OverlapFor
  <2>3. CASE i \in new /\ j \in Live
    <3>1. i.upd = cursor + 1 /\ j.upd \in 1..cursor
      BY <1>2, <1>5, <2>3 DEF Started
    <3>2. QED BY <1>1, <1>11, <3>1 DEF OverlapFor
  <2>4. CASE i \in Live /\ j \in new
    <3>1. /\ i.upd \in 1..cursor /\ j.upd = cursor + 1 /\ j.upd - 1 = cursor
          /\ ~Seen(lru, i.msg)
      <4>1. i.msg = j.msg
        BY <1>11 DEF OverlapFor, Pair
      <4>2. QED BY <1>1, <1>2, <1>5, <2>4, <4>1 DEF Started
    <3>2. ASSUME NEW k \in i.upd..cursor, log[k].msg = i.msg
          PROVE  Cardinality(Burst(Stream, k, cursor)) > DedupCap
      <4>1. k \in 1..cursor /\ Stream[k] = i.msg
        <5>1. k \in 1..cursor /\ k \in 1..Len(log)
          BY <1>1, <3>1, StreamIs
        <5>2. QED BY <3>2, <5>1, StreamIs
      <4>2. Retained(lru, Burst(Stream, k, cursor), DedupCap)
        BY <1>5, <2>4, <3>2 DEF Heard
      <4>3. Len(lru) \in Nat /\ DedupCap \in Nat \ {0}
        BY DEF TypeOK
      <4> HIDE DEF u, fresh
      <4>4. QED BY <1>1, <3>1, <4>1, <4>2, <4>3, UnseenIsNews
    <3>3. i.upd < j.upd
      BY <1>1, <3>1
    <3>4. Overflowed(i.upd, j.upd, i.msg)
      BY <3>1, <3>2, <3>3 DEF Overflowed
    <3>5. QED BY <1>10, <3>4
  <2>5. QED BY <1>4, <2>1, <2>2, <2>3, <2>4
<1>12. OverlapNeedsABurst'
  BY <1>11 DEF OverlapNeedsABurst, OverlapFor, Overflowed, Pair
<1>13. QED BY <1>9, <1>12

(* Memory and bursts, together inductive.                                  *)
LEMMA RememberedAlways == Spec => [](Remembered /\ OverlapNeedsABurst)
<1> USE RelayAssumption
<1> USE DEF telegram, session, loop, backfill, store, history
<1> DEFINE Inv == Remembered /\ OverlapNeedsABurst
<1>1. Init => Inv
  BY DEF Init, Remembered, Memory, Recalls, OverlapNeedsABurst, Live, Distinct
<1>2. TypeOK /\ Inv /\ [Next]_vars => Inv'
  <2> SUFFICES ASSUME TypeOK, Remembered, OverlapNeedsABurst, [Next]_vars
               PROVE  Inv'
    OBVIOUS
  <2>a. ASSUME UNCHANGED <<cursor, lru>>, Live' \subseteq Live
        PROVE  Inv'
    <3> DEFINE was == [j \in Live' |-> j]
    <3>1. Stands(was)
      BY <2>a DEF Stands, Pair
    <3> HIDE DEF was
    <3>2. QED BY <2>a, <3>1, OverlapStays
  <2>1. CASE HandleUpdate
    BY <2>1, BegunAfterABurst
  <2>2. ASSUME NEW j \in jobs, JobStep(j)
        PROVE  Inv'
    <3> j \in Job
      BY DEF TypeOK
    <3>1. UNCHANGED <<cursor, lru>>
      BY <2>2 DEF JobStep, CheckStore, CheckError, PostDelivered, PostLostReply,
                  PostDropped, RecordRow, RecordError
    <3>2. jobs' \subseteq jobs \/ \E pc, n : Move(j, pc, n)
      BY <2>2 DEF JobStep, CheckStore, CheckError, PostDelivered, PostLostReply,
                  PostDropped, RecordRow, RecordError, Finish
    <3>3. CASE jobs' \subseteq jobs
      BY <2>a, <3>1, <3>3 DEF Live
    <3>4. ASSUME NEW pc, NEW n, Move(j, pc, n)
          PROVE  Inv'
      <4> DEFINE k == [j EXCEPT !.pc = pc, !.copy = n]
                 was == [i \in Live' |-> IF i \in jobs \ {j} THEN i ELSE j]
      <4>1. k.src = j.src /\ k.msg = j.msg /\ k.upd = j.upd /\ Pair(k) = Pair(j)
        BY DEF Job, Pair
      <4>2. jobs' = (jobs \ {j}) \cup {k}
        BY <3>4 DEF Move
      <4> HIDE DEF k
      <4>3. ASSUME NEW i \in Live'
            PROVE  \/ i \in Live \ {j} /\ was[i] = i
                   \/ i = k /\ j \in Live /\ was[i] = j
        BY <4>1, <4>2 DEF Live
      <4> HIDE DEF was
      <4>4. Stands(was)
        BY <4>1, <4>3 DEF Stands, Pair
      <4>5. QED BY <3>1, <4>4, OverlapStays
    <3>5. QED BY <3>2, <3>3, <3>4
  <2>3. CASE Stop
    <3>1. lru' = <<>> /\ Live' = {}
      BY <2>3 DEF Stop, Live
    <3>2. QED BY <3>1 DEF Remembered, Memory, Recalls, OverlapNeedsABurst, Distinct
  <2>4. ASSUME NEW d \in todo, BackfillNext(d)
        PROVE  Inv'
    <3>1. UNCHANGED <<cursor, lru>>
          /\ jobs' = jobs \cup {NewJob("backfill", 0, d[1], d[2], d[3])}
      BY <2>4 DEF BackfillNext, Spawn
    <3>2. NewJob("backfill", 0, d[1], d[2], d[3]).src = "backfill"
      BY DEF NewJob
    <3>3. QED BY <2>a, <3>1, <3>2 DEF Live
  <2>5. CASE BackfillCrash
    BY <2>5, <2>a DEF BackfillCrash, Live
  <2>6. ASSUME NEW m \in Msgs, NEW b \in Bodies, Emit(m, b)
        PROVE  Inv'
    <3>1. UNCHANGED <<cursor, lru, jobs>>
      BY <2>6 DEF Emit, TypeOK
    <3>2. QED BY <2>a, <3>1 DEF Live
  <2>7. ASSUME NEW r \in Routes, BackfillStart(r)
        PROVE  Inv'
    BY <2>7, <2>a DEF BackfillStart, Live
  <2>8. CASE Restart \/ SyncState \/ HorizonPasses \/ Prune \/ UNCHANGED vars
    <3>1. UNCHANGED <<cursor, lru, jobs>>
      BY <2>8 DEF Restart, SyncState, HorizonPasses, Prune, vars
    <3>2. QED BY <2>a, <3>1 DEF Live
  <2>9. QED
    BY <2>1, <2>2, <2>3, <2>4, <2>5, <2>6, <2>7, <2>8
       DEF Next, Publish, Edit, Crash, Shutdown
<1>3. QED BY <1>1, <1>2, TypeCorrect, PTL DEF Spec

(* Two tasks of one process deliver the same pair at once only when, since *)
(* the last update of the message, more messages than the LRU holds were   *)
(* heard of (handle_update, Dedup::check_and_insert).                      *)
THEOREM OverlapNeedsABurstAlways == Spec => []OverlapNeedsABurst
BY RememberedAlways, PTL

(* So two tasks of one process never deliver the same pair at once, if the *)
(* LRU has room for all messages: no burst is large enough.                *)
THEOREM NoLiveOverlapAlways ==
    ASSUME IsFiniteSet(Msgs), Cardinality(Msgs) <= DedupCap
    PROVE  Spec => []NoLiveOverlap
<1> USE RelayAssumption
<1>1. ASSUME TypeOK, Remembered, OverlapNeedsABurst,
             NEW i \in Live, NEW j \in Live, Pair(i) = Pair(j), i.upd <= j.upd, i # j
      PROVE  FALSE
  <2>1. Started(i.upd, i.msg) /\ Started(j.upd, j.msg)
    BY <1>1 DEF Remembered
  <2>2. /\ i.upd < j.upd
        /\ \A k \in i.upd..(j.upd - 1) : log[k].msg = i.msg =>
              Cardinality(Burst(Stream, k, j.upd - 1)) > DedupCap
    BY <1>1 DEF OverlapNeedsABurst
  <2>3. /\ i.upd \in i.upd..(j.upd - 1) /\ log[i.upd].msg = i.msg
        /\ \A k \in i.upd..(j.upd - 1) : k \in 1..Len(log)
    BY <1>1, <2>1, <2>2 DEF Started, TypeOK
  <2>4. \A k \in 1..Len(log) : Stream[k] \in Msgs
    BY <1>1, StreamIs
  <2> DEFINE B == Burst(Stream, i.upd, j.upd - 1)
  <2>5. B \subseteq Msgs
    BY <2>3, <2>4 DEF Burst
  <2>6. Cardinality(B) > DedupCap
    BY <2>2, <2>3
  <2> HIDE DEF B
  <2>7. /\ Cardinality(B) <= Cardinality(Msgs)
        /\ Cardinality(B) \in Nat /\ Cardinality(Msgs) \in Nat
    BY <2>5, FS_Subset, FS_CardinalityType
  <2>8. QED BY <2>6, <2>7
<1>2. TypeOK /\ Remembered /\ OverlapNeedsABurst => NoLiveOverlap
  <2> SUFFICES ASSUME TypeOK, Remembered, OverlapNeedsABurst,
                      NEW i \in Live, NEW j \in Live, Pair(i) = Pair(j)
               PROVE  i = j
    BY DEF NoLiveOverlap
  <2>1. i.upd \in Nat /\ j.upd \in Nat /\ Pair(j) = Pair(i)
    BY DEF TypeOK, Live, Job
  <2>2. i.upd <= j.upd \/ j.upd <= i.upd
    BY <2>1
  <2>3. QED BY <1>1, <2>1, <2>2
<1>3. QED BY <1>2, TypeCorrect, RememberedAlways, PTL

(***************************************************************************)
(* What the filters let through is answered or in hand.                    *)
(***************************************************************************)

(* The first of the matching routes that name a webhook posts to it. *)
LEMMA TargetsReach ==
    ASSUME NEW c, NEW b, NEW r \in Matching(c, b), NEW w \in Webhooks, w \in To[r],
           NumRoutes \in Nat
    PROVE  \E t \in Targets(c, b) : t[2] = w
<1> DEFINE S == {q \in Matching(c, b) : w \in To[q]}
<1>1. S \in SUBSET Nat /\ r \in S /\ S \subseteq Routes
  BY DEF Matching, Routes
<1>2. PICK f \in S : \A q \in S : f <= q
  BY <1>1, LeastElement
<1>3. <<f, w>> \in Targets(c, b)
  BY <1>1, <1>2 DEF Targets
<1>4. QED BY <1>3

(* Answered, or in the hands of the task of update i.                      *)
InHand(i, p) == Answered(p) \/ \E j \in Live : Pair(j) = p /\ j.upd = i

(* An answer is never taken back. *)
LEMMA AnswersStay ==
    ASSUME TypeOK, [Next]_vars, NEW p \in Pairs, Answered(p)
    PROVE  Answered(p)'
<1> USE DEF telegram, session, loop, backfill, store, history
<1>1. copies'[p] >= copies[p]
  <2>1. CASE copies' = copies
    BY <2>1 DEF TypeOK
  <2>2. ASSUME NEW j \in jobs, copies' = [copies EXCEPT ![Pair(j)] = @ + 1]
        PROVE  copies'[p] >= copies[p]
    <3>1. copies \in [Pairs -> Nat]
      BY DEF TypeOK
    <3>2. CASE p = Pair(j)
      BY <2>2, <3>1, <3>2
    <3>3. CASE p # Pair(j)
      BY <2>2, <3>1, <3>3
    <3>4. QED BY <3>2, <3>3
  <2>3. QED BY <2>1, <2>2, StepEffects DEF StepEffect
<1>2. noticed \subseteq noticed' /\ abandoned \subseteq abandoned'
  <2>1. ASSUME NEW j \in jobs, JobStep(j)
        PROVE  noticed \subseteq noticed' /\ abandoned \subseteq abandoned'
    BY <2>1 DEF JobStep, CheckStore, CheckError, PostDelivered, PostLostReply,
                PostDropped, RecordRow, RecordError
  <2>2. CASE Stop
    BY <2>2 DEF Stop
  <2>3. CASE HandleUpdate \/ Restart \/ SyncState \/ UNCHANGED vars
    BY <2>3 DEF HandleUpdate, Restart, SyncState, vars
  <2>4. ASSUME NEW r \in Routes, BackfillStart(r)
        PROVE  noticed \subseteq noticed' /\ abandoned \subseteq abandoned'
    BY <2>4 DEF BackfillStart
  <2>5. ASSUME NEW d \in todo, BackfillNext(d)
        PROVE  noticed \subseteq noticed' /\ abandoned \subseteq abandoned'
    BY <2>5 DEF BackfillNext
  <2>6. CASE BackfillCrash \/ HorizonPasses \/ Prune
    BY <2>6 DEF BackfillCrash, HorizonPasses, Prune
  <2>7. ASSUME NEW m \in Msgs, NEW b \in Bodies, Emit(m, b)
        PROVE  noticed \subseteq noticed' /\ abandoned \subseteq abandoned'
    BY <2>7 DEF Emit
  <2>8. QED
    BY <2>1, <2>2, <2>3, <2>4, <2>5, <2>6, <2>7 DEF Next, Publish, Edit, Crash, Shutdown
<1>3. copies[p] \in Nat /\ copies'[p] \in Nat
  <2>1. CASE copies' = copies
    BY <2>1 DEF TypeOK
  <2>2. ASSUME NEW j \in jobs, copies' = [copies EXCEPT ![Pair(j)] = @ + 1]
        PROVE  copies'[p] \in Nat
    BY <2>2 DEF TypeOK
  <2>3. QED BY <2>1, <2>2, StepEffects DEF StepEffect, TypeOK
<1>4. QED BY <1>1, <1>2, <1>3 DEF Answered

(* A task that knows an id, or a row, is proof of a copy. *)
LEMMA HeldIsShown ==
    ASSUME TypeOK, Accounted, NEW j \in jobs,
           j.pc = "record" \/ AlreadyRelayed(Pair(j))
    PROVE  copies[Pair(j)] > 0
<1>0. j \in Job /\ Pair(j) \in Pairs /\ copies[Pair(j)] \in Nat
  BY PairType DEF TypeOK
<1>1. CASE j.pc = "record"
  <2>1. IdOf(j) \in Pending
    BY <1>1 DEF Pending, Recording
  <2>2. IdOf(j)[3] \in 1..copies[<<IdOf(j)[1], IdOf(j)[2]>>]
    BY <2>1 DEF Accounted
  <2>3. <<IdOf(j)[1], IdOf(j)[2]>> = Pair(j)
    BY DEF IdOf, Pair
  <2>4. QED BY <1>0, <2>2, <2>3
<1>2. CASE AlreadyRelayed(Pair(j))
  <2>1. PICK id \in rows : <<id[1], id[2]>> = Pair(j)
    BY <1>2 DEF AlreadyRelayed
  <2>2. id[3] \in 1..copies[<<id[1], id[2]>>]
    BY <2>1 DEF Accounted
  <2>3. QED BY <1>0, <2>1, <2>2
<1>3. QED BY <1>1, <1>2

(* A task at work keeps its pair in hand, whatever its step comes to. *)
LEMMA TasksKeepHold ==
    ASSUME TypeOK, Accounted, NEW j \in jobs, JobStep(j),
           NEW p \in Pairs, NEW n, InHand(n, p)
    PROVE  InHand(n, p)'
<1> USE DEF telegram, session, loop, backfill, store, history
<1>1. [Next]_vars
  BY DEF Next
<1>2. CASE Answered(p)
  BY <1>1, <1>2, AnswersStay DEF InHand
<1>3. ASSUME NEW i \in Live, Pair(i) = p, i.upd = n
      PROVE  InHand(n, p)'
  <2>0. i \in jobs /\ i.src = "live" /\ j \in Job /\ copies[p] \in Nat
    BY DEF Live, TypeOK
  <2>1. CASE i \in jobs'
    <3>1. i \in Live'
      BY <2>0, <2>1 DEF Live
    <3>2. QED BY <1>3, <3>1 DEF InHand, Pair
  <2>2. ASSUME i \notin jobs', NEW pc, NEW c, Move(j, pc, c)
        PROVE  InHand(n, p)'
    <3> DEFINE k == [j EXCEPT !.pc = pc, !.copy = c]
    <3>1. i = j /\ k \in jobs'
      BY <2>0, <2>2 DEF Move
    <3>2. k.src = "live" /\ Pair(k) = p /\ k.upd = n
      BY <1>3, <2>0, <3>1 DEF Job, Pair
    <3> HIDE DEF k
    <3>3. k \in Live'
      BY <3>1, <3>2 DEF Live
    <3>4. QED BY <3>2, <3>3 DEF InHand, Pair
  <2>3. ASSUME i \notin jobs', Finish(j)
        PROVE  i = j
    BY <2>0, <2>3 DEF Finish
  <2>4. CASE CheckStore(j) /\ i \notin jobs'
    <3>1. CASE AlreadyRelayed(Pair(j))
      <4>1. i = j /\ copies' = copies
        BY <2>3, <2>4, <3>1 DEF CheckStore
      <4>2. copies[Pair(j)] > 0
        BY <3>1, HeldIsShown
      <4>3. QED BY <1>3, <4>1, <4>2 DEF InHand, Answered
    <3>2. CASE ~AlreadyRelayed(Pair(j))
      BY <2>2, <2>4, <3>2 DEF CheckStore
    <3>3. QED BY <3>1, <3>2
  <2>5. CASE CheckError(j) /\ i \notin jobs'
    BY <2>2, <2>5 DEF CheckError
  <2>6. CASE PostDelivered(j) /\ i \notin jobs'
    BY <2>2, <2>6 DEF PostDelivered
  <2>7. CASE PostLostReply(j) /\ i \notin jobs'
    BY <2>0, <2>7 DEF PostLostReply
  <2>8. CASE PostDropped(j) /\ i \notin jobs'
    <3>1. i = j /\ p \in noticed'
      BY <1>3, <2>0, <2>3, <2>8 DEF PostDropped
    <3>2. QED BY <3>1 DEF InHand, Answered
  <2>9. CASE (RecordRow(j) \/ RecordError(j)) /\ i \notin jobs'
    <3>1. i = j /\ copies' = copies /\ j.pc = "record"
      BY <2>3, <2>9 DEF RecordRow, RecordError
    <3>2. copies[Pair(j)] > 0
      BY <3>1, HeldIsShown
    <3>3. QED BY <1>3, <3>1, <3>2 DEF InHand, Answered
  <2>10. QED
    BY <2>1, <2>4, <2>5, <2>6, <2>7, <2>8, <2>9 DEF JobStep
<1>4. QED BY <1>2, <1>3 DEF InHand

(* What update i asks for does not depend on the updates after it.         *)
LEMMA AskedEarlier ==
    ASSUME TypeOK, [Next]_vars, NEW i \in 1..Len(log), NEW p, WantedBy(i, p)'
    PROVE  WantedBy(i, p)
<1>1. log'[i] = log[i] /\ (News(Stream', i, DedupCap) <=> News(Stream, i, DedupCap))
  BY StreamStays
<1>2. /\ log'[i].msg = p[1]
      /\ News(Stream', i, DedupCap)
      /\ \E r \in Matching(ChatOf[p[1]], log'[i].body) : p[2] \in To[r]
  BY DEF WantedBy, Matching
<1>3. QED BY <1>1, <1>2 DEF WantedBy

(* The run loop takes on whatever the update it consumes asks for: what is *)
(* news the LRU cannot hold.                                               *)
LEMMA NewsIsTakenOn ==
    ASSUME TypeOK, Memory, HandleUpdate, NEW p \in Pairs, WantedBy(cursor + 1, p)
    PROVE  \E j \in Live' : Pair(j) = p /\ j.upd = cursor + 1
<1> USE RelayAssumption
<1> DEFINE u == log[cursor + 1]
           fresh == IF Seen(lru, u.msg) THEN {} ELSE Targets(ChatOf[u.msg], u.body)
           new == {NewJob("live", cursor + 1, t[1], u.msg, t[2]) : t \in fresh}
<1>1. /\ cursor \in Nat /\ cursor + 1 \in 1..Len(log) /\ jobs' = jobs \cup new
      /\ p[1] \in Msgs /\ p[2] \in Webhooks /\ p = <<p[1], p[2]>>
  BY DEF HandleUpdate, Spawn, TypeOK, Pairs
<1>2. u.msg = p[1] /\ News(Stream, cursor + 1, DedupCap)
  BY DEF WantedBy
<1>3. ~Seen(lru, u.msg)
  <2>1. u.msg = Stream[cursor + 1]
    BY <1>1, StreamIs
  <2> DEFINE h == Stream
             m == u.msg
  <2>2. /\ lru \in Seq(Msgs) /\ Len(lru) <= DedupCap /\ Distinct(lru)
        /\ Recalls(lru, h, cursor) /\ News(h, cursor + 1, DedupCap) /\ m = h[cursor + 1]
    BY <1>2, <2>1 DEF TypeOK, Memory
  <2> HIDE DEF h, m
  <2>3. ~Seen(lru, m)
    BY <1>1, <2>2, SeenIsNoNews
  <2>4. QED BY <2>3 DEF m
<1>4. PICK t \in Targets(ChatOf[u.msg], u.body) : t[2] = p[2]
  <2>1. PICK r \in Matching(ChatOf[u.msg], u.body) : p[2] \in To[r]
    BY <1>2 DEF WantedBy
  <2> HIDE DEF u
  <2>2. QED BY <1>1, <2>1, TargetsReach
<1> DEFINE j == NewJob("live", cursor + 1, t[1], u.msg, t[2])
<1>5. j \in new
  BY <1>3, <1>4
<1>6. j.src = "live" /\ Pair(j) = p /\ j.upd = cursor + 1
  BY <1>1, <1>2, <1>4 DEF NewJob, Pair
<1> HIDE DEF j, new
<1>7. QED BY <1>1, <1>5, <1>6 DEF Live

(* A stop of the process answers for what it had in hand of the updates    *)
(* that the saved position counts as consumed.                             *)
LEMMA StopAnswers ==
    ASSUME TypeOK, Accounted, [Next]_vars, Stop, NEW p \in Pairs,
           NEW i, i <= synced', InHand(i, p)
    PROVE  Answered(p)'
<1>1. CASE Answered(p)
  BY <1>1, AnswersStay
<1>2. ASSUME NEW j \in Live, Pair(j) = p, j.upd = i
      PROVE  Answered(p)'
  <2>1. CASE j.pc = "record"
    <3>1. copies[p] > 0
      BY <1>2, <2>1, HeldIsShown DEF Live
    <3>2. copies' = copies
      BY DEF Stop
    <3>3. QED BY <3>1, <3>2 DEF Answered
  <2>2. CASE j.pc # "record"
    <3>1. p \in abandoned'
      BY <1>2, <2>2 DEF Stop
    <3>2. QED BY <3>1 DEF Answered
  <2>3. QED BY <2>1, <2>2
<1>3. QED BY <1>1, <1>2 DEF InHand

(* What an update asked for that the run loop has consumed and that was    *)
(* news is on Discord, reported lost, cut off by a stop after its position *)
(* was saved, or in the hands of that update's task: nothing is swallowed  *)
(* in between (handle_update, spawn_embed, run).                           *)
THEOREM WantedIsInHandAlways == Spec => []WantedIsInHand
<1> USE RelayAssumption
<1> USE DEF telegram, session, loop, backfill, store, history
<1>1. Init => WantedIsInHand
  BY DEF Init, WantedIsInHand
<1>2. TypeOK /\ Accounted /\ Remembered /\ TypeOK' /\ WantedIsInHand /\ [Next]_vars
      => WantedIsInHand'
  <2> SUFFICES ASSUME TypeOK, Accounted, Remembered, TypeOK', WantedIsInHand, [Next]_vars
               PROVE  WantedIsInHand'
    OBVIOUS
  <2>t. cursor \in Nat /\ cursor' \in Nat /\ cursor <= Len(log) /\ Len(log) \in Nat
    BY DEF TypeOK
  <2>a. ASSUME NEW i \in 1..cursor, NEW p \in Pairs, WantedBy(i, p)'
        PROVE  InHand(i, p)
    <3>1. i \in 1..Len(log)
      BY <2>t
    <3>2. WantedBy(i, p)
      BY <2>a, <3>1, AskedEarlier
    <3>3. QED BY <3>2 DEF WantedIsInHand, InHand
  <2>h. ASSUME cursor' <= cursor,
               \A i \in 1..cursor', p \in Pairs : InHand(i, p) => InHand(i, p)'
        PROVE  WantedIsInHand'
    <3>1. ASSUME NEW i \in 1..cursor', NEW p \in Pairs, WantedBy(i, p)'
          PROVE  InHand(i, p)'
      <4>1. i \in 1..cursor
        BY <2>t, <2>h
      <4>2. QED BY <2>a, <2>h, <3>1, <4>1
    <3>2. QED BY <3>1 DEF WantedIsInHand, InHand, Pairs
  <2>i. ASSUME NEW i, NEW p \in Pairs, InHand(i, p), Live \subseteq Live'
        PROVE  InHand(i, p)'
    <3>1. CASE Answered(p)
      BY <3>1, AnswersStay DEF InHand
    <3>2. CASE ~Answered(p)
      BY <2>i, <3>2 DEF InHand, Pair
    <3>3. QED BY <3>1, <3>2
  <2>f. ASSUME cursor' = cursor, Live \subseteq Live'
        PROVE  WantedIsInHand'
    BY <2>t, <2>f, <2>h, <2>i
  <2>1. CASE HandleUpdate
    <3>1. cursor' = cursor + 1 /\ log' = log /\ Live \subseteq Live' /\ cursor + 1 \in 1..Len(log)
      BY <2>1, <2>t DEF HandleUpdate, Spawn, Live
    <3>2. ASSUME NEW i \in 1..cursor', NEW p \in Pairs, WantedBy(i, p)'
          PROVE  InHand(i, p)'
      <4>1. CASE i \in 1..cursor
        BY <2>a, <2>i, <3>1, <3>2, <4>1
      <4>2. CASE i = cursor + 1
        <5>1. WantedBy(cursor + 1, p)
          BY <3>1, <3>2, <4>2, AskedEarlier
        <5>2. PICK j \in Live' : Pair(j) = p /\ j.upd = i
          BY <2>1, <4>2, <5>1, NewsIsTakenOn DEF Remembered
        <5>3. QED BY <5>2 DEF InHand, Pair
      <4>3. QED BY <2>t, <3>1, <4>1, <4>2
    <3>3. QED BY <3>2 DEF WantedIsInHand, InHand, Pairs
  <2>2. ASSUME NEW j \in jobs, JobStep(j)
        PROVE  WantedIsInHand'
    <3>1. cursor' = cursor
      BY <2>2 DEF JobStep, CheckStore, CheckError, PostDelivered, PostLostReply,
                  PostDropped, RecordRow, RecordError
    <3>2. ASSUME NEW i, NEW p \in Pairs, InHand(i, p)
          PROVE  InHand(i, p)'
      BY <2>2, <3>2, TasksKeepHold
    <3>3. QED BY <2>t, <2>h, <3>1, <3>2
  <2>3. CASE Crash \/ Shutdown
    <3>1. Stop /\ cursor' <= cursor /\ cursor' <= synced' /\ synced' \in Nat
      BY <2>3, <2>t DEF Crash, Shutdown, TypeOK
    <3>2. ASSUME NEW i \in 1..cursor', NEW p \in Pairs, InHand(i, p)
          PROVE  InHand(i, p)'
      <4>1. i <= synced'
        BY <2>t, <3>1
      <4>2. QED BY <3>1, <3>2, <4>1, StopAnswers DEF InHand
    <3>3. QED BY <2>h, <3>1, <3>2
  <2>4. ASSUME NEW m \in Msgs, NEW b \in Bodies, Emit(m, b)
        PROVE  WantedIsInHand'
    BY <2>4, <2>f DEF Emit, Live
  <2>5. ASSUME NEW r \in Routes, BackfillStart(r)
        PROVE  WantedIsInHand'
    BY <2>5, <2>f DEF BackfillStart, Live
  <2>6. ASSUME NEW d \in todo, BackfillNext(d)
        PROVE  WantedIsInHand'
    BY <2>6, <2>f DEF BackfillNext, Spawn, Live
  <2>7. CASE BackfillCrash
    BY <2>7, <2>f DEF BackfillCrash, Live
  <2>8. CASE Restart \/ SyncState \/ HorizonPasses \/ Prune \/ UNCHANGED vars
    BY <2>8, <2>f DEF Restart, SyncState, HorizonPasses, Prune, vars, Live
  <2>9. QED
    BY <2>1, <2>2, <2>3, <2>4, <2>5, <2>6, <2>7, <2>8 DEF Next, Publish, Edit
<1>3. QED BY <1>1, <1>2, TypeCorrect, AccountedAlways, RememberedAlways, PTL DEF Spec
=============================================================================
