--------------------------- MODULE ProcessProofs ----------------------------
(***************************************************************************)
(* Proofs about the life of the process: the liveness probe and its count  *)
(* of failures, for any probe interval, number of attempts and length of   *)
(* handlers and posts, and the configuration with the snapshot made of it, *)
(* for any contents of the file and any number of edits and failed         *)
(* lookups.                                                                *)
(***************************************************************************)
EXTENDS Supervisor, HotReload, TLAPS

(* What is used of the constants, but for products.                        *)
Numbers ==
    /\ Probe \in Nat /\ Probe > 0 /\ Attempts \in Nat /\ Attempts > 0
    /\ Cap \in Nat

(* The assumption about the constants gives them.                          *)
LEMMA NumbersHold == Numbers
  BY SupervisorAssumption DEF Numbers

(* The part of the state the probe depends on. *)
ProbeTypes ==
    /\ silence \in Nat /\ failures \in Nat /\ clock \in Nat /\ contact \in Nat /\ dark \in Nat
    /\ silence <= Probe /\ clock < Probe /\ contact <= Cap

(* Every arm, handler and fault but those that hear of Telegram and those  *)
(* that count a failure leave the observed times and the count alone.      *)
Quiet == UNCHANGED <<silence, failures, clock, due, contact, dark>>

QuietStep ==
    \/ Start \/ Connected \/ NotConnected \/ NotResolved \/ Greeted
    \/ SignalArm \/ PoolArm \/ StreamErrorArm \/ ReloadArm
    \/ HandlerEnds \/ ProbeRefused
    \/ Told \/ FarewellEnds \/ Flushed \/ Synced
    \/ World

(* The steps so named are quiet.                                           *)
LEMMA QuietSteps == ASSUME QuietStep PROVE Quiet
  BY DEF QuietStep, Quiet, Start, Connected, NotConnected, NotResolved, Greeted, SignalArm,
         PoolArm, StreamErrorArm, ReloadArm, HandlerEnds, ProbeRefused, Told, FarewellEnds,
         Flushed, Synced, World, LinkFails, LinkReturns, Revoke, PoolEnds, Signal,
         SignalEarly, Kill, StopTimesOut, Outside, End, GiveUp, Enter, process, outside,
         observed

(* Every step keeps the times and the count within their bounds.           *)
LEMMA TypesPreserved ==
    ASSUME ProbeTypes, [Next]_vars
    PROVE  ProbeTypes'
<1> USE NumbersHold DEF Numbers
<1>1. CASE QuietStep \/ UNCHANGED vars
  BY <1>1, QuietSteps DEF Quiet, ProbeTypes, vars, process, observed
<1>2. CASE Resolved
  BY <1>2 DEF Resolved, ProbeTypes
<1>3. CASE UpdateArm
  BY <1>3 DEF UpdateArm, ProbeTypes
<1>4. CASE ProbeArm
  BY <1>4 DEF ProbeArm, observed, ProbeTypes
<1>5. CASE ProbeAnswered
  BY <1>5 DEF ProbeAnswered, ProbeTypes
<1>6. CASE ProbeFailed
  <2>1. failures' = failures + 1
    BY <1>6 DEF ProbeFailed
  <2>2. UNCHANGED <<silence, clock, due, contact, dark>>
    BY <1>6 DEF ProbeFailed, GiveUp, observed
  <2>3. QED BY <2>1, <2>2 DEF ProbeTypes
<1>7. CASE Elapse
  <2>1. clock' \in Nat /\ clock' < Probe
    BY <1>7 DEF Elapse, ProbeTypes
  <2>2. silence' \in Nat /\ silence' <= Probe /\ contact' \in Nat /\ contact' <= Cap
    BY <1>7 DEF Elapse, ProbeTypes, UpTo
  <2>3. dark' \in Nat
    BY <1>7 DEF Elapse, ProbeTypes, UpTo
  <2>4. failures' = failures
    BY <1>7 DEF Elapse
  <2>5. QED BY <2>1, <2>2, <2>3, <2>4 DEF ProbeTypes
<1>8. QED BY <1>1, <1>2, <1>3, <1>4, <1>5, <1>6, <1>7
          DEF Next, StartUp, Arms, Probing, GoDown, QuietStep

(* A process in its loop, or on its way out by a signal, has attempts left. *)
Early == {"looping", "handling", "probing", "greeting"} \cup Stopping

AttemptsLeft == phase \in Early => failures < Attempts

(* So many whole intervals have passed without news of Telegram, and the   *)
(* part of one since the last deadline. An age at its bound is as good as  *)
(* any.                                                                    *)
Unheard(n) ==
    contact = Cap \/ contact >= clock + (IF due THEN Probe ELSE 0) + n * Probe + 1

(* The strengthening that makes LossIsReal inductive: a failure counted is *)
(* an interval of silence, except that the ticks delayed by the probes and *)
(* handlers before it may take two of them away.                           *)
LossInv ==
    /\ AttemptsLeft
    /\ phase = "greeting" => failures = 0
    /\ phase \in {"looping", "handling"} /\ failures > 0 => Unheard(failures - 2)
    /\ phase = "probing" => Unheard(failures - 1)
    /\ LossIsReal

(* What is needed of the products.                                         *)
LEMMA Products ==
    /\ \A n \in Int : n * Probe \in Int
    /\ \A n \in Int : (n + 1) * Probe = n * Probe + Probe
    /\ Cap > (Attempts - 2) * Probe + 3 * Probe
    /\ (0 - 1) * Probe = 0 - Probe
  BY SupervisorAssumption

(* A failure that is the first needs no silence before it.                 *)
LEMMA FirstFailure ==
    ASSUME NEW c \in Nat, NEW d \in Nat, d < Probe
    PROVE  c >= d + 0 + (0 - 1) * Probe + 1
<1>1. (0 - 1) * Probe = 0 - Probe
  BY Products
<1>2. QED BY <1>1, NumbersHold DEF Numbers

(* A unit of time adds as much to the silence as to the age of the         *)
(* deadline, or more: a deadline missed is one interval for two.           *)
LEMMA UnheardElapses ==
    ASSUME ProbeTypes, Elapse, NEW n \in Int, Unheard(n)
    PROVE  contact' = Cap \/ contact' >= clock' + (IF due' THEN Probe ELSE 0) + n * Probe + 1
<1> USE NumbersHold DEF Numbers
<1>1. n * Probe \in Int
  BY Products
<1>2. contact' = (IF contact < Cap THEN contact + 1 ELSE contact)
  BY DEF Elapse, UpTo
<1>3. clock' = (IF clock + 1 = Probe THEN 0 ELSE clock + 1)
  BY DEF Elapse, ProbeTypes
<1>4. due' <=> due \/ clock' = 0
  BY DEF Elapse
<1>5. CASE contact = Cap
  BY <1>2, <1>5 DEF ProbeTypes
<1>6. CASE contact # Cap
  <2>1. contact' = contact + 1
    BY <1>2, <1>6 DEF ProbeTypes
  <2>2. contact >= clock + (IF due THEN Probe ELSE 0) + n * Probe + 1
    BY <1>6 DEF Unheard
  <2>3. clock' + (IF due' THEN Probe ELSE 0) <= clock + (IF due THEN Probe ELSE 0) + 1
    BY <1>3, <1>4 DEF ProbeTypes
  <2>4. QED BY <1>1, <1>3, <2>1, <2>2, <2>3 DEF ProbeTypes
<1>7. QED BY <1>5, <1>6

(* Steps that leave the observed times and the count alone.                *)
LEMMA QuietKeeps ==
    ASSUME LossInv, Quiet,
           \/ phase' = phase /\ reason' = reason
           \/ phase \in Early /\ phase' \in Stopping
           \/ phase \in {"looping", "handling", "greeting"} /\ phase' \in {"looping", "handling"}
           \/ phase' = "telling" /\ reason' # "unrecoverable"
           \/ phase' \in {"connecting", "resolving", "down"}
    PROVE  LossInv'
  BY DEF LossInv, AttemptsLeft, Unheard, LossIsReal, Quiet, Early, Stopping

(* The process calls Telegram lost only when nothing was heard of it, by   *)
(* update or probe, for more than all intervals but two, whatever delayed  *)
(* the ticks in between (the count in run's liveness arm).                 *)
THEOREM LossIsRealAlways == Spec => []LossIsReal
<1> USE NumbersHold DEF Numbers
<1>1. Init => ProbeTypes /\ LossInv
  <2>1. Init => ProbeTypes
    BY DEF Init, ProbeTypes
  <2>2. Init => LossInv
    BY DEF Init, LossInv, AttemptsLeft, LossIsReal, Early, Stopping
  <2>3. QED BY <2>1, <2>2
<1>2. ProbeTypes /\ LossInv /\ [Next]_vars => (ProbeTypes /\ LossInv)'
  <2> SUFFICES ASSUME ProbeTypes, LossInv, [Next]_vars
               PROVE  LossInv'
    BY TypesPreserved
  <2>0. ProbeTypes'
    BY TypesPreserved
  <2>1. CASE QuietStep \/ UNCHANGED vars
    <3>1. Quiet
      BY <2>1, QuietSteps DEF vars, process, observed, Quiet
    <3>2. CASE Start \/ Connected \/ NotConnected \/ Told \/ Synced \/ SignalEarly \/ Kill \/ StopTimesOut
      <4>1. phase' \in {"connecting", "resolving", "down"}
        BY <3>2 DEF Start, Connected, NotConnected, Told, Synced, SignalEarly, Kill, StopTimesOut,
                    End, Enter
      <4>2. QED BY <3>1, <4>1, QuietKeeps
    <3>3. CASE NotResolved \/ PoolArm \/ ProbeRefused
      <4>1. phase' = "telling" /\ reason' # "unrecoverable"
        BY <3>3 DEF NotResolved, PoolArm, ProbeRefused, GiveUp, Enter
      <4>2. QED BY <3>1, <4>1, QuietKeeps
    <3>4. CASE Greeted \/ StreamErrorArm \/ ReloadArm \/ HandlerEnds
      <4>1. /\ phase \in {"looping", "handling", "greeting"}
            /\ phase' \in {"looping", "handling"}
        BY <3>4 DEF Greeted, StreamErrorArm, ReloadArm, HandlerEnds, Enter
      <4>2. QED BY <3>1, <4>1, QuietKeeps
    <3>5. CASE SignalArm \/ FarewellEnds \/ Flushed
      <4>1. phase \in Early /\ phase' \in Stopping
        BY <3>5 DEF SignalArm, FarewellEnds, Flushed, Enter, Early, Stopping
      <4>2. QED BY <3>1, <4>1, QuietKeeps
    <3>6. CASE LinkFails \/ LinkReturns \/ Revoke \/ PoolEnds \/ Signal \/ UNCHANGED vars
      <4>1. phase' = phase /\ reason' = reason
        BY <3>6 DEF LinkFails, LinkReturns, Revoke, PoolEnds, Signal, Outside, process, vars
      <4>2. QED BY <3>1, <4>1, QuietKeeps
    <3>7. QED BY <2>1, <3>2, <3>3, <3>4, <3>5, <3>6 DEF QuietStep, World
  <2>2. CASE Resolved \/ UpdateArm
    <3>1. failures' = 0 /\ failures' < Attempts /\ phase' \in {"greeting", "handling"}
      BY <2>2 DEF Resolved, UpdateArm, Enter
    <3>2. QED BY <3>1 DEF LossInv, AttemptsLeft, LossIsReal
  <2>3. CASE ProbeArm
    <3>1. /\ phase = "looping" /\ due /\ ~due'
          /\ UNCHANGED <<failures, clock, contact>>
          /\ phase' \in {"looping", "probing"}
      BY <2>3 DEF ProbeArm, Enter, observed
    <3>2. AttemptsLeft'
      BY <3>1 DEF LossInv, AttemptsLeft, Early
    <3>3. ASSUME failures > 0
          PROVE  contact = Cap \/ contact >= clock + Probe + (failures - 2) * Probe + 1
      BY <3>1, <3>3 DEF LossInv, Unheard
    <3>4. ASSUME failures > 0
          PROVE  Unheard(failures - 1)' /\ Unheard(failures - 2)'
      <4>1. (failures - 1) * Probe = (failures - 2) * Probe + Probe /\ (failures - 2) * Probe \in Int
        BY Products, <3>4 DEF ProbeTypes
      <4>2. contact' = Cap \/ contact' >= clock' + 0 + (failures - 1) * Probe + 1
        BY <3>1, <3>3, <3>4, <4>1 DEF ProbeTypes
      <4>3. contact' = Cap \/ contact' >= clock' + 0 + (failures - 2) * Probe + 1
        BY <3>1, <4>1, <4>2 DEF ProbeTypes
      <4>4. QED BY <3>1, <4>2, <4>3 DEF Unheard
    <3>5. ASSUME failures = 0
          PROVE  Unheard(failures - 1)'
      <4>1. contact' >= clock' + 0 + (0 - 1) * Probe + 1
        <5>1. contact' \in Nat /\ clock' \in Nat /\ clock' < Probe
          BY <2>0 DEF ProbeTypes
        <5>2. QED BY <5>1, FirstFailure
      <4>2. QED BY <3>1, <3>5, <4>1 DEF Unheard
    <3>6. QED BY <3>1, <3>2, <3>4, <3>5 DEF LossInv, LossIsReal, ProbeTypes
  <2>4. CASE ProbeAnswered
    BY <2>4 DEF ProbeAnswered, Enter, LossInv, AttemptsLeft, LossIsReal
  <2>5. CASE ProbeFailed
    <3>1. /\ phase = "probing" /\ failures' = failures + 1
          /\ UNCHANGED <<clock, due, contact>>
      BY <2>5 DEF ProbeFailed, GiveUp, observed
    <3>2. Unheard(failures - 1) /\ failures < Attempts
      BY <3>1 DEF LossInv, AttemptsLeft, Early
    <3>3. failures' - 2 = failures - 1
      BY <3>1 DEF ProbeTypes
    <3>4. CASE failures + 1 >= Attempts
      <4>1. phase' = "telling"
        BY <2>5, <3>4 DEF ProbeFailed, GiveUp, Enter
      <4>2. failures - 1 = Attempts - 2
        BY <3>2, <3>4 DEF ProbeTypes
      <4>3. contact = Cap \/ contact >= clock + (IF due THEN Probe ELSE 0) + (Attempts - 2) * Probe + 1
        BY <3>2, <4>2 DEF Unheard
      <4>4. (Attempts - 2) * Probe \in Int
        BY Products
      <4>5. contact > (Attempts - 2) * Probe
        BY <4>3, <4>4, Products DEF ProbeTypes
      <4>6. QED BY <3>1, <4>1, <4>5 DEF LossInv, AttemptsLeft, LossIsReal, Early, Stopping
    <3>5. CASE ~(failures + 1 >= Attempts)
      <4>1. phase' = "looping"
        BY <2>5, <3>5 DEF ProbeFailed, Enter
      <4>2. failures' < Attempts
        BY <3>1, <3>5 DEF ProbeTypes
      <4>3. Unheard(failures - 2)'
        BY <3>1, <3>2, <3>3 DEF Unheard
      <4>4. QED BY <4>1, <4>2, <4>3 DEF LossInv, AttemptsLeft, LossIsReal
    <3>6. QED BY <3>4, <3>5
  <2>6. CASE Elapse
    <3>1. UNCHANGED <<phase, failures, reason>>
      BY <2>6 DEF Elapse
    <3>2. AttemptsLeft'
      BY <3>1 DEF LossInv, AttemptsLeft
    <3>3. ASSUME NEW n \in Int, Unheard(n)
          PROVE  contact' = Cap \/ contact' >= clock' + (IF due' THEN Probe ELSE 0) + n * Probe + 1
      BY <2>6, <3>3, UnheardElapses
    <3>4. phase' \in {"looping", "handling"} /\ failures' > 0 => Unheard(failures - 2)'
      <4> SUFFICES ASSUME phase' \in {"looping", "handling"}, failures' > 0
                   PROVE  Unheard(failures - 2)'
        OBVIOUS
      <4>1. Unheard(failures - 2) /\ failures - 2 \in Int
        BY <3>1 DEF LossInv, ProbeTypes
      <4>2. QED BY <3>1, <3>3, <4>1 DEF Unheard
    <3>5. phase' = "probing" => Unheard(failures - 1)'
      <4> SUFFICES ASSUME phase' = "probing"
                   PROVE  Unheard(failures - 1)'
        OBVIOUS
      <4>1. Unheard(failures - 1) /\ failures - 1 \in Int
        BY <3>1 DEF LossInv, ProbeTypes
      <4>2. QED BY <3>1, <3>3, <4>1 DEF Unheard
    <3>6. contact' >= contact
      BY <2>6 DEF Elapse, UpTo, ProbeTypes
    <3>7. LossIsReal'
      <4>1. (Attempts - 2) * Probe \in Int
        BY Products
      <4>2. QED BY <2>0, <3>1, <3>6, <4>1 DEF LossInv, LossIsReal, ProbeTypes
    <3>8. QED BY <3>1, <3>2, <3>4, <3>5, <3>7 DEF LossInv
  <2>7. QED BY <2>1, <2>2, <2>3, <2>4, <2>5, <2>6
            DEF Next, StartUp, Arms, Probing, GoDown, QuietStep
<1>3. QED BY <1>1, <1>2, PTL DEF Spec, LossInv

(* The count of failures gives a bound on the dark time: an interval for   *)
(* each, one for the deadline before the first, which a young silence may  *)
(* let pass, and the part of one since. A deadline that is missed while    *)
(* the loop is busy takes no time of the loop's own.                       *)
Attended == {"greeting", "looping", "handling", "probing"}

DarkInv ==
    /\ phase \in Attended =>
          /\ silence < Probe => dark <= silence
          /\ dark + 1 <= failures * Probe + Probe + Probe
          /\ failures < Attempts
    /\ phase \in Attended \ {"probing"} /\ ~due =>
          dark + 1 <= clock + failures * Probe + Probe

(* Quiet steps keep the bound, unless they enter the loop anew.            *)
LEMMA QuietKeepsDark ==
    ASSUME DarkInv, Quiet,
           \/ phase' = phase
           \/ phase \in Attended \ {"probing"} /\ phase' \in Attended \ {"probing"}
           \/ phase' \notin Attended
    PROVE  DarkInv'
  BY DEF DarkInv, Attended, Quiet

(* The product of the count.                                               *)
LEMMA DarkOfTheCount ==
    ASSUME ProbeTypes
    PROVE  /\ failures * Probe \in Nat
           /\ (failures + 1) * Probe = failures * Probe + Probe
           /\ 0 * Probe = 0
  BY NumbersHold DEF Numbers, ProbeTypes

(* A product grows with its factor.                                        *)
LEMMA MoreIsMore ==
    ASSUME NEW m \in Nat, NEW n \in Nat, m <= n, NEW p \in Nat
    PROVE  m * p <= n * p
<1>1. PICK k \in Nat : n = m + k
  <2>1. n - m \in Nat /\ n = m + (n - m)
    OBVIOUS
  <2>2. QED BY <2>1
<1>2. n * p = m * p + k * p
  BY <1>1
<1>3. m * p \in Nat /\ k * p \in Nat
  OBVIOUS
<1>4. QED BY <1>2, <1>3

(* The bounds on the dark time where it is nothing.                        *)
LEMMA FreshBounds ==
    ASSUME NEW c \in Nat, NEW s \in Nat
    PROVE  0 <= s /\ 0 + 1 <= 0 + Probe + Probe /\ 0 + 1 <= c + 0 + Probe
  BY NumbersHold DEF Numbers

(* A loop that is free to act gives a dead link no more than one interval  *)
(* and one for every attempt, however its ticks fall (run, liveness arm).  *)
THEOREM OutageIsBoundedAlways == Spec => []OutageIsBounded
<1> USE NumbersHold DEF Numbers
<1>1. Init => ProbeTypes /\ DarkInv
  <2>1. Init => ProbeTypes
    BY DEF Init, ProbeTypes
  <2>2. Init => DarkInv
    BY DEF Init, DarkInv, Attended
  <2>3. QED BY <2>1, <2>2
<1>2. ProbeTypes /\ DarkInv /\ [Next]_vars => (ProbeTypes /\ DarkInv)'
  <2> SUFFICES ASSUME ProbeTypes, DarkInv, [Next]_vars
               PROVE  DarkInv'
    BY TypesPreserved
  <2>0. ProbeTypes'
    BY TypesPreserved
  <2>p. /\ failures * Probe \in Nat
        /\ (failures + 1) * Probe = failures * Probe + Probe
        /\ 0 * Probe = 0
    BY DarkOfTheCount
  <2>1. CASE QuietStep \/ UNCHANGED vars
    <3>1. Quiet
      BY <2>1, QuietSteps DEF vars, process, observed, Quiet
    <3>2. CASE \/ Start \/ Connected \/ NotConnected \/ Told \/ Synced \/ SignalEarly \/ Kill
               \/ StopTimesOut \/ NotResolved \/ PoolArm \/ ProbeRefused \/ SignalArm
               \/ FarewellEnds \/ Flushed
      <4>1. phase' \notin Attended
        BY <3>2 DEF Start, Connected, NotConnected, Told, Synced, SignalEarly, Kill, StopTimesOut,
                    NotResolved, PoolArm, ProbeRefused, SignalArm, FarewellEnds, Flushed,
                    End, GiveUp, Enter, Attended
      <4>2. QED BY <3>1, <4>1, QuietKeepsDark
    <3>3. CASE Greeted \/ StreamErrorArm \/ ReloadArm \/ HandlerEnds
      <4>1. phase \in Attended \ {"probing"} /\ phase' \in Attended \ {"probing"}
        BY <3>3 DEF Greeted, StreamErrorArm, ReloadArm, HandlerEnds, Enter, Attended
      <4>2. QED BY <3>1, <4>1, QuietKeepsDark
    <3>4. CASE LinkFails \/ LinkReturns \/ Revoke \/ PoolEnds \/ Signal \/ UNCHANGED vars
      <4>1. phase' = phase
        BY <3>4 DEF LinkFails, LinkReturns, Revoke, PoolEnds, Signal, Outside, process, vars
      <4>2. QED BY <3>1, <4>1, QuietKeepsDark
    <3>5. QED BY <2>1, <3>2, <3>3, <3>4 DEF QuietStep, World
  <2>2. CASE Resolved \/ UpdateArm
    <3>1. failures' = 0 /\ dark' = 0
      BY <2>2 DEF Resolved, UpdateArm
    <3>2. silence' \in Nat /\ clock' \in Nat
      BY <2>0 DEF ProbeTypes
    <3>3. failures' * Probe = 0 /\ failures' < Attempts
      BY <2>p, <3>1
    <3>4. /\ silence' < Probe => dark' <= silence'
          /\ dark' + 1 <= 0 + Probe + Probe
          /\ dark' + 1 <= clock' + 0 + Probe
      BY <3>1, <3>2, FreshBounds
    <3>5. QED BY <3>3, <3>4 DEF DarkInv
  <2>3. CASE ProbeArm
    <3>1. /\ phase = "looping" /\ phase' \in {"looping", "probing"}
          /\ UNCHANGED <<silence, failures, clock, dark>>
          /\ phase' = "looping" => silence < Probe
      BY <2>3 DEF ProbeArm, Enter, observed, ProbeTypes
    <3>2. phase' = "looping" => dark + 1 <= clock + failures * Probe + Probe
      BY <2>p, <3>1 DEF DarkInv, Attended, ProbeTypes
    <3>3. QED BY <3>1, <3>2 DEF DarkInv, Attended
  <2>4. CASE ProbeAnswered
    <3>1. failures' = 0 /\ dark' = 0
      BY <2>4 DEF ProbeAnswered
    <3>2. silence' \in Nat /\ clock' \in Nat
      BY <2>0 DEF ProbeTypes
    <3>3. failures' * Probe = 0 /\ failures' < Attempts
      BY <2>p, <3>1
    <3>4. /\ silence' < Probe => dark' <= silence'
          /\ dark' + 1 <= 0 + Probe + Probe
          /\ dark' + 1 <= clock' + 0 + Probe
      BY <3>1, <3>2, FreshBounds
    <3>5. QED BY <3>3, <3>4 DEF DarkInv
  <2>5. CASE ProbeFailed
    <3>1. /\ phase = "probing" /\ failures' = failures + 1
          /\ phase' = "telling" \/ (phase' = "looping" /\ failures + 1 < Attempts)
          /\ UNCHANGED <<silence, clock, dark>>
      <4>1. /\ phase = "probing" /\ failures' = failures + 1
            /\ UNCHANGED <<silence, clock, dark>>
        BY <2>5 DEF ProbeFailed, GiveUp, observed
      <4>2. phase' = "telling" \/ (phase' = "looping" /\ ~(failures + 1 >= Attempts))
        BY <2>5 DEF ProbeFailed, GiveUp, Enter
      <4>3. QED BY <4>1, <4>2 DEF ProbeTypes
    <3>2. (failures + 1) * Probe \in Nat
      BY <2>p
    <3>3. /\ dark + 1 <= (failures + 1) * Probe + Probe
          /\ silence < Probe => dark <= silence
      BY <2>p, <3>1 DEF DarkInv, Attended, ProbeTypes
    <3>4. CASE phase' = "looping"
      <4>1. silence' < Probe => dark' <= silence'
        BY <3>1, <3>3
      <4>2. dark' + 1 <= failures' * Probe + Probe + Probe /\ dark' + 1 <= clock' + failures' * Probe + Probe
        BY <3>1, <3>2, <3>3 DEF ProbeTypes
      <4>3. failures' < Attempts
        BY <3>1, <3>4
      <4>4. QED BY <4>1, <4>2, <4>3 DEF DarkInv
    <3>5. CASE phase' = "telling"
      <4>1. phase' \notin Attended
        BY <3>5 DEF Attended
      <4>2. QED BY <4>1 DEF DarkInv
    <3>6. QED BY <3>1, <3>4, <3>5
  <2>6. CASE Elapse
    <3>1. /\ UNCHANGED <<phase, failures>>
          /\ dark' = dark \/ (phase = "looping" /\ ~due /\ dark' \in {dark, dark + 1})
          /\ silence' = (IF silence < Probe THEN silence + 1 ELSE silence)
      BY <2>6 DEF Elapse, MayLast, UpTo
    <3>2. clock' = (IF clock + 1 = Probe THEN 0 ELSE clock + 1)
      BY <2>6 DEF Elapse, ProbeTypes
    <3>3. ~due' => ~due /\ clock' # 0
      BY <2>6 DEF Elapse
    <3>4. phase \in Attended /\ silence' < Probe => dark' <= silence'
      BY <3>1 DEF DarkInv, ProbeTypes
    <3>5. phase \in Attended => dark' + 1 <= failures * Probe + Probe + Probe
      BY <2>p, <3>1 DEF DarkInv, ProbeTypes, Attended
    <3>6. phase \in Attended \ {"probing"} /\ ~due' => dark' + 1 <= clock' + failures * Probe + Probe
      BY <2>p, <3>1, <3>2, <3>3 DEF DarkInv, ProbeTypes, Attended
    <3>7. phase \in Attended => failures' < Attempts
      BY <3>1 DEF DarkInv
    <3>8. phase' = phase /\ failures' = failures
      BY <3>1
    <3>9. /\ phase' \in Attended =>
                /\ silence' < Probe => dark' <= silence'
                /\ dark' + 1 <= failures' * Probe + Probe + Probe
                /\ failures' < Attempts
          /\ phase' \in Attended \ {"probing"} /\ ~due' =>
                dark' + 1 <= clock' + failures' * Probe + Probe
      BY <3>4, <3>5, <3>6, <3>7, <3>8
    <3>10. QED BY <3>9 DEF DarkInv
  <2>7. QED BY <2>1, <2>2, <2>3, <2>4, <2>5, <2>6
            DEF Next, StartUp, Arms, Probing, GoDown, QuietStep
<1>3. ProbeTypes /\ DarkInv => OutageIsBounded
  <2> SUFFICES ASSUME ProbeTypes, DarkInv, phase \in InLoop
               PROVE  dark < (Attempts + 1) * Probe
    BY DEF OutageIsBounded
  <2>1. dark + 1 <= failures * Probe + Probe + Probe /\ failures < Attempts
    BY DEF DarkInv, InLoop, Attended
  <2>2. failures * Probe <= (Attempts - 1) * Probe
    BY <2>1, MoreIsMore DEF ProbeTypes
  <2>3. (Attempts + 1) * Probe = (Attempts - 1) * Probe + 2 * Probe /\ (Attempts - 1) * Probe \in Int
    OBVIOUS
  <2>4. failures * Probe \in Nat
    BY DarkOfTheCount
  <2>5. QED BY <2>1, <2>2, <2>3, <2>4 DEF ProbeTypes
<1>4. QED BY <1>1, <1>2, <1>3, PTL DEF Spec
-----------------------------------------------------------------------------
(* What is resolved next has been loaded. *)
ResolvedIsLoaded == stage \in {"resolving", "reloading"} => Loadable(config)

(* A snapshot made of a file that loads has an address for every           *)
(* destination, whichever routes resolved.                                 *)
LEMMA LoadableRoutes ==
    ASSUME NEW f, Loadable(f), NEW rs \in SUBSET Text[f].routes,
           live' = [routes |-> rs, hooks |-> Hooks(f)]
    PROVE  RoutesHaveHooks'
  BY DEF Loadable, RoutesHaveHooks

(* Every destination of a live route has its address in the same snapshot, *)
(* at every moment of every process (Config::load, the swap of Live).      *)
THEOREM RoutesHaveHooksAlways == ReloadSpec => []RoutesHaveHooks
<1> DEFINE Inv == ResolvedIsLoaded /\ RoutesHaveHooks
<1>1. ReloadInit => Inv
  BY DEF ReloadInit, Nothing, ResolvedIsLoaded, RoutesHaveHooks
<1>2. Inv /\ [ReloadNext]_reloadVars => Inv'
  <2> SUFFICES ASSUME Inv, [ReloadNext]_reloadVars
               PROVE  Inv'
    OBVIOUS
  <2>1. ASSUME live' = live
        PROVE  RoutesHaveHooks'
    BY <2>1 DEF RoutesHaveHooks
  <2>2. ASSUME config' = config, stage' = stage \/ stage' \notin {"resolving", "reloading"}
        PROVE  ResolvedIsLoaded'
    BY <2>2 DEF ResolvedIsLoaded, Loadable
  <2>3. CASE Load
    BY <2>3 DEF Load, Nothing, ResolvedIsLoaded, RoutesHaveHooks, Loadable
  <2>4. CASE ResolveStart \/ Swap
    <3>1. Loadable(config)
      BY <2>4 DEF ResolveStart, Swap, ResolvedIsLoaded
    <3>2. RoutesHaveHooks'
      BY <2>4, <3>1, LoadableRoutes DEF ResolveStart, Swap
    <3>3. QED BY <2>2, <2>4, <3>2 DEF ResolveStart, Swap
  <2>5. CASE ReloadRead
    BY <2>1, <2>5 DEF ReloadRead, liveVars, ResolvedIsLoaded, Loadable
  <2>6. CASE Settle \/ ReloadTick \/ ReloadRejected \/ SwapFails \/ Edit \/ Die
    BY <2>1, <2>2, <2>6
    DEF Settle, ReloadTick, ReloadRejected, SwapFails, Edit, Die, liveVars
  <2>7. CASE UNCHANGED reloadVars
    BY <2>1, <2>2, <2>7 DEF reloadVars, liveVars
  <2>8. QED BY <2>3, <2>4, <2>5, <2>6, <2>7 DEF ReloadNext, ReloadStep
<1>3. QED BY <1>1, <1>2, PTL DEF ReloadSpec

(* What was read is still the file, or the file's time gives it away, or   *)
(* the file was edited while the process started.                          *)
ReadIsKnown ==
    /\ mtime \in Nat /\ seen \in Nat /\ seen <= mtime
    /\ stage \in {"resolving", "settling"} => config = file \/ early
    /\ stage = "reloading" => config = file \/ seen # mtime

(* The snapshot is what was resolved of the contents loaded. *)
Reflects(f) ==
    /\ live.hooks = Hooks(f)
    /\ live.routes \subseteq Text[f].routes
    /\ Skipped(f, live.routes) \subseteq told

SettlingReflects == stage = "settling" => Reflects(config)

(* An idle loop whose routes are not those of the file has been refused    *)
(* the reload, or is going to load an edit, or was edited under while it   *)
(* started, or has told what it left out (run, reload).                    *)
THEOREM LagIsExcusedAlways == ReloadSpec => []LagIsExcused
<1> DEFINE Inv == ReadIsKnown /\ SettlingReflects /\ LagIsExcused
<1>0. InForce <=> Reflects(file)
  BY DEF InForce, Reflects, Skipped
<1>1. ReloadInit => Inv
  BY DEF ReloadInit, ReadIsKnown, SettlingReflects, LagIsExcused
<1>2. Inv /\ [ReloadNext]_reloadVars => Inv'
  <2> SUFFICES ASSUME Inv, [ReloadNext]_reloadVars
               PROVE  Inv'
    OBVIOUS
  <2>1. CASE Edit
    <3>1. ReadIsKnown'
      <4>1. mtime' \in Nat /\ seen' \in Nat /\ seen' <= mtime' /\ seen' # mtime'
        BY <2>1 DEF Edit, ReadIsKnown
      <4>2. stage' \in {"resolving", "settling"} => early'
        BY <2>1 DEF Edit
      <4>3. QED BY <4>1, <4>2 DEF ReadIsKnown
    <3>2. SettlingReflects'
      BY <2>1 DEF Edit, liveVars, SettlingReflects, Reflects, Skipped
    <3>3. seen' # mtime'
      BY <2>1 DEF Edit, ReadIsKnown
    <3>4. QED BY <3>1, <3>2, <3>3 DEF LagIsExcused
  <2>2. CASE Load
    BY <2>2 DEF Load, ReadIsKnown, SettlingReflects, LagIsExcused
  <2>3. CASE ResolveStart
    <3>1. ReadIsKnown' /\ LagIsExcused'
      BY <2>3 DEF ResolveStart, ReadIsKnown, LagIsExcused
    <3>2. SettlingReflects'
      BY <2>3 DEF ResolveStart, SettlingReflects, Reflects, Skipped
    <3>3. QED BY <3>1, <3>2
  <2>4. CASE Settle
    <3>1. ReadIsKnown' /\ SettlingReflects'
      BY <2>4 DEF Settle, ReadIsKnown, SettlingReflects
    <3>2. CASE early
      <4>1. early'
        BY <2>4, <3>2 DEF Settle
      <4>2. QED BY <3>1, <4>1 DEF LagIsExcused
    <3>3. CASE config = file
      <4>1. InForce
        BY <2>4, <3>3, <1>0 DEF Settle, SettlingReflects
      <4>2. InForce'
        BY <2>4, <4>1 DEF Settle, liveVars, InForce
      <4>3. QED BY <3>1, <4>2 DEF LagIsExcused
    <3>4. QED BY <2>4, <3>1, <3>2, <3>3 DEF Settle, ReadIsKnown
  <2>5. CASE ReloadTick
    BY <2>5 DEF ReloadTick, ReadIsKnown, SettlingReflects, LagIsExcused
  <2>6. CASE ReloadRead
    BY <2>6 DEF ReloadRead, ReadIsKnown, SettlingReflects, LagIsExcused
  <2>7. CASE ReloadRejected \/ SwapFails
    BY <2>7 DEF ReloadRejected, SwapFails, ReadIsKnown, SettlingReflects, LagIsExcused
  <2>8. CASE Swap
    <3>1. ReadIsKnown' /\ SettlingReflects'
      BY <2>8 DEF Swap, ReadIsKnown, SettlingReflects
    <3>2. CASE seen # mtime
      BY <2>8, <3>1, <3>2 DEF Swap, LagIsExcused
    <3>3. CASE config = file
      <4>1. InForce'
        BY <2>8, <3>3 DEF Swap, InForce, Skipped
      <4>2. QED BY <3>1, <4>1 DEF LagIsExcused
    <3>4. QED BY <2>8, <3>2, <3>3 DEF Swap, ReadIsKnown
  <2>9. CASE Die
    BY <2>9 DEF Die, ReadIsKnown, SettlingReflects, LagIsExcused
  <2>10. CASE UNCHANGED reloadVars
    BY <2>10 DEF reloadVars, liveVars, ReadIsKnown, SettlingReflects, Reflects,
                 Skipped, LagIsExcused, InForce
  <2>11. QED BY <2>1, <2>2, <2>3, <2>4, <2>5, <2>6, <2>7, <2>8, <2>9, <2>10
             DEF ReloadNext, ReloadStep
<1>3. QED BY <1>1, <1>2, PTL DEF ReloadSpec
=============================================================================
