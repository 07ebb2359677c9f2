---------------------------- MODULE EmbedsProofs ----------------------------
(***************************************************************************)
(* Proofs about the media of a message, for any album, any text and any    *)
(* number of edits.                                                        *)
(***************************************************************************)
EXTENDS Embeds, DataLemmas, TLAPS

(* q is what is left of s at the places A, in their order.                 *)
IsLeft(q, s, A) == \E n \in Nat : \E e : Enumerates(e, n, A) /\ q = [j \in 1..n |-> s[e[j]]]

(* One element more: it is left, or not.                                   *)
LEMMA OneMoreLeft ==
    ASSUME NEW s, NEW places, NEW m \in Nat,
           NEW q, IsLeft(q, s, places \cap (1..m)),
           NEW r, r = IF m + 1 \in places THEN Append(q, s[m + 1]) ELSE q
    PROVE  IsLeft(r, s, places \cap (1..m + 1))
<1>n. PICK n \in Nat : \E e : /\ Enumerates(e, n, places \cap (1..m))
                              /\ q = [j \in 1..n |-> s[e[j]]]
  BY DEF IsLeft
<1>1. PICK e : /\ Enumerates(e, n, places \cap (1..m))
               /\ q = [j \in 1..n |-> s[e[j]]]
  BY <1>n
<1>2. CASE m + 1 \notin places
  <2>1. places \cap (1..m) = places \cap (1..m + 1)
    BY <1>2
  <2>2. QED BY <1>2, <2>1
<1>3. CASE m + 1 \in places
  <2> DEFINE f == [j \in 1..n + 1 |-> IF j = n + 1 THEN m + 1 ELSE e[j]]
  <2>1. Enumerates(f, n + 1, places \cap (1..m + 1))
    <3>1. places \cap (1..m) \in SUBSET Nat /\ \A a \in places \cap (1..m) : a < m + 1
      OBVIOUS
    <3>2. places \cap (1..m + 1) = (places \cap (1..m)) \cup {m + 1}
      BY <1>3
    <3> DEFINE A == places \cap (1..m)
    <3>3. A \in SUBSET Nat /\ (\A a \in A : a < m + 1) /\ Enumerates(e, n, A) /\ m + 1 \in Nat
      BY <1>1, <3>1
    <3> HIDE DEF A
    <3>4. Enumerates(f, n + 1, A \cup {m + 1})
      BY <3>3, EnumerationGrows
    <3>5. QED BY <3>2, <3>4 DEF A
  <2>2. Append(q, s[m + 1]) = [j \in 1..n + 1 |-> s[f[j]]]
    BY <1>1
  <2> HIDE DEF f
  <2>3. n + 1 \in Nat
    OBVIOUS
  <2>4. IsLeft(Append(q, s[m + 1]), s, places \cap (1..m + 1))
    BY <2>1, <2>2, <2>3 DEF IsLeft
  <2>5. QED BY <1>3, <2>4
<1>4. QED BY <1>2, <1>3

(* Kept keeps what its name says, in the order it had.                     *)
LEMMA KeptIsLeft ==
    ASSUME NEW L \in Nat, NEW X, NEW s \in [1..L -> X], NEW places
    PROVE  IsLeft(Kept(s, places), s, places \cap (1..L))
<1> DEFINE D == 1..L
           id == [i \in DOMAIN s |-> i]
           pick == [t \in SUBSET D |-> Max(t)]
           step == [p \in Seq(X) \X D |->
                      IF p[2] \in places THEN Append(p[1], s[p[2]]) ELSE p[1]]
           IsFold(h) == h = [t \in SUBSET DOMAIN id |->
              IF t = {} THEN <<>>
              ELSE IF id[Max(t)] \in places
                   THEN Append(h[t \ {Max(t)}], s[id[Max(t)]])
                   ELSE h[t \ {Max(t)}]]
           fold == CHOOSE h : IsFold(h)
<1>1. Kept(s, places) = fold[DOMAIN id]
  BY DEF Kept, FoldLeftDomain, FoldLeft, MapThenFoldSet
<1>2. DOMAIN id = D /\ \A i \in D : id[i] = i /\ s[i] \in X
  OBVIOUS
<1>3. Picks(pick, D)
  BY MaxIsGreatest DEF Picks
<1>4. \E h \in [SUBSET D -> Seq(X)] : IsFold(h)
  <2>1. IsFiniteSet(D)
    BY FS_Interval
  <2>2. step \in [Seq(X) \X D -> Seq(X)]
    BY <1>2
  <2>3. PICK h \in [SUBSET D -> Seq(X)] : Folds(h, D, <<>>, pick, step)
    <3>1. <<>> \in Seq(X)
      OBVIOUS
    <3> HIDE DEF D, pick, step, IsFold
    <3>2. QED BY <1>3, <2>1, <2>2, <3>1, FoldIsDefined
  <2>4. ASSUME NEW t \in SUBSET D, t # {}
        PROVE  h[t] = IF id[Max(t)] \in places
                      THEN Append(h[t \ {Max(t)}], s[id[Max(t)]])
                      ELSE h[t \ {Max(t)}]
    <3>1. pick[t] = Max(t) /\ Max(t) \in D /\ h[t \ {Max(t)}] \in Seq(X)
      BY <1>3, <2>4 DEF Picks
    <3>2. h[t] = step[<<h[t \ {Max(t)}], Max(t)>>]
      BY <2>3, <2>4, <3>1 DEF Folds
    <3>3. QED BY <1>2, <3>1, <3>2
  <2>5. IsFold(h)
    BY <1>2, <2>3, <2>4 DEF Folds
  <2> HIDE DEF IsFold
  <2>6. QED BY <2>5
<1>5. IsFold(fold)
  <2> HIDE DEF IsFold
  <2>1. QED BY <1>4
<1>6. fold[{}] = <<>>
  BY <1>5
<1>7. ASSUME NEW m \in Nat, m + 1 <= L
      PROVE  fold[1..m + 1] = IF m + 1 \in places THEN Append(fold[1..m], s[m + 1]) ELSE fold[1..m]
  <2>1. 1..m + 1 \in SUBSET D /\ 1..m + 1 # {} /\ m + 1 \in D
    <3>1. \A i \in 1..m + 1 : i \in 1..L
      BY <1>7
    <3>2. m + 1 \in 1..m + 1
      OBVIOUS
    <3>3. QED BY <3>1, <3>2
  <2>2. Max(1..m + 1) = m + 1
    <3>1. m + 1 \in Nat /\ m + 1 \in 1..m + 1
      OBVIOUS
    <3>2. Max(1..m + 1) \in 1..m + 1 /\ \A y \in 1..m + 1 : y <= Max(1..m + 1)
      BY <3>1, MaxIsGreatest
    <3>3. QED BY <3>1, <3>2
  <2>3. (1..m + 1) \ {m + 1} = 1..m
    OBVIOUS
  <2>4. DOMAIN id = D /\ id[m + 1] = m + 1
    BY <1>2, <2>1
  <2>5. fold[1..m + 1] = IF id[Max(1..m + 1)] \in places
                         THEN Append(fold[(1..m + 1) \ {Max(1..m + 1)}], s[id[Max(1..m + 1)]])
                         ELSE fold[(1..m + 1) \ {Max(1..m + 1)}]
    <3> HIDE DEF fold, D, id
    <3>1. QED BY <1>5, <2>1, <2>4
  <2> HIDE DEF fold, D, id
  <2>6. QED BY <2>2, <2>3, <2>4, <2>5
<1> DEFINE S == {m \in Nat : m <= L => IsLeft(fold[1..m], s, places \cap (1..m))}
<1>8. 0 \in S
  <2>1. 1..0 = {} /\ places \cap (1..0) = {}
    OBVIOUS
  <2>2. Enumerates(<<>>, 0, {})
    BY DEF Enumerates
  <2>3. [j \in 1..0 |-> s[<<>>[j]]] = <<>>
    OBVIOUS
  <2>4. IsLeft(<<>>, s, {})
    BY <2>2, <2>3 DEF IsLeft
  <2>5. QED BY <1>6, <2>1, <2>4
<1>9. \A m \in Nat : m \in S => m + 1 \in S
  <2> HIDE DEF fold
  <2>1. ASSUME NEW m \in Nat, m <= L => IsLeft(fold[1..m], s, places \cap (1..m)), m + 1 <= L
        PROVE  IsLeft(fold[1..m + 1], s, places \cap (1..m + 1))
    <3>1. m <= L
      BY <2>1
    <3>2. IsLeft(fold[1..m], s, places \cap (1..m))
      BY <2>1, <3>1
    <3>3. fold[1..m + 1] = IF m + 1 \in places THEN Append(fold[1..m], s[m + 1]) ELSE fold[1..m]
      BY <1>7, <2>1
    <3> DEFINE q == fold[1..m]
               r == fold[1..m + 1]
    <3>4. IsLeft(q, s, places \cap (1..m)) /\ r = IF m + 1 \in places THEN Append(q, s[m + 1]) ELSE q
      BY <3>2, <3>3
    <3> HIDE DEF q, r
    <3>5. IsLeft(r, s, places \cap (1..m + 1))
      BY <3>4, OneMoreLeft
    <3>6. QED BY <3>5 DEF r
  <2>2. ASSUME NEW m \in Nat, m \in S
        PROVE  m + 1 \in S
    <3>1. m <= L => IsLeft(fold[1..m], s, places \cap (1..m))
      BY <2>2
    <3>2. m + 1 <= L => IsLeft(fold[1..m + 1], s, places \cap (1..m + 1))
      BY <2>1, <3>1
    <3>3. m + 1 \in Nat
      OBVIOUS
    <3>4. QED BY <3>2, <3>3
  <2> HIDE DEF S
  <2>3. QED BY <2>2
<1>10. L \in S
  <2> HIDE DEF S
  <2>1. QED BY <1>8, <1>9, NatSetInduction
<1> HIDE DEF fold
<1>11. QED BY <1>1, <1>2, <1>10
-----------------------------------------------------------------------------
(* Each file of the album is uploaded once, in its place, with its kind    *)
(* and a name.                                                             *)
UploadedUpTo(files, b, m) ==
    /\ Len(files) = m /\ files = [i \in 1..m |-> files[i]]
    /\ \A i \in 1..m : files[i].number = i /\ files[i].image = b[i].image /\ files[i].name # <<>>

(* One file more, its own name taken or not.                               *)
LEMMA OneMoreUpload ==
    ASSUME NEW b \in Batches, NEW m \in Nat, m + 1 <= Len(b),
           NEW q, UploadedUpTo(q, b, m), NEW taken \in BOOLEAN,
           NEW r, r = Append(q, [number |-> m + 1, image |-> b[m + 1].image,
                                 name |-> IF taken THEN Append(b[m + 1].name, m + 1)
                                                   ELSE b[m + 1].name])
    PROVE  UploadedUpTo(r, b, m + 1)
<1> DEFINE name == IF taken THEN Append(b[m + 1].name, m + 1) ELSE b[m + 1].name
           file == [number |-> m + 1, image |-> b[m + 1].image, name |-> name]
<1>1. m + 1 \in DOMAIN b
  BY EmbedsAssumption
<1>2. name # <<>>
  <2>1. b[m + 1].name \in Seq(ToSet(b[m + 1].name)) \ {<<>>}
    BY <1>1, EmbedsAssumption
  <2>2. Append(b[m + 1].name, m + 1) # <<>>
    BY <2>1
  <2>3. QED BY <2>1, <2>2
<1>3. file.number = m + 1 /\ file.image = b[m + 1].image /\ file.name # <<>>
  BY <1>2
<1> HIDE DEF name, file
<1>4. r = Append(q, file)
  BY DEF file, name
<1>5. Len(q) = m /\ DOMAIN q = 1..m
  BY DEF UploadedUpTo
<1>6. /\ Len(r) = m + 1 /\ r = [i \in 1..m + 1 |-> r[i]] /\ r[m + 1] = file
      /\ \A i \in 1..m : r[i] = q[i]
  BY <1>4, <1>5
<1>7. \A i \in 1..m + 1 : i = m + 1 \/ i \in 1..m
  OBVIOUS
<1>8. QED BY <1>3, <1>6, <1>7 DEF UploadedUpTo

(* So all of them are, by recursion along the album.                       *)
LEMMA UploadsAreNumbered ==
    ASSUME NEW b \in Batches
    PROVE  UploadedUpTo(Uploads(b), b, Len(b))
<1> DEFINE L == Len(b)
           D == 1..L
           id == [i \in DOMAIN b |-> i]
           pick == [t \in SUBSET D |-> Max(t)]
           Names == {b[i].name : i \in D} \cup {Append(b[i].name, i) : i \in D}
           File == [number : D, image : BOOLEAN, name : Names]
           X == Seq(File)
           Added(files, i) ==
              Append(files, [number |-> i, image |-> b[i].image,
                             name |-> IF \E k \in DOMAIN files : files[k].name = b[i].name
                                      THEN Append(b[i].name, i) ELSE b[i].name])
           step == [p \in X \X D |-> Added(p[1], p[2])]
           IsFold(h) == h = [t \in SUBSET DOMAIN id |->
              IF t = {} THEN <<>> ELSE Added(h[t \ {Max(t)}], id[Max(t)])]
           fold == CHOOSE h : IsFold(h)
<1>0. L \in Nat /\ DOMAIN b = D /\ \A i \in D : b[i].image \in BOOLEAN
  BY EmbedsAssumption
<1>1. Uploads(b) = fold[DOMAIN id]
  BY DEF Uploads, FoldLeftDomain, FoldLeft, MapThenFoldSet
<1>2. DOMAIN id = D /\ \A i \in D : id[i] = i
  BY <1>0
<1>3. Picks(pick, D)
  BY <1>0, MaxIsGreatest DEF Picks
<1>4. \E h : IsFold(h)
  <2>1. IsFiniteSet(D)
    BY <1>0, FS_Interval
  <2>2. step \in [X \X D -> X]
    <3>1. ASSUME NEW files \in X, NEW i \in D
          PROVE  Added(files, i) \in X
      <4> DEFINE nm == IF \E k \in DOMAIN files : files[k].name = b[i].name
                       THEN Append(b[i].name, i) ELSE b[i].name
      <4>1. nm \in Names
        OBVIOUS
      <4> HIDE DEF nm, Names
      <4>2. [number |-> i, image |-> b[i].image, name |-> nm] \in File
        BY <1>0, <4>1
      <4> HIDE DEF File
      <4>3. Append(files, [number |-> i, image |-> b[i].image, name |-> nm]) \in Seq(File)
        BY <4>2
      <4>4. QED BY <4>3 DEF nm
    <3> HIDE DEF X, Added, D
    <3>2. QED BY <3>1
  <2>3. PICK h \in [SUBSET D -> X] : Folds(h, D, <<>>, pick, step)
    <3>1. <<>> \in X
      OBVIOUS
    <3> HIDE DEF D, pick, step, IsFold, X
    <3>2. QED BY <1>3, <2>1, <2>2, <3>1, FoldIsDefined
  <2>4. ASSUME NEW t \in SUBSET D, t # {}
        PROVE  h[t] = Added(h[t \ {Max(t)}], id[Max(t)])
    <3>1. pick[t] = Max(t) /\ Max(t) \in D /\ h[t \ {Max(t)}] \in X
      BY <1>3, <2>4 DEF Picks
    <3>2. h[t] = step[<<h[t \ {Max(t)}], Max(t)>>]
      BY <2>3, <2>4, <3>1 DEF Folds
    <3> HIDE DEF Added, D, X, id, pick
    <3>3. QED BY <1>2, <3>1, <3>2
  <2>5. IsFold(h)
    <3> HIDE DEF Added, D, id, pick, step
    <3>1. h = [t \in SUBSET D |-> h[t]] /\ h[{}] = <<>>
      BY <2>3 DEF Folds
    <3>2. QED BY <1>2, <2>4, <3>1
  <2> HIDE DEF IsFold
  <2>6. QED BY <2>5
<1>5. IsFold(fold)
  <2> HIDE DEF IsFold
  <2>1. QED BY <1>4
<1>6. fold[{}] = <<>>
  <2> HIDE DEF fold, Added
  <2>1. QED BY <1>5
<1>7. ASSUME NEW m \in Nat, m + 1 <= L
      PROVE  fold[1..m + 1] = Added(fold[1..m], m + 1)
  <2>1. 1..m + 1 \in SUBSET D /\ 1..m + 1 # {} /\ m + 1 \in D
    <3>1. \A i \in 1..m + 1 : i \in D
      BY <1>0, <1>7
    <3>2. m + 1 \in 1..m + 1
      OBVIOUS
    <3>3. QED BY <3>1, <3>2
  <2>2. Max(1..m + 1) = m + 1
    <3>1. m + 1 \in Nat /\ m + 1 \in 1..m + 1
      OBVIOUS
    <3>2. Max(1..m + 1) \in 1..m + 1 /\ \A y \in 1..m + 1 : y <= Max(1..m + 1)
      BY <3>1, MaxIsGreatest
    <3>3. QED BY <3>1, <3>2
  <2>3. (1..m + 1) \ {m + 1} = 1..m
    OBVIOUS
  <2> HIDE DEF fold, D, id, Added
  <2>4. fold[1..m + 1] = Added(fold[(1..m + 1) \ {Max(1..m + 1)}], id[Max(1..m + 1)])
    BY <1>2, <1>5, <2>1
  <2>5. QED BY <1>2, <2>1, <2>2, <2>3, <2>4
<1> DEFINE S == {m \in Nat : m <= L => UploadedUpTo(fold[1..m], b, m)}
<1>8. 0 \in S
  <2> HIDE DEF fold
  <2>1. 1..0 = {}
    OBVIOUS
  <2>2. UploadedUpTo(<<>>, b, 0)
    BY DEF UploadedUpTo
  <2>3. QED BY <1>6, <2>1, <2>2
<1>9. \A m \in Nat : m \in S => m + 1 \in S
  <2> HIDE DEF fold
  <2>1. ASSUME NEW m \in Nat, m <= L => UploadedUpTo(fold[1..m], b, m), m + 1 <= L
        PROVE  UploadedUpTo(fold[1..m + 1], b, m + 1)
    <3> DEFINE q == fold[1..m]
               r == fold[1..m + 1]
               taken == \E k \in DOMAIN q : q[k].name = b[m + 1].name
    <3>1. m <= L
      BY <1>0, <2>1
    <3>2. UploadedUpTo(q, b, m)
      BY <2>1, <3>1
    <3>3. r = Append(q, [number |-> m + 1, image |-> b[m + 1].image,
                         name |-> IF taken THEN Append(b[m + 1].name, m + 1) ELSE b[m + 1].name])
      BY <1>7, <2>1
    <3>4. taken \in BOOLEAN
      OBVIOUS
    <3> HIDE DEF q, r, taken
    <3>5. UploadedUpTo(r, b, m + 1)
      BY <2>1, <3>2, <3>3, <3>4, OneMoreUpload
    <3>6. QED BY <3>5 DEF r
  <2>2. ASSUME NEW m \in Nat, m \in S
        PROVE  m + 1 \in S
    <3>1. m <= L => UploadedUpTo(fold[1..m], b, m)
      BY <2>2
    <3>2. m + 1 <= L => UploadedUpTo(fold[1..m + 1], b, m + 1)
      BY <2>1, <3>1
    <3>3. m + 1 \in Nat
      OBVIOUS
    <3>4. QED BY <3>2, <3>3
  <2> HIDE DEF S
  <2>3. QED BY <2>2
<1>10. L \in S
  <2> HIDE DEF S
  <2>1. QED BY <1>0, <1>8, <1>9, NatSetInduction
<1> HIDE DEF fold
<1>11. QED BY <1>0, <1>1, <1>2, <1>10
-----------------------------------------------------------------------------
ImagePlaces(b) == {i \in DOMAIN b : b[i].image}
Numbers(files) == [j \in DOMAIN files |-> files[j].number]

(* What the files of a message must be for its refreshes to be right:      *)
(* files of the album, all of them, the images in its order.               *)
Known(files, b) ==
    /\ files \in Seq(ToSet(Uploads(b)))
    /\ {files[k].number : k \in DOMAIN files} = DOMAIN b
    /\ NamesDistinct(b) =>
          Enumerates(Numbers(Images(files)), Len(Images(files)), ImagePlaces(b))

(* An uploaded file is told by its number.                                 *)
LEMMA UploadFacts ==
    ASSUME NEW b \in Batches
    PROVE  /\ Len(b) \in Nat /\ DOMAIN b = 1..Len(b)
           /\ Uploads(b) \in [1..Len(b) -> ToSet(Uploads(b))]
           /\ Uploads(b) \in Seq(ToSet(Uploads(b)))
           /\ \A i \in 1..Len(b) : Uploads(b)[i].number = i
           /\ \A f \in ToSet(Uploads(b)) :
                 /\ f.number \in 1..Len(b) /\ Uploads(b)[f.number] = f
                 /\ f.image = b[f.number].image /\ f.image \in BOOLEAN /\ f.name # <<>>
<1> DEFINE u == Uploads(b)
<1>1. Len(b) \in Nat /\ DOMAIN b = 1..Len(b) /\ \A i \in 1..Len(b) : b[i].image \in BOOLEAN
  BY EmbedsAssumption
<1>2. UploadedUpTo(u, b, Len(b))
  BY UploadsAreNumbered
<1>3. DOMAIN u = 1..Len(b)
      /\ \A i \in 1..Len(b) : u[i].number = i /\ u[i].image = b[i].image /\ u[i].name # <<>>
  BY <1>2 DEF UploadedUpTo
<1> HIDE DEF u
<1>4. \A i \in 1..Len(b) : u[i] \in ToSet(u)
  BY <1>3 DEF ToSet
<1>5. u \in [1..Len(b) -> ToSet(u)]
  <2>1. u = [i \in 1..Len(b) |-> u[i]]
    BY <1>2 DEF UploadedUpTo
  <2>2. QED BY <1>4, <2>1
<1>6. u \in Seq(ToSet(u))
  BY <1>1, <1>5
<1>7. \A f \in ToSet(u) : \E i \in 1..Len(b) : f = u[i]
  BY <1>3 DEF ToSet
<1>8. \A f \in ToSet(u) :
        /\ f.number \in 1..Len(b) /\ u[f.number] = f
        /\ f.image = b[f.number].image /\ f.image \in BOOLEAN /\ f.name # <<>>
  BY <1>1, <1>3, <1>7
<1>9. QED BY <1>1, <1>3, <1>5, <1>6, <1>8 DEF u

(* What is kept of a sequence is a sequence, and so are a list's images.   *)
LEMMA KeptIsASequence ==
    ASSUME NEW X, NEW s \in Seq(X), NEW places
    PROVE  /\ IsLeft(Kept(s, places), s, places \cap (1..Len(s)))
           /\ Kept(s, places) \in Seq(X)
<1>1. Len(s) \in Nat /\ s \in [1..Len(s) -> X]
  OBVIOUS
<1>2. IsLeft(Kept(s, places), s, places \cap (1..Len(s)))
  <2> DEFINE L == Len(s)
  <2>1. L \in Nat /\ s \in [1..L -> X]
    BY <1>1
  <2> HIDE DEF L
  <2>2. IsLeft(Kept(s, places), s, places \cap (1..L))
    BY <2>1, KeptIsLeft
  <2>3. QED BY <2>2 DEF L
<1>n. PICK n \in Nat : \E e : /\ Enumerates(e, n, places \cap (1..Len(s)))
                              /\ Kept(s, places) = [j \in 1..n |-> s[e[j]]]
  BY <1>2 DEF IsLeft
<1>3. PICK e : /\ Enumerates(e, n, places \cap (1..Len(s)))
               /\ Kept(s, places) = [j \in 1..n |-> s[e[j]]]
  BY <1>n
<1>4. \A j \in 1..n : e[j] \in 1..Len(s)
  BY <1>3 DEF Enumerates
<1>5. Kept(s, places) \in [1..n -> X]
  BY <1>1, <1>3, <1>4
<1>6. QED BY <1>2, <1>5

(* The files as they were uploaded are in the album's order.               *)
LEMMA UploadsAreKnown ==
    ASSUME NEW b \in Batches
    PROVE  Known(Uploads(b), b)
<1> DEFINE u == Uploads(b)
           L == Len(b)
           places == {k \in DOMAIN u : u[k].image}
<1>1. /\ L \in Nat /\ DOMAIN b = 1..L /\ u \in [1..L -> ToSet(u)] /\ u \in Seq(ToSet(u))
      /\ \A i \in 1..L : u[i].number = i /\ u[i] \in ToSet(u)
  BY UploadFacts
<1>2. \A i \in 1..L : u[i].image = b[i].image
  BY <1>1, UploadFacts
<1>3. {u[k].number : k \in DOMAIN u} = DOMAIN b
  BY <1>1
<1>4. places \cap (1..Len(u)) = ImagePlaces(b)
  BY <1>1, <1>2 DEF ImagePlaces
<1> HIDE DEF u, L
<1>n. PICK n \in Nat : \E e : /\ Enumerates(e, n, ImagePlaces(b))
                              /\ Images(u) = [j \in 1..n |-> u[e[j]]]
                              /\ Len(Images(u)) = n
  <2> HIDE DEF places
  <2>1. IsLeft(Kept(u, places), u, places \cap (1..Len(u)))
    BY <1>1, KeptIsASequence
  <2>2. Kept(u, places) = Images(u)
    BY DEF Images, places
  <2>3. PICK n \in Nat : \E e : Enumerates(e, n, ImagePlaces(b))
                                /\ Images(u) = [j \in 1..n |-> u[e[j]]]
    BY <1>4, <2>1, <2>2 DEF IsLeft
  <2>4. Len(Images(u)) = n
    BY <2>3
  <2>5. QED BY <2>3, <2>4
<1>5. PICK e : /\ Enumerates(e, n, ImagePlaces(b))
               /\ Images(u) = [j \in 1..n |-> u[e[j]]]
               /\ Len(Images(u)) = n
  BY <1>n
<1>6. Numbers(Images(u)) = e
  <2>1. e \in [1..n -> ImagePlaces(b)] /\ ImagePlaces(b) \subseteq 1..L
    BY <1>1, <1>5 DEF Enumerates, ImagePlaces
  <2>2. DOMAIN Images(u) = 1..n /\ \A j \in 1..n : Images(u)[j].number = e[j]
    BY <1>1, <1>5, <2>1
  <2>3. QED BY <2>1, <2>2 DEF Numbers
<1>7. QED BY <1>1, <1>3, <1>5, <1>6 DEF Known, u
-----------------------------------------------------------------------------
Sources == [length : Nat, edited : BOOLEAN, deleted : BOOLEAN]

(* So many images are shown of n, beside a text in so many pieces.         *)
Shown(n, pieces) ==
    IF n < MaxEmbeds - pieces + 1 THEN n ELSE MaxEmbeds - pieces + 1

(* There is a piece, and no more than Discord takes.                       *)
LEMMA PiecesFit ==
    ASSUME NEW s \in Sources
    PROVE  Pieces(s) \in 1..MaxEmbeds
<1>1. DescLimit \in Nat \ {0} /\ MaxEmbeds \in Nat \ {0} /\ NoteLength \in Nat \ {0} /\ MarkLength \in Nat
  BY EmbedsAssumption
<1>2. Description(s) \in Nat /\ Description(s) >= 1
  BY <1>1 DEF Description, Sources
<1> DEFINE n == (Description(s) + DescLimit - 1) \div DescLimit
<1>3. n \in Int /\ n >= 1
  <2>1. ASSUME NEW d \in Nat, d >= 1, NEW l \in Nat, l >= 1
        PROVE  (d + l - 1) \div l \in Int /\ (d + l - 1) \div l >= 1
    BY <2>1
  <2>2. QED BY <1>1, <1>2, <2>1
<1> HIDE DEF n
<1>4. Pieces(s) = IF n > MaxEmbeds THEN MaxEmbeds ELSE n
  BY DEF Pieces, n
<1>5. QED BY <1>1, <1>3, <1>4

(* Where the images go: one after the other from the last piece on.        *)
Placed(w, pieces, names, n) ==
    /\ Len(w) \in 1..MaxEmbeds /\ w = [i \in 1..Len(w) |-> w[i]]
    /\ pieces - 1 + Shown(n, pieces) <= Len(w)
    /\ \A i \in 1..Len(w) :
          /\ "image" \in DOMAIN w[i]
          /\ w[i].image = IF i \in pieces..pieces - 1 + Shown(n, pieces)
                          THEN names[i - pieces + 1] ELSE <<>>

(* The text's pieces come first, and the images where they should.         *)
LEMMA ImagesArePlaced ==
    ASSUME NEW s \in Sources, NEW n \in Nat, NEW N, NEW names \in [1..n -> N]
    PROVE  Placed(WithImages(Rendered(s), names), Pieces(s), names, n)
<1> DEFINE P == Pieces(s)
           R == Rendered(s)
           more == IF n - 1 < MaxEmbeds - P THEN n - 1 ELSE MaxEmbeds - P
           w == WithImages(R, names)
<1>1. P \in 1..MaxEmbeds /\ MaxEmbeds \in Nat
  BY PiecesFit, EmbedsAssumption
<1>2. /\ DOMAIN R = 1..P /\ Len(R) = P /\ R = [i \in 1..P |-> R[i]]
      /\ \A i \in 1..P : "image" \in DOMAIN R[i] /\ R[i].image = <<>>
  BY <1>1 DEF Rendered
<1>3. Len(names) = n /\ (names = <<>> <=> n = 0)
  OBVIOUS
<1>4. CASE n = 0
  <2>1. w = R
    BY <1>3, <1>4 DEF WithImages
  <2>2. Shown(n, P) = 0
    BY <1>1, <1>4 DEF Shown
  <2> HIDE DEF P, R, w
  <2>3. \A i \in 1..P : i \notin P..P - 1 + 0
    BY <1>1
  <2>4. Placed(w, P, names, n)
    BY <1>1, <1>2, <2>1, <2>2, <2>3 DEF Placed
  <2>5. QED BY <2>4 DEF P, R, w
<1>5. CASE n # 0
  <2> DEFINE first == [R EXCEPT ![Len(R)] = [@ EXCEPT !.image = names[1], !.grouped = Len(names) > 1]]
             others == [i \in 1..more |->
                          [length |-> 0, tail |-> FALSE, grouped |-> TRUE, image |-> names[i + 1]]]
  <2>1. w = first \o others
    BY <1>2, <1>3, <1>5 DEF WithImages
  <2>2. more \in Nat /\ Shown(n, P) = more + 1 /\ P + more <= MaxEmbeds
    BY <1>1, <1>5 DEF Shown
  <2>3. /\ Len(first) = P /\ first = [i \in 1..P |-> first[i]]
        /\ \A i \in 1..P : "image" \in DOMAIN first[i]
                           /\ first[i].image = IF i = P THEN names[1] ELSE <<>>
    <3> HIDE DEF P, R, more
    <3>0. R \in [1..P -> {R[i] : i \in 1..P}]
      BY <1>2
    <3>1. DOMAIN first = 1..P /\ Len(first) = P /\ first = [i \in 1..P |-> first[i]]
      <4>1. ASSUME NEW g, NEW x, NEW k, g = [R EXCEPT ![k] = x]
            PROVE  g = [i \in 1..P |-> g[i]]
        BY <3>0, <4>1
      <4>2. first = [i \in 1..P |-> first[i]]
        BY <4>1
      <4> HIDE DEF first
      <4>3. QED BY <1>1, <4>2
    <3>2. \A i \in 1..P : i # P => first[i] = R[i]
      BY <1>2
    <3>3. "image" \in DOMAIN first[P] /\ first[P].image = names[1]
      BY <1>1, <1>2
    <3> HIDE DEF first
    <3>4. QED BY <1>2, <3>1, <3>2, <3>3
  <2>4. /\ Len(others) = more /\ others = [i \in 1..more |-> others[i]]
        /\ \A i \in 1..more : "image" \in DOMAIN others[i] /\ others[i].image = names[i + 1]
    <3> HIDE DEF more
    <3>1. QED BY <2>2
  <2> HIDE DEF P, R, w, first, others, more
  <2>5. /\ Len(w) = P + more /\ w = [i \in 1..P + more |-> w[i]]
        /\ \A i \in 1..P : w[i] = first[i]
        /\ \A i \in P + 1..P + more : w[i] = others[i - P]
    BY <1>1, <2>1, <2>2, <2>3, <2>4
  <2>6. ASSUME NEW i \in 1..P + more
        PROVE  /\ "image" \in DOMAIN w[i]
               /\ w[i].image = IF i \in P..P + more THEN names[i - P + 1] ELSE <<>>
    <3>1. CASE i < P
      <4>1. i \in 1..P /\ i # P /\ i \notin P..P + more
        BY <1>1, <2>2, <3>1
      <4>2. QED BY <2>3, <2>5, <4>1
    <3>2. CASE i = P
      <4>1. i \in 1..P /\ i - P + 1 = 1 /\ i \in P..P + more
        BY <1>1, <2>2, <3>2
      <4>2. QED BY <2>3, <2>5, <3>2, <4>1
    <3>3. CASE i > P
      <4>1. i \in P + 1..P + more /\ i - P \in 1..more /\ (i - P) + 1 = i - P + 1 /\ i \in P..P + more
        BY <1>1, <2>2, <3>3
      <4>2. QED BY <2>4, <2>5, <4>1
    <3>4. QED BY <1>1, <2>2, <3>1, <3>2, <3>3
  <2>7. P - 1 + Shown(n, P) = P + more /\ P + more \in 1..MaxEmbeds
    BY <1>1, <2>2
  <2>8. Placed(w, P, names, n)
    BY <1>1, <2>2, <2>5, <2>6, <2>7 DEF Placed
  <2>9. QED BY <2>8 DEF P, R, w
<1>6. QED BY <1>4, <1>5

(* The first file of a name has it, and where names are distinct it is the *)
(* file that was meant.                                                    *)
LEMMA FirstOfAName ==
    ASSUME NEW b \in Batches, NEW files \in Seq(ToSet(Uploads(b))), NEW p \in DOMAIN files,
           NEW c, c = CHOOSE k \in DOMAIN files :
                         /\ files[k].name = files[p].name
                         /\ \A j \in 1..k - 1 : files[j].name # files[p].name
    PROVE  /\ files[c].number \in 1..Len(b)
           /\ NamesDistinct(b) => files[c].number = files[p].number
<1> DEFINE T == ToSet(Uploads(b))
           S == {k \in DOMAIN files : files[k].name = files[p].name}
<1>1. DOMAIN files = 1..Len(files) /\ Len(files) \in Nat /\ \A k \in DOMAIN files : files[k] \in T
  OBVIOUS
<1>2. PICK m \in S : \A k \in S : m <= k
  <2>1. S \in SUBSET Nat /\ p \in S
    BY <1>1
  <2> HIDE DEF S
  <2>2. QED BY <2>1, LeastElement
<1>3. \A j \in 1..m - 1 : files[j].name # files[p].name
  <2> SUFFICES ASSUME NEW j \in 1..m - 1, files[j].name = files[p].name
               PROVE  FALSE
    OBVIOUS
  <2>1. m \in 1..Len(files) /\ j \in 1..Len(files) /\ j < m
    BY <1>1, <1>2
  <2>2. j \in S
    BY <1>1, <2>1
  <2>3. QED BY <1>2, <2>1, <2>2
<1>4. c \in DOMAIN files /\ files[c].name = files[p].name
  BY <1>2, <1>3
<1>5. \A f \in T : f.number \in 1..Len(b) /\ Uploads(b)[f.number] = f
  BY UploadFacts
<1>6. files[c] \in T /\ files[p] \in T
  BY <1>1, <1>4
<1>7. ASSUME NamesDistinct(b) PROVE files[c].number = files[p].number
  <2>1. DOMAIN Uploads(b) = 1..Len(b)
    BY UploadFacts
  <2> HIDE DEF T
  <2>2. QED BY <1>4, <1>5, <1>6, <1>7, <2>1 DEF NamesDistinct
<1> HIDE DEF T
<1>8. QED BY <1>5, <1>6, <1>7

(* A list's images are some of its files, one after the other.             *)
LEMMA ImagesOfAList ==
    ASSUME NEW X, NEW files \in Seq(X)
    PROVE  /\ Images(files) \in Seq(X)
           /\ IsLeft(Images(files), files, {k \in DOMAIN files : files[k].image})
<1> DEFINE places == {k \in DOMAIN files : files[k].image}
<1>1. places \cap (1..Len(files)) = places
  OBVIOUS
<1>2. Images(files) = Kept(files, places)
  BY DEF Images
<1> HIDE DEF places
<1>3. IsLeft(Kept(files, places), files, places \cap (1..Len(files))) /\ Kept(files, places) \in Seq(X)
  BY KeptIsASequence
<1>4. QED BY <1>1, <1>2, <1>3 DEF places

(* The embeds of a message show images of the album and, where names are   *)
(* distinct, the first ones in their order.                                *)
Shows(es, files, pieces, b) ==
    /\ Len(es) \in 1..MaxEmbeds
    /\ Inline(es) \in [1..Shown(Len(Images(files)), pieces) -> DOMAIN b]
    /\ NamesDistinct(b) =>
          \A j \in 1..Shown(Len(Images(files)), pieces) : Inline(es)[j] = Images(files)[j].number

(* What each embed shows once Discord has looked the names up.             *)
LEMMA NamesResolve ==
    ASSUME NEW b \in Batches, NEW files, Known(files, b), NEW P \in 1..MaxEmbeds,
           NEW w, Placed(w, P, NamesOf(Images(files)), Len(Images(files))),
           NEW es, es = Resolved(w, files), NEW i \in 1..Len(w)
    PROVE  /\ i \notin P..P - 1 + Shown(Len(Images(files)), P) => es[i].image = 0
           /\ i \in P..P - 1 + Shown(Len(Images(files)), P) =>
                 /\ es[i].image \in DOMAIN b
                 /\ NamesDistinct(b) => es[i].image = Images(files)[i - P + 1].number
<1> DEFINE n == Len(Images(files))
           im == Images(files)
           names == NamesOf(im)
           at == P..P - 1 + Shown(n, P)
           First(nm) == CHOOSE k \in DOMAIN files :
                          /\ files[k].name = nm
                          /\ \A j \in 1..k - 1 : files[j].name # nm
<1>1. /\ w = [l \in 1..Len(w) |-> w[l]] /\ "image" \in DOMAIN w[i]
      /\ w[i].image = IF i \in at THEN names[i - P + 1] ELSE <<>>
  BY DEF Placed
<1>2. DOMAIN w = 1..Len(w)
  BY <1>1
<1>3. es[i].image = IF w[i].image = <<>> THEN 0 ELSE files[First(w[i].image)].number
  BY <1>1, <1>2 DEF Resolved
<1>4. files \in Seq(ToSet(Uploads(b)))
  BY DEF Known
<1>5. IsLeft(im, files, {k \in DOMAIN files : files[k].image}) /\ im \in Seq(ToSet(Uploads(b)))
  BY <1>4, ImagesOfAList
<1>6. n \in Nat /\ MaxEmbeds \in Nat /\ P \in Nat /\ i \in Nat
  BY <1>5, EmbedsAssumption
<1>7. CASE i \notin at
  BY <1>1, <1>3, <1>7
<1>8. CASE i \in at
  <2> DEFINE j == i - P + 1
  <2>1. j \in 1..n
    BY <1>6, <1>8 DEF Shown
  <2>2. PICK p \in DOMAIN files : im[j] = files[p]
    <3>l. PICK l \in Nat : \E e : /\ Enumerates(e, l, {k \in DOMAIN files : files[k].image})
                                  /\ im = [q \in 1..l |-> files[e[q]]]
      BY <1>5 DEF IsLeft
    <3>1. PICK e : /\ Enumerates(e, l, {k \in DOMAIN files : files[k].image})
                   /\ im = [q \in 1..l |-> files[e[q]]]
      BY <3>l
    <3>2. e[j] \in DOMAIN files /\ im[j] = files[e[j]]
      BY <2>1, <3>1 DEF Enumerates
    <3>3. QED BY <3>2
  <2>3. w[i].image = files[p].name
    <3>1. DOMAIN im = 1..n
      BY <1>5
    <3>2. names[j] = im[j].name
      BY <2>1, <3>1 DEF NamesOf
    <3>3. QED BY <1>1, <1>8, <2>2, <3>2
  <2>4. files[p].name # <<>>
    <3>1. files[p] \in ToSet(Uploads(b))
      BY <1>4
    <3>2. QED BY <3>1, UploadFacts
  <2> DEFINE c == First(files[p].name)
  <2>5. es[i].image = files[c].number
    BY <1>3, <2>3, <2>4
  <2>6. c = CHOOSE k \in DOMAIN files :
               /\ files[k].name = files[p].name
               /\ \A l \in 1..k - 1 : files[l].name # files[p].name
    OBVIOUS
  <2> HIDE DEF c, First
  <2>7. /\ files[c].number \in 1..Len(b)
        /\ NamesDistinct(b) => files[c].number = files[p].number
    BY <1>4, <2>6, FirstOfAName
  <2>8. DOMAIN b = 1..Len(b)
    BY UploadFacts
  <2>9. QED BY <1>8, <2>2, <2>5, <2>7, <2>8
<1>9. QED BY <1>7, <1>8

(* Consecutive numbers are counted off one after the other.                *)
LEMMA RunIsEnumerated ==
    ASSUME NEW P \in Nat \ {0}, NEW k \in Nat
    PROVE  Enumerates([j \in 1..k |-> P - 1 + j], k, P..P - 1 + k)
<1> DEFINE e == [j \in 1..k |-> P - 1 + j]
<1>1. e \in [1..k -> P..P - 1 + k] /\ \A j \in 1..k, l \in 1..k : j < l => e[j] < e[l]
  OBVIOUS
<1>2. ASSUME NEW a \in P..P - 1 + k PROVE \E j \in 1..k : e[j] = a
  <2>1. a - P + 1 \in 1..k /\ P - 1 + (a - P + 1) = a
    OBVIOUS
  <2>2. QED BY <2>1
<1>3. QED BY <1>1, <1>2 DEF Enumerates

(* A message that is built shows what it should.                           *)
LEMMA BuiltShows ==
    ASSUME NEW b \in Batches, NEW files, Known(files, b), NEW s \in Sources
    PROVE  Shows(Built(s, files), files, Pieces(s), b)
<1> DEFINE P == Pieces(s)
           im == Images(files)
           n == Len(im)
           k == Shown(n, P)
           names == NamesOf(im)
           w == WithImages(Rendered(s), names)
           es == Built(s, files)
           at == P..P - 1 + k
           pics == [i \in DOMAIN es |-> es[i].image]
           run == [j \in 1..k |-> P - 1 + j]
<1>1. P \in 1..MaxEmbeds /\ MaxEmbeds \in Nat
  BY PiecesFit, EmbedsAssumption
<1>2. im \in Seq(ToSet(Uploads(b)))
  <2>1. files \in Seq(ToSet(Uploads(b)))
    BY DEF Known
  <2>2. QED BY <2>1, ImagesOfAList
<1>3. n \in Nat /\ k \in Nat /\ k <= n
  BY <1>1, <1>2 DEF Shown
<1>4. Placed(w, P, names, n)
  <2>1. names \in [1..n -> {im[i].name : i \in 1..n}]
    BY <1>2 DEF NamesOf
  <2> HIDE DEF im, names, n
  <2>2. n \in Nat
    BY <1>3
  <2>3. QED BY <2>1, <2>2, ImagesArePlaced
<1>5. es = Resolved(w, files)
  BY DEF Built
<1>6. Len(w) \in 1..MaxEmbeds /\ DOMAIN w = 1..Len(w) /\ P - 1 + k <= Len(w)
  BY <1>4 DEF Placed
<1>7. DOMAIN es = 1..Len(w) /\ Len(es) = Len(w)
  BY <1>1, <1>5, <1>6 DEF Resolved
<1>8. ASSUME NEW i \in 1..Len(w)
      PROVE  /\ i \notin at => es[i].image = 0
             /\ i \in at => /\ es[i].image \in DOMAIN b
                            /\ NamesDistinct(b) => es[i].image = im[i - P + 1].number
  <2> HIDE DEF w, es
  <2>1. QED BY <1>1, <1>4, <1>5, NamesResolve
<1>9. DOMAIN b = 1..Len(b) /\ Len(b) \in Nat
  BY UploadFacts
<1> HIDE DEF w, es, n, im, k, P, names
<1>10. at \subseteq 1..Len(w)
  BY <1>1, <1>3, <1>6
<1>11. {i \in DOMAIN es : es[i].image # 0} = at
  <2>1. \A i \in 1..Len(w) : i \in at <=> es[i].image # 0
    BY <1>8, <1>9
  <2> HIDE DEF at
  <2>2. QED BY <1>7, <1>10, <2>1
<1>12. pics \in Seq(Nat) /\ Len(pics) = Len(w)
  <2>1. \A i \in 1..Len(w) : es[i].image \in Nat
    BY <1>8, <1>9
  <2>2. QED BY <1>1, <1>6, <1>7, <2>1
<1>13. IsLeft(Inline(es), pics, at)
  <2>1. at \cap (1..Len(pics)) = at
    BY <1>10, <1>12
  <2> HIDE DEF at
  <2>2. Inline(es) = Kept(pics, at)
    BY <1>11 DEF Inline
  <2> HIDE DEF pics
  <2>3. IsLeft(Kept(pics, at), pics, at \cap (1..Len(pics)))
    BY <1>12, KeptIsASequence
  <2>4. QED BY <2>1, <2>2, <2>3
<1>l. PICK l \in Nat : \E e : /\ Enumerates(e, l, at)
                              /\ Inline(es) = [j \in 1..l |-> pics[e[j]]]
  BY <1>13 DEF IsLeft
<1>14. PICK e : /\ Enumerates(e, l, at)
                /\ Inline(es) = [j \in 1..l |-> pics[e[j]]]
  BY <1>l
<1>15. l = k /\ e = run
  <2>1. Enumerates(run, k, at)
    <3>1. P \in Nat \ {0} /\ k \in Nat
      BY <1>1, <1>3
    <3>2. QED BY <3>1, RunIsEnumerated
  <2>2. at \in SUBSET Nat
    BY <1>1, <1>3
  <2> HIDE DEF at, run, pics
  <2>3. QED BY <1>14, <2>1, <2>2, EnumerationIsUnique
<1>16. ASSUME NEW j \in 1..k
       PROVE  /\ Inline(es)[j] \in DOMAIN b
              /\ NamesDistinct(b) => Inline(es)[j] = im[j].number
  <2>1. P - 1 + j \in at /\ P - 1 + j \in 1..Len(w) /\ (P - 1 + j) - P + 1 = j
    BY <1>1, <1>3, <1>6, <1>10
  <2>2. Inline(es)[j] = pics[P - 1 + j]
    BY <1>14, <1>15
  <2>3. pics[P - 1 + j] = es[P - 1 + j].image
    BY <1>7, <2>1
  <2> HIDE DEF at, pics
  <2>4. /\ es[P - 1 + j].image \in DOMAIN b
        /\ NamesDistinct(b) => es[P - 1 + j].image = im[(P - 1 + j) - P + 1].number
    BY <1>8, <2>1
  <2>5. QED BY <2>1, <2>2, <2>3, <2>4
<1>17. Inline(es) \in [1..k -> DOMAIN b]
  <2>1. Inline(es) = [j \in 1..k |-> Inline(es)[j]]
    BY <1>14, <1>15
  <2>2. QED BY <1>16, <2>1
<1>18. QED BY <1>6, <1>7, <1>16, <1>17 DEF Shows, es, k, n, im, P
-----------------------------------------------------------------------------
(* The files at the places A are in the order of their numbers.            *)
InOrder(files, A) == \A i \in A, j \in A : i < j => files[i].number < files[j].number

(* Leaving files out takes none of those that are kept, adds none and      *)
(* keeps the order.                                                        *)
LEMMA WhatIsLeft ==
    ASSUME NEW s, NEW A \in SUBSET Nat, InOrder(s, A), NEW q, IsLeft(q, s, A)
    PROVE  /\ InOrder(q, DOMAIN q)
           /\ \A j \in DOMAIN q : \E i \in A : q[j] = s[i]
           /\ \A i \in A : \E j \in DOMAIN q : q[j] = s[i]
<1>n. PICK n \in Nat : \E e : /\ Enumerates(e, n, A)
                              /\ q = [j \in 1..n |-> s[e[j]]]
  BY DEF IsLeft
<1>1. PICK e : /\ Enumerates(e, n, A)
               /\ q = [j \in 1..n |-> s[e[j]]]
  BY <1>n
<1>2. /\ \A j \in 1..n : e[j] \in A /\ q[j] = s[e[j]]
      /\ \A j \in 1..n, k \in 1..n : j < k => e[j] < e[k]
      /\ \A a \in A : \E j \in 1..n : e[j] = a
      /\ DOMAIN q = 1..n
  BY <1>1 DEF Enumerates
<1>3. ASSUME NEW j \in 1..n, NEW k \in 1..n, j < k
      PROVE  q[j].number < q[k].number
  <2>1. e[j] \in A /\ e[k] \in A /\ e[j] < e[k] /\ q[j] = s[e[j]] /\ q[k] = s[e[k]]
    BY <1>2, <1>3
  <2>2. QED BY <2>1 DEF InOrder
<1>4. InOrder(q, DOMAIN q)
  BY <1>2, <1>3 DEF InOrder
<1>5. \A j \in DOMAIN q : \E i \in A : q[j] = s[i]
  BY <1>2
<1>6. \A i \in A : \E j \in DOMAIN q : q[j] = s[i]
  <2> SUFFICES ASSUME NEW i \in A PROVE \E j \in 1..n : q[j] = s[i]
    BY <1>2
  <2>1. PICK j \in 1..n : e[j] = i
    BY <1>2
  <2>2. QED BY <1>2, <2>1
<1>7. QED BY <1>4, <1>5, <1>6

(* The urls that are kept of Discord's answer are all of the files, each   *)
(* with its number, the images in order: those in embeds are the first of  *)
(* them, so that every other image comes after them.                       *)
LEMMA CapturedIsKnown ==
    ASSUME NEW b \in Batches, NEW es, NEW P \in 1..MaxEmbeds,
           Shows(es, Uploads(b), P, b), NEW all \in BOOLEAN
    PROVE  Known(Captured(es, Uploads(b), all), b)
<1> DEFINE u == Uploads(b)
           L == Len(b)
           T == ToSet(u)
           in == Inline(es)
           im == Images(u)
           n == Len(im)
           r == Shown(n, P)
           shown == [i \in DOMAIN in |-> u[in[i]]]
           listed == Listed(es, u, all)
           LP == {k \in DOMAIN u : all \/ ~Contains(in, u[k].number)}
           QP == {k \in DOMAIN listed : ~Contains(shown, listed[k])}
           q == Kept(listed, QP)
           st == shown \o q
           A == ImagePlaces(b)
           at == {k \in DOMAIN st : st[k].image}
           si == Images(st)
<1>1. /\ L \in Nat /\ DOMAIN b = 1..L /\ u \in [1..L -> T] /\ u \in Seq(T)
      /\ \A i \in 1..L : u[i].number = i
      /\ \A f \in T : f.number \in 1..L /\ u[f.number] = f /\ f.image = b[f.number].image
  BY UploadFacts
<1>2. A \subseteq 1..L
  BY <1>1 DEF ImagePlaces
<1>3. im \in Seq(T) /\ IsLeft(im, u, {k \in DOMAIN u : u[k].image})
  <2> HIDE DEF u, T, L
  <2>1. u \in Seq(T)
    BY <1>1
  <2>2. Images(u) \in Seq(T) /\ IsLeft(Images(u), u, {k \in DOMAIN u : u[k].image})
    BY <2>1, ImagesOfAList
  <2>3. QED BY <2>2
<1>4. n \in Nat /\ r \in Nat /\ r <= n
  BY <1>3, EmbedsAssumption DEF Shown
<1>5. in \in [1..r -> 1..L]
  BY <1>1 DEF Shows
<1>6. shown \in [1..r -> T] /\ \A i \in 1..r : shown[i] = u[in[i]]
  <2> HIDE DEF in, r, T, u, L
  <2>1. DOMAIN in = 1..r /\ \A i \in 1..r : in[i] \in 1..L
    BY <1>5
  <2>2. QED BY <1>1, <2>1
<1>7. listed \in Seq(T) /\ IsLeft(listed, u, LP)
  <2> HIDE DEF u, L, T, in
  <2>1. LP \cap (1..Len(u)) = LP
    BY <1>1
  <2>2. listed = Kept(u, LP)
    BY DEF Listed, in, listed
  <2> HIDE DEF LP
  <2>3. IsLeft(Kept(u, LP), u, LP \cap (1..Len(u))) /\ Kept(u, LP) \in Seq(T)
    BY <1>1, KeptIsASequence
  <2>4. QED BY <2>1, <2>2, <2>3
<1>8. q \in Seq(T) /\ IsLeft(q, listed, QP)
  <2> HIDE DEF listed, shown, T
  <2>1. QP \cap (1..Len(listed)) = QP
    BY <1>7
  <2> HIDE DEF QP
  <2>2. IsLeft(Kept(listed, QP), listed, QP \cap (1..Len(listed))) /\ Kept(listed, QP) \in Seq(T)
    BY <1>7, KeptIsASequence
  <2>3. QED BY <2>1, <2>2
<1>9. Captured(es, Uploads(b), all) = st
  BY DEF Captured
<1> HIDE DEF u, L, in, im, n, r, shown, q, listed, A, T
<1>10. /\ st \in Seq(T) /\ DOMAIN st = 1..r + Len(q) /\ Len(q) \in Nat
       /\ \A i \in DOMAIN st : st[i] \in T
       /\ \A i \in 1..r : st[i] = shown[i]
       /\ \A i \in r + 1..r + Len(q) : st[i] = q[i - r] /\ i - r \in DOMAIN q
       /\ \A j \in DOMAIN q : r + j \in DOMAIN st /\ st[r + j] = q[j]
  <2>1. Len(q) \in Nat /\ DOMAIN q = 1..Len(q)
    BY <1>8
  <2>2. shown \in Seq(T) /\ Len(shown) = r /\ DOMAIN shown = 1..r
    BY <1>4, <1>6
  <2>3. st \in Seq(T)
    BY <1>8, <2>2
  <2>4. Len(st) = r + Len(q) /\ DOMAIN st = 1..r + Len(q)
    BY <1>8, <2>2
  <2>5. \A i \in DOMAIN st : st[i] \in T
    <3> HIDE DEF st
    <3>1. QED BY <2>3
  <2>6. \A i \in 1..r + Len(q) : st[i] = IF i <= r THEN shown[i] ELSE q[i - r]
    BY <1>8, <2>2
  <2> HIDE DEF st
  <2>7. QED BY <1>4, <2>1, <2>3, <2>4, <2>5, <2>6
<1> HIDE DEF st
(* All of them, shown, or else listed.                                     *)
<1>11. InOrder(listed, DOMAIN listed) /\ (\A i \in LP : \E j \in DOMAIN listed : listed[j] = u[i])
  <2>1. LP \in SUBSET Nat /\ InOrder(u, LP)
    BY <1>1 DEF InOrder
  <2> HIDE DEF LP
  <2>2. QED BY <1>7, <2>1, WhatIsLeft
<1>12. /\ InOrder(q, DOMAIN q)
       /\ \A j \in DOMAIN q : \E i \in QP : q[j] = listed[i]
       /\ \A i \in QP : \E j \in DOMAIN q : q[j] = listed[i]
  <2>1. QP \in SUBSET Nat /\ InOrder(listed, QP)
    BY <1>7, <1>11 DEF InOrder
  <2> HIDE DEF QP
  <2>2. QED BY <1>8, <2>1, WhatIsLeft
<1>13. ASSUME NEW i \in 1..L
       PROVE  \E k \in DOMAIN st : st[k].number = i
  <2>1. CASE \E j \in 1..r : in[j] = i
    <3>1. PICK j \in 1..r : in[j] = i
      BY <2>1
    <3>2. j \in DOMAIN st /\ st[j] = u[i]
      BY <1>4, <1>6, <1>10, <3>1
    <3>3. QED BY <1>1, <3>2
  <2>2. CASE ~\E j \in 1..r : in[j] = i
    <3>1. ~Contains(in, i)
      <4>1. Len(in) = r
        BY <1>4, <1>5
      <4>2. QED BY <2>2, <4>1 DEF Contains
    <3>2. i \in LP
      BY <1>1, <3>1
    <3>3. PICK j \in DOMAIN listed : listed[j] = u[i]
      BY <1>11, <3>2
    <3>4. j \in QP
      <4> SUFFICES ASSUME Contains(shown, listed[j]) PROVE FALSE
        OBVIOUS
      <4>1. Len(shown) = r
        BY <1>4, <1>6
      <4>2. PICK k \in 1..r : shown[k] = u[i]
        BY <3>3, <4>1 DEF Contains
      <4>3. in[k] \in 1..L /\ u[in[k]] = u[i]
        BY <1>5, <1>6, <4>2
      <4>4. in[k] = i
        <5>1. u[in[k]].number = in[k] /\ u[i].number = i
          BY <1>1, <4>3
        <5>2. QED BY <4>3, <5>1
      <4>5. QED BY <2>2, <4>4
    <3>5. PICK k \in DOMAIN q : q[k] = u[i]
      BY <1>12, <3>3, <3>4
    <3>6. QED BY <1>1, <1>10, <3>5
  <2>3. QED BY <2>1, <2>2
<1>14. \A k \in DOMAIN st : st[k] \in T /\ st[k].number \in 1..L
  <2>1. \A k \in DOMAIN st : st[k] \in T
    BY <1>10
  <2>2. QED BY <1>1, <2>1
<1>15. {st[k].number : k \in DOMAIN st} = DOMAIN b
  BY <1>1, <1>13, <1>14
(* In order.                                                               *)
<1>16. ASSUME NamesDistinct(b) PROVE Enumerates(Numbers(si), Len(si), A)
  <2>1. \A j \in 1..r : in[j] = im[j].number
    BY <1>16 DEF Shows, in, im, r, n, u
  <2>2. {k \in DOMAIN u : u[k].image} = A
    BY <1>1 DEF A, ImagePlaces
  <2>3. /\ InOrder(im, DOMAIN im) /\ DOMAIN im = 1..n
        /\ \A i \in A : \E j \in DOMAIN im : im[j] = u[i]
    <3>1. A \in SUBSET Nat /\ InOrder(u, A)
      BY <1>1, <1>2 DEF InOrder
    <3>2. DOMAIN im = 1..n
      BY <1>3 DEF n
    <3>3. IsLeft(im, u, A)
      BY <1>3, <2>2
    <3>4. InOrder(im, DOMAIN im)
      BY <3>1, <3>3, WhatIsLeft
    <3>5. \A i \in A : \E j \in DOMAIN im : im[j] = u[i]
      BY <3>1, <3>3, WhatIsLeft
    <3>6. QED BY <3>2, <3>4, <3>5
  <2>4. \A k \in at : st[k].number \in A /\ st[k] = u[st[k].number]
    BY <1>1, <1>14 DEF A, ImagePlaces
  <2>5. ASSUME NEW x \in at, NEW y \in at, x < y
        PROVE  st[x].number < st[y].number
    <3>1. \A i \in 1..r : i \in DOMAIN im /\ st[i].number = im[i].number
      <4>1. \A i \in 1..r : i \in DOMAIN im
        BY <1>4, <2>3
      <4>2. \A i \in 1..r : in[i] \in 1..L /\ st[i] = u[in[i]]
        BY <1>5, <1>6, <1>10
      <4>3. QED BY <1>1, <2>1, <4>1, <4>2
    <3>2. x \in 1..r + Len(q) /\ y \in 1..r + Len(q)
      BY <1>10
    <3>3. CASE x \in 1..r /\ y \in 1..r
      BY <2>3, <2>5, <3>1, <3>3 DEF InOrder
    <3>4. CASE x \in 1..r /\ y \notin 1..r
      <4>1. y \in r + 1..r + Len(q)
        BY <1>4, <1>10, <3>2, <3>4
      <4>2. PICK i \in QP : st[y] = listed[i]
        BY <1>10, <1>12, <4>1
      <4>3. ~Contains(shown, st[y])
        BY <4>2
      <4>4. PICK m \in 1..n : im[m] = st[y]
        BY <2>3, <2>4
      <4>5. m \notin 1..r
        <5> SUFFICES ASSUME m \in 1..r PROVE FALSE
          OBVIOUS
        <5>1. shown[m] = u[im[m].number]
          BY <1>6, <2>1
        <5>2. shown[m] = st[y]
          BY <2>4, <4>4, <5>1
        <5>3. Len(shown) = r
          BY <1>4, <1>6
        <5>4. QED BY <4>3, <5>2, <5>3 DEF Contains
      <4>6. x < m /\ x \in 1..n
        BY <1>4, <3>4, <4>5
      <4>7. im[x].number < im[m].number
        BY <2>3, <4>6 DEF InOrder
      <4>8. QED BY <3>1, <3>4, <4>4, <4>7
    <3>5. CASE x \notin 1..r
      <4>1. x \in r + 1..r + Len(q) /\ y \in r + 1..r + Len(q) /\ x - r < y - r
        BY <1>4, <1>10, <2>5, <3>2, <3>5
      <4>2. QED BY <1>10, <1>12, <4>1 DEF InOrder
    <3>6. QED BY <3>3, <3>4, <3>5
  <2>6. IsLeft(si, st, at) /\ si \in Seq(T)
    BY <1>10, ImagesOfAList
  <2> HIDE DEF si
  <2>7. /\ InOrder(si, DOMAIN si)
        /\ \A j \in DOMAIN si : \E i \in at : si[j] = st[i]
        /\ \A i \in at : \E j \in DOMAIN si : si[j] = st[i]
    <3>1. at \in SUBSET Nat /\ InOrder(st, at)
      BY <1>4, <1>10, <2>5 DEF InOrder
    <3> HIDE DEF at
    <3>2. QED BY <2>6, <3>1, WhatIsLeft
  <2>8. \A a \in A : \E i \in at : st[i].number = a
    <3> SUFFICES ASSUME NEW a \in A PROVE \E i \in at : st[i].number = a
      OBVIOUS
    <3>1. a \in 1..L /\ b[a].image
      BY <1>2 DEF A, ImagePlaces
    <3>2. PICK k \in DOMAIN st : st[k].number = a
      BY <1>13, <3>1
    <3>3. st[k].image
      BY <1>1, <1>14, <3>1, <3>2
    <3>4. QED BY <3>2, <3>3
  <2>9. \A j \in DOMAIN si : si[j].number \in A
    BY <2>4, <2>7
  <2>10. \A a \in A : \E j \in DOMAIN si : si[j].number = a
    BY <2>7, <2>8
  <2>11. DOMAIN si = 1..Len(si) /\ Len(si) \in Nat
    BY <2>6
  <2> HIDE DEF at
  <2>12. QED BY <2>7, <2>9, <2>10, <2>11 DEF Enumerates, Numbers, InOrder
<1>17. QED BY <1>9, <1>10, <1>15, <1>16 DEF Known, T, u, A

(* The album's images, counted off.                                        *)
LEMMA ImagesOfTheAlbum ==
    ASSUME NEW b \in Batches, NEW images,
           images = Kept([i \in DOMAIN b |-> i], {i \in DOMAIN b : b[i].image})
    PROVE  images \in Seq(Nat) /\ Enumerates(images, Len(images), ImagePlaces(b))
<1> DEFINE A == ImagePlaces(b)
           id == [i \in DOMAIN b |-> i]
<1>1. Len(b) \in Nat /\ DOMAIN b = 1..Len(b)
  BY UploadFacts
<1>2. id \in Seq(Nat) /\ Len(id) = Len(b) /\ A \subseteq 1..Len(b) /\ \A i \in 1..Len(b) : id[i] = i
  BY <1>1 DEF ImagePlaces
<1>3. images = Kept(id, A)
  BY DEF ImagePlaces
<1> HIDE DEF A, id
<1>4. A \cap (1..Len(id)) = A
  BY <1>2
<1>5. images \in Seq(Nat) /\ IsLeft(images, id, A)
  BY <1>2, <1>3, <1>4, KeptIsASequence
<1>n. PICK n \in Nat : \E e : /\ Enumerates(e, n, A)
                              /\ images = [j \in 1..n |-> id[e[j]]]
  BY <1>5 DEF IsLeft
<1>6. PICK e : /\ Enumerates(e, n, A)
               /\ images = [j \in 1..n |-> id[e[j]]]
  BY <1>n
<1>7. e \in [1..n -> A] /\ \A j \in 1..n : id[e[j]] = e[j]
  BY <1>2, <1>6 DEF Enumerates
<1>8. images = e /\ Len(images) = n
  BY <1>6, <1>7
<1>9. QED BY <1>5, <1>6, <1>8 DEF A

(* A message that was built from files that are known is as it should be.  *)
Gallery(es, s, b) ==
    /\ Len(es) <= MaxEmbeds
    /\ NamesDistinct(b) =>
         LET images == Kept([i \in DOMAIN b |-> i], {i \in DOMAIN b : b[i].image})
             room   == MaxEmbeds - Pieces(s) + 1
         IN  Inline(es) = SubSeq(images, 1, IF Len(images) < room THEN Len(images) ELSE room)

(* It is, since Shown tells the first of the images and their order is     *)
(* unique.                                                                 *)
LEMMA BuiltIsAGallery ==
    ASSUME NEW b \in Batches, NEW files, Known(files, b), NEW s \in Sources
    PROVE  Gallery(Built(s, files), s, b) /\ Built(s, files) # <<>>
<1> DEFINE es == Built(s, files)
           P == Pieces(s)
           im == Images(files)
           images == Kept([i \in DOMAIN b |-> i], {i \in DOMAIN b : b[i].image})
<1>1. Shows(es, files, P, b)
  BY BuiltShows
<1>2. P \in 1..MaxEmbeds /\ MaxEmbeds \in Nat
  BY PiecesFit, EmbedsAssumption
<1>3. Len(es) \in 1..MaxEmbeds
  BY <1>1 DEF Shows
<1>4. es # <<>>
  <2> HIDE DEF es
  <2>1. QED BY <1>2, <1>3
<1>5. im \in Seq(ToSet(Uploads(b)))
  <2>1. files \in Seq(ToSet(Uploads(b)))
    BY DEF Known
  <2>2. QED BY <2>1, ImagesOfAList
<1>6. images \in Seq(Nat) /\ Enumerates(images, Len(images), ImagePlaces(b))
  <2> HIDE DEF images
  <2>1. images = Kept([i \in DOMAIN b |-> i], {i \in DOMAIN b : b[i].image})
    BY DEF images
  <2>2. QED BY <2>1, ImagesOfTheAlbum
<1> HIDE DEF es, P, im, images
<1>7. ASSUME NamesDistinct(b)
      PROVE  Inline(es) = SubSeq(images, 1, Shown(Len(images), P))
  <2>1. Enumerates(Numbers(im), Len(im), ImagePlaces(b))
    BY <1>7 DEF Known, im
  <2>2. Len(im) = Len(images) /\ Numbers(im) = images
    <3>1. ImagePlaces(b) \in SUBSET Nat
      BY UploadFacts DEF ImagePlaces
    <3>2. QED BY <1>6, <2>1, <3>1, EnumerationIsUnique
  <2> DEFINE k == Shown(Len(images), P)
  <2>3. k \in Nat /\ k <= Len(images) /\ Len(images) \in Nat
    BY <1>2, <1>6 DEF Shown
  <2>4. Inline(es) \in [1..k -> DOMAIN b] /\ \A j \in 1..k : Inline(es)[j] = im[j].number
    BY <1>1, <1>7, <2>2 DEF Shows, im
  <2>5. \A j \in 1..k : im[j].number = images[j]
    <3>1. DOMAIN im = 1..Len(im)
      BY <1>5
    <3> HIDE DEF k
    <3>2. QED BY <2>2, <2>3, <3>1 DEF Numbers
  <2> HIDE DEF k
  <2>6. Inline(es) = [j \in 1..k |-> images[j]]
    BY <2>4, <2>5
  <2>7. SubSeq(images, 1, k) = [j \in 1..k |-> images[j]]
    BY <1>6, <2>3
  <2>8. QED BY <2>6, <2>7 DEF k
<1>8. QED BY <1>2, <1>3, <1>4, <1>7 DEF Gallery, Shown, P, images, es
-----------------------------------------------------------------------------
(* What a row must hold beside the promise for its refreshes to keep it.   *)
EmbedsInv ==
    /\ batch \in Batches /\ source \in Sources
    /\ embeds # <<>> =>
          /\ attached = DOMAIN batch
          /\ Known(stored, batch)
          /\ Gallery(embeds, source, batch)

(* It holds from the start and is never lost: the answer to the POST makes *)
(* the row right, and a PATCH only reads it.                               *)
LEMMA EmbedsInvAlways == EmbedsSpec => []EmbedsInv
<1>1. EmbedsInit => EmbedsInv
  BY DEF EmbedsInit, EmbedsInv, NotPosted, Sources
<1>2. EmbedsInv /\ [EmbedsNext]_embedsVars => EmbedsInv'
  <2> SUFFICES ASSUME EmbedsInv, [EmbedsNext]_embedsVars PROVE EmbedsInv'
    OBVIOUS
  <2>0. batch \in Batches /\ source \in Sources
    BY DEF EmbedsInv
  <2>1. ASSUME NEW n \in Lengths, NEW all \in BOOLEAN, PostAlbum(n, all)
        PROVE  EmbedsInv'
    <3>1. batch' = batch /\ source' \in Sources
      BY <2>1, EmbedsAssumption DEF PostAlbum, Sources
    <3>2. embeds' = Built(source', Uploads(batch)) /\ stored' = Captured(embeds', Uploads(batch), all)
      BY <2>1 DEF PostAlbum
    <3>3. Known(Uploads(batch), batch)
      BY <2>0, UploadsAreKnown
    <3>4. Gallery(embeds', source', batch)
      BY <2>0, <3>1, <3>2, <3>3, BuiltIsAGallery
    <3>5. Known(stored', batch)
      <4>1. Shows(embeds', Uploads(batch), Pieces(source'), batch)
        BY <2>0, <3>1, <3>2, <3>3, BuiltShows
      <4>2. Pieces(source') \in 1..MaxEmbeds
        BY <3>1, PiecesFit
      <4>3. QED BY <2>0, <3>2, <4>1, <4>2, CapturedIsKnown
    <3>6. attached' = DOMAIN batch
      <4>1. attached' = DOMAIN Uploads(batch)
        BY <2>1 DEF PostAlbum
      <4>2. DOMAIN Uploads(batch) = DOMAIN batch
        BY <2>0, UploadFacts
      <4>3. QED BY <4>1, <4>2
    <3>7. QED BY <2>0, <3>1, <3>4, <3>5, <3>6 DEF EmbedsInv
  <2>2. ASSUME NEW s \in Sources, PatchAlbum(s)
        PROVE  EmbedsInv'
    <3>1. batch' = batch /\ stored' = stored /\ source' = s /\ embeds' = Built(s, stored)
      BY <2>2 DEF PatchAlbum
    <3>2. Known(stored, batch) /\ attached = DOMAIN batch
      BY <2>2 DEF EmbedsInv, PatchAlbum
    <3>3. Gallery(embeds', s, batch)
      BY <2>0, <3>1, <3>2, BuiltIsAGallery
    <3>4. attached' = DOMAIN batch
      BY <2>2, <3>2 DEF PatchAlbum, Known
    <3>5. QED BY <2>0, <3>1, <3>2, <3>3, <3>4 DEF EmbedsInv
  <2>3. ASSUME RefreshAlbum PROVE EmbedsInv'
    <3>1. [source EXCEPT !.deleted = TRUE] \in Sources
      BY <2>0 DEF Sources
    <3>2. \A n \in Lengths : [source EXCEPT !.length = n, !.edited = TRUE] \in Sources
      BY <2>0, EmbedsAssumption DEF Sources
    <3>3. QED BY <2>0, <2>2, <2>3, <3>1, <3>2 DEF RefreshAlbum
  <2>4. ASSUME UNCHANGED embedsVars PROVE EmbedsInv'
    BY <2>4 DEF embedsVars, EmbedsInv
  <2>5. QED BY <2>1, <2>3, <2>4 DEF EmbedsNext
<1>3. QED BY <1>1, <1>2, PTL DEF EmbedsSpec

(* No refresh takes a file off a message, whatever the album, the names of *)
(* its files, the text and its edits: the row that reattach_stored_media   *)
(* reads knows every file that was uploaded.                               *)
THEOREM FilesStayAlways == EmbedsSpec => []FilesStay
<1>1. EmbedsInv => FilesStay
  BY DEF EmbedsInv, FilesStay
<1>2. QED BY <1>1, EmbedsInvAlways, PTL

(* The embeds show the album's images in its order, each once, as many as  *)
(* there is room for beside the text, after the POST and after any number  *)
(* of PATCHes, however the text grew or shrank.                            *)
THEOREM GalleryInOrderAlways == EmbedsSpec => []GalleryInOrder
<1>1. EmbedsInv => GalleryInOrder
  BY DEF EmbedsInv, Gallery, GalleryInOrder
<1>2. QED BY <1>1, EmbedsInvAlways, PTL
=============================================================================
