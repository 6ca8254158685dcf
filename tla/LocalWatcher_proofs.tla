------------------------ MODULE LocalWatcher_proofs -------------------------
(* The books of the inotify watcher balance, for any names, buffer, queue    *)
(* and number of operations and failures: whatever arrived is still queued,  *)
(* or held between two events, or collected, or was returned, or was lost in *)
(* one of the ways that `lost' records; and what is returned without having  *)
(* arrived is, once, what `strays' records.                                  *)
EXTENDS LocalWatcher, FiniteSetTheorems, SequenceTheorems, TLAPS

Masks == {"CREATE", "OPEN", "CLOSE_WRITE", "MOVED_TO", "MOVED_FROM", "DELETE",
          "CREATE|ISDIR", "MOVED_TO|ISDIR", "SELF", "Q_OVERFLOW"}

Events == {e \in [mask : Masks, name : Names \cup {NoName}, made : Names \cup {NoName}] :
              /\ e.mask \in {"SELF", "Q_OVERFLOW"} <=> e.name = NoName
              /\ e.made # NoName => e.mask \in {"OPEN", "DELETE"}}

\* What stands after the last event of a sequence.
End == Event("end", NoName)

After(s, k) == IF k < Len(s) THEN s[k + 1] ELSE End
First(s) == IF s = <<>> THEN End ELSE s[1]

\* An event of n counts by its mask, or as an IN_CREATE by what comes after it.
Marks(e, next, n, M, A) == e.name = n /\ (e.mask \in M \/ (e.mask = "CREATE" /\ next \in A))

Marked(s, n, M, A) == {k \in DOMAIN s : Marks(s[k], After(s, k), n, M, A)}
Counted(s, n, M, A) == Cardinality(Marked(s, n, M, A))

\* The arrivals of n that a sequence tells of (see Announced), those among them
\* that need no second event, and what watch() could take for one more.
ArrivalMasks == {"MOVED_TO", "CLOSE_WRITE"}
Completing(n) == {e \in Events : e.mask = "DELETE" /\ e.made = n}
Foreign(n) == {e \in Events \cup {End} : ~(PairsTogether /\ e.made = n)}

Told(s, n) == Counted(s, n, ArrivalMasks, Completing(n))
Written(s, n) == Counted(s, n, ArrivalMasks, {})
Stray(s, n) == Counted(s, n, {"MOVED_TO|ISDIR"}, Foreign(n))
-----------------------------------------------------------------------------
(* Counting the events of a sequence.                                        *)

\* A condition as a number.
One(P) == IF P THEN 1 ELSE 0

\* Positions of a sequence that comes after m others.
Shifted(K, m) == {k + m : k \in K}

LEMMA ShiftCount ==
    ASSUME NEW m \in Nat, NEW K \in SUBSET Nat, IsFiniteSet(K)
    PROVE  IsFiniteSet(Shifted(K, m)) /\ Cardinality(Shifted(K, m)) = Cardinality(K)
  <1> DEFINE f == [k \in K |-> k + m]
  <1>1. f \in Bijection(K, Shifted(K, m))
    <2>1. f \in [K -> Shifted(K, m)]
      BY DEF Shifted
    <2>2. IsInjective(f)
      BY DEF IsInjective
    <2>3. \A t \in Shifted(K, m) : \E k \in K : f[k] = t
      BY DEF Shifted
    <2> QED  BY <2>1, <2>2, <2>3 DEF Bijection, Injection, Surjection
  <1>2. ExistsBijection(K, Shifted(K, m))
    BY <1>1 DEF ExistsBijection
  <1> QED  BY <1>2, FS_Bijection

\* What is counted in two sequences one after the other.
LEMMA SplitCount ==
    ASSUME NEW m \in Nat, NEW A, A \subseteq 1..m, NEW B, B \subseteq Nat \ {0},
           IsFiniteSet(A), IsFiniteSet(B)
    PROVE  /\ IsFiniteSet(A \cup Shifted(B, m))
           /\ Cardinality(A \cup Shifted(B, m)) = Cardinality(A) + Cardinality(B)
  <1>1. B \subseteq Nat
    OBVIOUS
  <1>2. IsFiniteSet(Shifted(B, m)) /\ Cardinality(Shifted(B, m)) = Cardinality(B)
    BY <1>1, ShiftCount
  <1>3. A \cap Shifted(B, m) = {}
    BY DEF Shifted
  <1>4. Cardinality(A) \in Nat /\ Cardinality(B) \in Nat
    BY FS_CardinalityType
  <1>5. /\ IsFiniteSet(A \cup Shifted(B, m))
        /\ Cardinality(A \cup Shifted(B, m)) =
               Cardinality(A) + Cardinality(Shifted(B, m))
                   - Cardinality(A \cap Shifted(B, m))
    BY <1>2, FS_Union
  <1>6. Cardinality(A \cap Shifted(B, m)) = 0
    BY <1>3, FS_EmptySet, Zenon
  <1> QED  BY <1>2, <1>3, <1>4, <1>5, <1>6

LEMMA CountedType ==
    ASSUME NEW s \in Seq(Events), NEW n, NEW M, NEW A
    PROVE  /\ Marked(s, n, M, A) \subseteq 1..Len(s) /\ IsFiniteSet(Marked(s, n, M, A))
           /\ Counted(s, n, M, A) \in Nat
  <1>1. DOMAIN s = 1..Len(s) /\ Len(s) \in Nat
    OBVIOUS
  <1>2. Marked(s, n, M, A) \subseteq 1..Len(s)
    BY <1>1 DEF Marked
  <1>3. IsFiniteSet(1..Len(s))
    BY <1>1, FS_Interval
  <1>4. IsFiniteSet(Marked(s, n, M, A))
    BY <1>2, <1>3, FS_Subset
  <1> QED  BY <1>2, <1>4, FS_CardinalityType DEF Counted

\* Fewer masks and fewer answers, fewer events.
LEMMA CountedMonotone ==
    ASSUME NEW s \in Seq(Events), NEW n, NEW M, NEW A, NEW B, A \subseteq B
    PROVE  Counted(s, n, M, A) <= Counted(s, n, M, B)
  <1>1. Marked(s, n, M, A) \subseteq Marked(s, n, M, B)
    BY DEF Marked, Marks
  <1>2. IsFiniteSet(Marked(s, n, M, B))
    BY CountedType
  <1> QED  BY <1>1, <1>2, FS_Subset DEF Counted

LEMMA CountedEmpty ==
    ASSUME NEW n, NEW M, NEW A
    PROVE  Counted(<<>>, n, M, A) = 0
  <1>1. Marked(<<>>, n, M, A) = {}
    BY DEF Marked
  <1> QED  BY <1>1, FS_EmptySet DEF Counted

\* What two sequences one after the other mark: the last event of the first has
\* another one after it now.
LEMMA MarkedBoth ==
    ASSUME NEW s \in Seq(Events), s # <<>>, NEW t \in Seq(Events), NEW n, NEW M, NEW A
    PROVE  Marked(s \o t, n, M, A) =
               ((Marked(s, n, M, A) \ {Len(s)}) \cup Shifted(Marked(t, n, M, A), Len(s)))
               \cup IF Marks(s[Len(s)], First(t), n, M, A) THEN {Len(s)} ELSE {}
  <1> DEFINE u == s \o t
  <1>0. Len(s) \in Nat /\ Len(t) \in Nat /\ Len(u) = Len(s) + Len(t)
    OBVIOUS
  <1>1. /\ Len(s) \in Nat /\ Len(t) \in Nat /\ Len(u) = Len(s) + Len(t)
        /\ DOMAIN s = 1..Len(s) /\ DOMAIN t = 1..Len(t) /\ DOMAIN u = 1..Len(u)
        /\ \A k \in 1..Len(s) : u[k] = s[k]
        /\ \A k \in 1..Len(t) : u[k + Len(s)] = t[k]
        /\ Len(s) # 0
        /\ t = <<>> <=> Len(t) = 0
    OBVIOUS
  <1> HIDE DEF u
  <1>2. ASSUME NEW k \in 1..Len(s), k # Len(s)
        PROVE  k \in Marked(u, n, M, A) <=> k \in Marked(s, n, M, A)
    <2>1. k + 1 \in 1..Len(s) /\ k < Len(u) /\ k < Len(s) /\ k \in DOMAIN u /\ k \in DOMAIN s
      <3>1. k < Len(s)
        BY <1>0, <1>2
      <3>2. k + 1 \in 1..Len(s) /\ k < Len(u) /\ k \in 1..Len(u)
        BY <1>0, <3>1
      <3> QED  BY <1>1, <3>1, <3>2
    <2>2. After(u, k) = After(s, k) /\ u[k] = s[k]
      BY <1>1, <2>1 DEF After
    <2> QED  BY <2>1, <2>2 DEF Marked
  <1>3. Len(s) \in Marked(u, n, M, A) <=> Marks(s[Len(s)], First(t), n, M, A)
    <2>1. Len(s) \in DOMAIN u /\ u[Len(s)] = s[Len(s)]
      BY <1>1
    <2>2. After(u, Len(s)) = First(t)
      <3>1. CASE t = <<>>
        <4>1. ~(Len(s) < Len(u))
          BY <1>1, <3>1
        <4> QED  BY <3>1, <4>1 DEF After, First
      <3>2. CASE t # <<>>
        <4>1. Len(s) < Len(u) /\ 1 \in 1..Len(t) /\ 1 + Len(s) = Len(s) + 1
          BY <1>1, <3>2
        <4>2. u[Len(s) + 1] = t[1]
          BY <1>1, <4>1
        <4> QED  BY <3>2, <4>1, <4>2 DEF After, First
      <3> QED  BY <3>1, <3>2
    <2> QED  BY <2>1, <2>2 DEF Marked
  <1>4. ASSUME NEW k \in 1..Len(t)
        PROVE  k + Len(s) \in Marked(u, n, M, A) <=> k \in Marked(t, n, M, A)
    <2>1. /\ k + Len(s) \in DOMAIN u /\ k \in DOMAIN t /\ u[k + Len(s)] = t[k]
          /\ k + Len(s) < Len(u) <=> k < Len(t)
      BY <1>1
    <2>2. k < Len(t) => u[k + Len(s) + 1] = t[k + 1]
      <3>1. k < Len(t) => k + 1 \in 1..Len(t) /\ (k + 1) + Len(s) = k + Len(s) + 1
        BY <1>1
      <3> QED  BY <1>1, <3>1
    <2>3. After(u, k + Len(s)) = After(t, k)
      BY <2>1, <2>2 DEF After
    <2> QED  BY <2>1, <2>3 DEF Marked
  <1>5. /\ Marked(u, n, M, A) \subseteq 1..Len(u) /\ Marked(s, n, M, A) \subseteq 1..Len(s)
        /\ Marked(t, n, M, A) \subseteq 1..Len(t)
    BY <1>1 DEF Marked
  <1> DEFINE front == Marked(s, n, M, A) \ {Len(s)}
             rest == Shifted(Marked(t, n, M, A), Len(s))
             seam == Marks(s[Len(s)], First(t), n, M, A)
  <1>6. ASSUME NEW k \in rest
        PROVE  k \in 1..Len(u) /\ k \notin 1..Len(s) /\ k # Len(s)
    <2>1. PICK j \in Marked(t, n, M, A) : k = j + Len(s)
      BY DEF Shifted
    <2>2. j \in 1..Len(t)
      BY <1>5
    <2> QED  BY <1>0, <2>1, <2>2
  <1>7. ASSUME NEW k
        PROVE  k \in Marked(u, n, M, A) <=> k \in front \/ k \in rest \/ (k = Len(s) /\ seam)
    <2>1. CASE k \in 1..Len(s) /\ k # Len(s)
      <3>1. k \notin rest
        BY <1>6, <2>1, Zenon
      <3> QED  BY <1>2, <2>1, <3>1
    <2>2. CASE k = Len(s)
      <3>1. k \notin rest
        BY <1>6, <2>2, Zenon
      <3> QED  BY <1>3, <2>2, <3>1
    <2>3. CASE k \in 1..Len(u) /\ k \notin 1..Len(s)
      <3>1. k - Len(s) \in 1..Len(t) /\ (k - Len(s)) + Len(s) = k /\ k # Len(s)
        BY <1>0, <2>3
      <3>2. k \in rest <=> k - Len(s) \in Marked(t, n, M, A)
        <4>1. ASSUME k \in rest PROVE k - Len(s) \in Marked(t, n, M, A)
          <5>1. PICK j \in Marked(t, n, M, A) : k = j + Len(s)
            BY <4>1 DEF Shifted
          <5>2. j \in 1..Len(t)
            BY <1>5
          <5>3. k - Len(s) = j
            BY <1>0, <5>1, <5>2
          <5> QED  BY <5>3
        <4>2. ASSUME k - Len(s) \in Marked(t, n, M, A) PROVE k \in rest
          BY <3>1, <4>2 DEF Shifted
        <4> QED  BY <4>1, <4>2
      <3>3. k \in Marked(u, n, M, A) <=> k - Len(s) \in Marked(t, n, M, A)
        BY <1>4, <3>1
      <3> QED  BY <1>5, <2>3, <3>1, <3>2, <3>3
    <2>4. CASE k \notin 1..Len(u)
      <3>1. k \notin rest
        BY <1>6, <2>4, Zenon
      <3>2. k \notin 1..Len(s) /\ k # Len(s)
        BY <1>1, <2>4
      <3> QED  BY <1>5, <2>4, <3>1, <3>2
    <2> QED  BY <1>0, <2>1, <2>2, <2>3, <2>4
  <1>8. Marked(u, n, M, A) = (front \cup rest) \cup IF seam THEN {Len(s)} ELSE {}
    <2> HIDE DEF front, rest, seam
    <2> QED  BY <1>7
  <1> QED  BY <1>8 DEF u

\* The counts of two sequences add up, but for what the seam makes of the last
\* event of the first.
LEMMA CountsAdd ==
    ASSUME NEW s \in Seq(Events), s # <<>>, NEW t \in Seq(Events), NEW n, NEW M, NEW A
    PROVE  Counted(s \o t, n, M, A) + One(Marks(s[Len(s)], End, n, M, A))
               = Counted(s, n, M, A) + Counted(t, n, M, A)
                     + One(Marks(s[Len(s)], First(t), n, M, A))
  <1> DEFINE K == Marked(s, n, M, A)
             front == K \ {Len(s)}
             back == Marked(t, n, M, A)
             both == front \cup Shifted(back, Len(s))
             seam == Marks(s[Len(s)], First(t), n, M, A)
             open == Marks(s[Len(s)], End, n, M, A)
  <1>1. /\ Len(s) \in Nat /\ Len(s) # 0 /\ K \subseteq 1..Len(s) /\ IsFiniteSet(K)
        /\ back \subseteq 1..Len(t) /\ Len(t) \in Nat /\ IsFiniteSet(back)
        /\ Counted(s, n, M, A) = Cardinality(K) /\ Cardinality(K) \in Nat
        /\ Counted(t, n, M, A) = Cardinality(back) /\ Cardinality(back) \in Nat
    <2>1. Len(s) \in Nat /\ Len(s) # 0 /\ Len(t) \in Nat
      OBVIOUS
    <2> QED  BY <2>1, CountedType DEF Counted
  <1>2. Len(s) \in K <=> open
    <2>1. Len(s) \in DOMAIN s /\ After(s, Len(s)) = End
      BY <1>1 DEF After
    <2> QED  BY <2>1 DEF Marked
  <1>3. Marked(s \o t, n, M, A) = both \cup IF seam THEN {Len(s)} ELSE {}
    BY MarkedBoth
  <1>4. IsFiniteSet(front) /\ Cardinality(front) \in Nat
        /\ Cardinality(K) = Cardinality(front) + One(open)
    <2>1. IsFiniteSet(front)
      BY <1>1, FS_Subset
    <2>2. Cardinality(front) \in Nat
      BY <2>1, FS_CardinalityType
    <2>3. CASE open
      <3>1. K = front \cup {Len(s)} /\ Len(s) \notin front
        BY <1>2, <2>3
      <3>2. Cardinality(front \cup {Len(s)}) = Cardinality(front) + 1
        BY <2>1, <3>1, FS_AddElement
      <3> HIDE DEF front, K, open
      <3>3. Cardinality(K) = Cardinality(front) + 1
        BY <3>1, <3>2, Zenon
      <3> QED  BY <2>1, <2>2, <2>3, <3>3 DEF One
    <2>4. CASE ~open
      <3>1. K = front
        BY <1>2, <2>4
      <3> HIDE DEF front, K, open
      <3>2. Cardinality(K) = Cardinality(front)
        BY <3>1, Zenon
      <3> QED  BY <2>1, <2>2, <2>4, <3>2 DEF One
    <2> QED  BY <2>3, <2>4
  <1>5. IsFiniteSet(both) /\ Cardinality(both) = Cardinality(front) + Cardinality(back)
    <2> DEFINE m == Len(s)
    <2>1. /\ m \in Nat /\ front \subseteq 1..m /\ back \subseteq Nat \ {0}
          /\ IsFiniteSet(front) /\ IsFiniteSet(back)
      BY <1>1, <1>4
    <2>2. /\ IsFiniteSet(front \cup Shifted(back, m))
          /\ Cardinality(front \cup Shifted(back, m)) = Cardinality(front) + Cardinality(back)
      <3> HIDE DEF front, back, m
      <3> QED  BY <2>1, SplitCount, ZenonT(60)
    <2> QED  BY <2>2
  <1>6. Cardinality(Marked(s \o t, n, M, A)) = Cardinality(both) + One(seam)
    <2>1. CASE seam
      <3>1. Marked(s \o t, n, M, A) = both \cup {Len(s)}
        BY <1>3, <2>1
      <3>2. Len(s) \notin both
        BY <1>1 DEF Shifted
      <3>3. Cardinality(both \cup {Len(s)}) = Cardinality(both) + 1
        BY <1>5, <3>2, FS_AddElement
      <3> HIDE DEF both, seam
      <3> QED  BY <2>1, <3>1, <3>3 DEF One
    <2>2. CASE ~seam
      <3>1. Marked(s \o t, n, M, A) = both
        BY <1>3, <2>2
      <3>2. Cardinality(both) \in Nat
        BY <1>5, FS_CardinalityType
      <3> HIDE DEF both, seam
      <3> QED  BY <2>2, <3>1, <3>2 DEF One
    <2> QED  BY <2>1, <2>2
  <1> DEFINE all == Counted(s \o t, n, M, A)
             c == Cardinality(front)
             d == Cardinality(back)
             p == One(open)
             q == One(seam)
  <1>7. /\ c \in Nat /\ d \in Nat /\ p \in Nat /\ q \in Nat
        /\ Counted(s, n, M, A) = c + p /\ Counted(t, n, M, A) = d
    <2>1. p \in Nat /\ q \in Nat
      BY DEF One
    <2>2. c \in Nat /\ d \in Nat /\ Cardinality(K) = c + p
      BY <1>1, <1>4
    <2> QED  BY <1>1, <2>1, <2>2
  <1>8. all = c + d + q
    BY <1>5, <1>6 DEF Counted
  <1> HIDE DEF all, c, d, p, q
  <1>9. all + p = Counted(s, n, M, A) + Counted(t, n, M, A) + q
    BY <1>7, <1>8
  <1> QED  BY <1>9 DEF all, p, q

\* A single event, and the first event of a sequence.
LEMMA OneCounts ==
    ASSUME NEW e \in Events, NEW n, NEW M, NEW A
    PROVE  Counted(<<e>>, n, M, A) = One(Marks(e, End, n, M, A))
  <1> DEFINE one == <<e>>
  <1>1. DOMAIN one = {1} /\ one[1] = e /\ After(one, 1) = End
    BY DEF After
  <1>2. Marked(one, n, M, A) = IF Marks(e, End, n, M, A) THEN {1} ELSE {}
    BY <1>1 DEF Marked
  <1> QED  BY <1>2, FS_EmptySet, FS_Singleton DEF Counted, One

LEMMA FirstCounts ==
    ASSUME NEW e \in Events, NEW s \in Seq(Events), NEW n, NEW M, NEW A
    PROVE  Counted(<<e>> \o s, n, M, A) = Counted(s, n, M, A) + One(Marks(e, First(s), n, M, A))
  <1> DEFINE one == <<e>>
  <1>1. one \in Seq(Events) /\ one # <<>> /\ one[Len(one)] = e
    <2>1. Len(one) = 1 /\ one[1] = e /\ one \in Seq(Events)
      OBVIOUS
    <2> QED  BY <2>1
  <1>2. Counted(one, n, M, A) = One(Marks(e, End, n, M, A))
    BY OneCounts
  <1> HIDE DEF one
  <1>3. Counted(one \o s, n, M, A) + One(Marks(e, End, n, M, A))
            = Counted(one, n, M, A) + Counted(s, n, M, A) + One(Marks(e, First(s), n, M, A))
    <2>1. Counted(one \o s, n, M, A) + One(Marks(one[Len(one)], End, n, M, A))
              = Counted(one, n, M, A) + Counted(s, n, M, A)
                    + One(Marks(one[Len(one)], First(s), n, M, A))
      BY <1>1, CountsAdd
    <2> QED  BY <1>1, <2>1
  <1>4. one \o s \in Seq(Events)
    BY <1>1
  <1> DEFINE all == Counted(one \o s, n, M, A)
             rest == Counted(s, n, M, A)
             p == One(Marks(e, End, n, M, A))
             q == One(Marks(e, First(s), n, M, A))
  <1>5. all \in Nat /\ rest \in Nat
    BY <1>4, CountedType
  <1>6. p \in Nat /\ q \in Nat
    BY DEF One
  <1>7. all + p = p + rest + q
    BY <1>2, <1>3
  <1> HIDE DEF all, rest, p, q
  <1>8. all = rest + q
    BY <1>5, <1>6, <1>7
  <1> QED  BY <1>8 DEF all, rest, q, one

LEMMA HeadCounts ==
    ASSUME NEW s \in Seq(Events), s # <<>>, NEW n, NEW M, NEW A
    PROVE  Counted(s, n, M, A) = Counted(Tail(s), n, M, A)
               + One(Marks(Head(s), First(Tail(s)), n, M, A))
  <1>1. Head(s) \in Events /\ Tail(s) \in Seq(Events) /\ s = <<Head(s)>> \o Tail(s)
    OBVIOUS
  <1>2. Counted(<<Head(s)>> \o Tail(s), n, M, A) = Counted(Tail(s), n, M, A)
            + One(Marks(Head(s), First(Tail(s)), n, M, A))
    <2> DEFINE e == Head(s)
               t == Tail(s)
    <2>1. e \in Events /\ t \in Seq(Events)
      BY <1>1
    <2> HIDE DEF e, t
    <2>2. Counted(<<e>> \o t, n, M, A) = Counted(t, n, M, A) + One(Marks(e, First(t), n, M, A))
      BY <2>1, FirstCounts
    <2> QED  BY <2>2 DEF e, t
  <1> QED  BY <1>1, <1>2, Zenon

\* Nothing after a sequence ends belongs to a name.
LEMMA EndFacts ==
    ASSUME NEW n \in Names
    PROVE  /\ End \notin Completing(n) /\ End \in Foreign(n)
           /\ \A e \in Events : /\ e \in Completing(n) => e.made = n /\ e.mask = "DELETE"
                                /\ e \notin Foreign(n) => PairsTogether /\ e.made = n
           /\ \A t \in Seq(Events) : First(t) \in Events \cup {End}
  <1>1. End.mask = "end" /\ End.made = NoName
    BY DEF End, Event, Second
  <1>2. n # NoName
    BY LocalWatcherAssumption
  <1>3. End \notin Completing(n)
    BY <1>1 DEF Completing
  <1>4. End \in Foreign(n)
    BY <1>1, <1>2 DEF Foreign
  <1>5. \A t \in Seq(Events) : First(t) \in Events \cup {End}
    <2> SUFFICES ASSUME NEW t \in Seq(Events) PROVE First(t) \in Events \cup {End}
      OBVIOUS
    <2>1. t # <<>> => t[1] \in Events
      OBVIOUS
    <2> QED  BY <2>1 DEF First
  <1>6. \A e \in Events : e \in Completing(n) => e.made = n /\ e.mask = "DELETE"
    BY DEF Completing
  <1>7. \A e \in Events : e \notin Foreign(n) => PairsTogether /\ e.made = n
    BY DEF Foreign
  <1> QED  BY <1>3, <1>4, <1>5, <1>6, <1>7

\* A sequence that begins with the second event of a rename to n.
Completes(t, n) == First(t) \in Completing(n)

\* Two sequences are one after the other in the middle of a pair.
Torn(s, t, n) ==
    /\ s # <<>> /\ s[Len(s)].mask = "CREATE" /\ s[Len(s)].name = n
    /\ First(t).made = n

LEMMA SeamWritten ==
    ASSUME NEW s \in Seq(Events), NEW t \in Seq(Events), NEW n
    PROVE  Written(s \o t, n) = Written(s, n) + Written(t, n)
  <1>1. s \o t \in Seq(Events)
    OBVIOUS
  <1>2. /\ Written(s, n) \in Nat /\ Written(t, n) \in Nat /\ Written(s \o t, n) \in Nat
    BY <1>1, CountedType DEF Written
  <1>3. CASE s = <<>>
    <2>1. s \o t = t
      BY <1>3
    <2>2. Written(s, n) = 0
      BY <1>3, CountedEmpty DEF Written
    <2> QED  BY <1>2, <2>1, <2>2
  <1>4. CASE s # <<>>
    <2> DEFINE end == One(Marks(s[Len(s)], End, n, ArrivalMasks, {}))
               seam == One(Marks(s[Len(s)], First(t), n, ArrivalMasks, {}))
    <2>1. Written(s \o t, n) + end = Written(s, n) + Written(t, n) + seam
      BY <1>4, CountsAdd DEF Written
    <2>2. end = seam /\ end \in Nat
      BY DEF Marks, One
    <2> HIDE DEF end, seam
    <2> QED  BY <1>2, <2>1, <2>2
  <1> QED  BY <1>3, <1>4

LEMMA SeamTold ==
    ASSUME NEW s \in Seq(Events), NEW t \in Seq(Events), NEW n \in Names
    PROVE  /\ Told(s \o t, n) >= Told(s, n) + Told(t, n)
           /\ Told(s \o t, n) <= Told(s, n) + Told(t, n) + One(Completes(t, n))
           /\ ~Torn(s, t, n) => Told(s \o t, n) = Told(s, n) + Told(t, n)
  <1>1. s \o t \in Seq(Events)
    OBVIOUS
  <1>2. /\ Told(s, n) \in Nat /\ Told(t, n) \in Nat /\ Told(s \o t, n) \in Nat
        /\ One(Completes(t, n)) \in Nat
    BY <1>1, CountedType DEF Told, One
  <1>3. CASE s = <<>>
    <2>1. s \o t = t
      BY <1>3
    <2>2. Told(s, n) = 0
      BY <1>3, CountedEmpty DEF Told
    <2> QED  BY <1>2, <2>1, <2>2
  <1>4. CASE s # <<>>
    <2> DEFINE end == One(Marks(s[Len(s)], End, n, ArrivalMasks, Completing(n)))
               seam == One(Marks(s[Len(s)], First(t), n, ArrivalMasks, Completing(n)))
               more == One(Completes(t, n))
    <2>1. Told(s \o t, n) + end = Told(s, n) + Told(t, n) + seam
      BY <1>4, CountsAdd DEF Told
    <2>2. end \in Nat /\ seam \in Nat /\ end <= seam /\ seam <= end + more
      BY EndFacts DEF Marks, One, Completes
    <2>3. ~Torn(s, t, n) => seam = end
      <3>1. End \notin Completing(n) /\ (First(t) \in Completing(n) => First(t).made = n)
        BY EndFacts DEF Completing
      <3> QED  BY <1>4, <3>1 DEF Marks, One, Torn
    <2> HIDE DEF end, seam, more
    <2>4. Told(s \o t, n) >= Told(s, n) + Told(t, n)
      BY <1>2, <2>1, <2>2
    <2>5. Told(s \o t, n) <= Told(s, n) + Told(t, n) + more
      <3>1. more \in Nat
        BY <1>2 DEF more
      <3> QED  BY <1>2, <2>1, <2>2, <3>1
    <2>6. ASSUME ~Torn(s, t, n) PROVE Told(s \o t, n) = Told(s, n) + Told(t, n)
      <3>1. seam = end
        BY <2>3, <2>6
      <3> QED  BY <1>2, <2>1, <2>2, <3>1
    <2> QED  BY <2>4, <2>5, <2>6 DEF more
  <1> QED  BY <1>3, <1>4

LEMMA SeamStray ==
    ASSUME NEW s \in Seq(Events), NEW t \in Seq(Events), NEW n \in Names
    PROVE  /\ Stray(s \o t, n) <= Stray(s, n) + Stray(t, n)
           /\ ~PairsTogether \/ ~Torn(s, t, n) => Stray(s \o t, n) = Stray(s, n) + Stray(t, n)
  <1>1. s \o t \in Seq(Events)
    OBVIOUS
  <1>2. Stray(s, n) \in Nat /\ Stray(t, n) \in Nat /\ Stray(s \o t, n) \in Nat
    BY <1>1, CountedType DEF Stray
  <1>3. CASE s = <<>>
    <2>1. s \o t = t
      BY <1>3
    <2>2. Stray(s, n) = 0
      BY <1>3, CountedEmpty DEF Stray
    <2> QED  BY <1>2, <2>1, <2>2
  <1>4. CASE s # <<>>
    <2> DEFINE end == One(Marks(s[Len(s)], End, n, {"MOVED_TO|ISDIR"}, Foreign(n)))
               seam == One(Marks(s[Len(s)], First(t), n, {"MOVED_TO|ISDIR"}, Foreign(n)))
    <2>1. Stray(s \o t, n) + end = Stray(s, n) + Stray(t, n) + seam
      BY <1>4, CountsAdd DEF Stray
    <2>2. end \in Nat /\ seam \in Nat /\ seam <= end
      BY EndFacts DEF Marks, One
    <2>3. ~PairsTogether \/ ~Torn(s, t, n) => seam = end
      <3>1. End \in Foreign(n)
            /\ (First(t) \notin Foreign(n) => PairsTogether /\ First(t).made = n)
        BY EndFacts
      <3> QED  BY <1>4, <3>1 DEF Marks, One, Torn
    <2> HIDE DEF end, seam
    <2>4. Stray(s \o t, n) <= Stray(s, n) + Stray(t, n)
      BY <1>2, <2>1, <2>2
    <2>5. ASSUME ~PairsTogether \/ ~Torn(s, t, n)
          PROVE  Stray(s \o t, n) = Stray(s, n) + Stray(t, n)
      <3>1. seam = end
        BY <2>3, <2>5
      <3> QED  BY <1>2, <2>1, <2>2, <3>1
    <2> QED  BY <2>4, <2>5
  <1> QED  BY <1>3, <1>4

\* How often a value is in a sequence.
Count(list, x) == Cardinality({k \in DOMAIN list : list[k] = x})

Returns == [name : Names, due : BOOLEAN]

LEMMA CollectedCounts ==
    ASSUME NEW list \in Seq(Returns), NEW x
    PROVE  /\ Count(list, x) \in Nat /\ Count(<<>>, x) = 0
           /\ \A y \in Returns : Count(Append(list, y), x) = Count(list, x) + One(y = x)
  <1> DEFINE At_(items) == {k \in DOMAIN items : items[k] = x}
  <1>1. /\ Len(list) \in Nat /\ DOMAIN list = 1..Len(list)
        /\ At_(list) \subseteq 1..Len(list) /\ At_(<<>>) = {}
    OBVIOUS
  <1>2. IsFiniteSet(At_(list))
    <2>1. IsFiniteSet(1..Len(list))
      BY <1>1, FS_Interval
    <2> QED  BY <1>1, <2>1, FS_Subset
  <1>3. ASSUME NEW y \in Returns
        PROVE  At_(Append(list, y)) = At_(list) \cup IF y = x THEN {Len(list) + 1} ELSE {}
    OBVIOUS
  <1>4. Len(list) + 1 \notin At_(list)
    BY <1>1
  <1>5. ASSUME NEW y \in Returns
        PROVE  Cardinality(At_(Append(list, y))) = Cardinality(At_(list)) + One(y = x)
    <2>1. Cardinality(At_(list)) \in Nat
      BY <1>2, FS_CardinalityType
    <2>2. CASE y = x
      <3>1. At_(Append(list, y)) = At_(list) \cup {Len(list) + 1}
        BY <1>3, <2>2
      <3>2. Cardinality(At_(list) \cup {Len(list) + 1}) = Cardinality(At_(list)) + 1
        BY <1>2, <1>4, FS_AddElement
      <3> QED  BY <2>2, <3>1, <3>2 DEF One
    <2>3. CASE y # x
      <3>1. At_(Append(list, y)) = At_(list)
        BY <1>3, <2>3
      <3> HIDE DEF At_
      <3> QED  BY <2>1, <2>3, <3>1 DEF One
    <2> QED  BY <2>2, <2>3
  <1> QED  BY <1>1, <1>2, <1>5, FS_CardinalityType, FS_EmptySet DEF Count
-----------------------------------------------------------------------------
(* The inductive invariant.                                                  *)

\* The types, the indices that the pairing relies on, and, of events that stay
\* together, that no other process is between the two.
Shape ==
    /\ TypeOK
    /\ queue \in Seq(Events) /\ batch \in Seq(Events) /\ lost \in [Names -> Nat]
    /\ Len(queue) = QueueMax + 1 => queue[Len(queue)].mask = "Q_OVERFLOW"
    /\ eventIndex + Len(batch) <= ReadMax /\ createdFileEventIndex < eventIndex
    /\ pc # "events" => batch = <<>> /\ result = <<>>
    /\ PairsTogether => \A n \in Names : stage[n] \notin {"created", "linked"}

\* Where the arrivals of n are, and where what could be taken for one is.
AllTold(n) == reports[n] + Count(result, Return(n, TRUE))
                  + Told(Held, n) + Told(queue, n) + lost[n]
AllWritten(n) == reports[n] + Count(result, Return(n, TRUE))
                     + Written(Held, n) + Written(queue, n) + lost[n]
AllStray(n) == extra[n] + Count(result, Return(n, FALSE))
                   + Stray(Held, n) + Stray(queue, n)

\* No arrival is in two places, and each is in one; of those by link and unlink
\* that is only so when their events stay together.
Balance ==
    \A n \in Names :
        /\ AllTold(n) <= arrivals[n]
        /\ PairsTogether => AllTold(n) >= arrivals[n]
        /\ AllWritten(n) >= arrivals[n] - renamed[n]
        /\ AllStray(n) <= strays[n]

\* A call that returns once cancelfd is readable had found it unreadable.
Prompt ==
    /\ late <= 1
    /\ ~cancelled \/ pc = "events" => late = 0

IInv == Shape /\ Balance /\ Prompt

\* The operators of the model are these counts.
LEMMA ModelCounts ==
    ASSUME NEW n \in Names
    PROVE  /\ \A s \in Seq(Events) : Announced(s)[n] = Told(s, n)
           /\ \A due : Collected(due)[n] = Count(result, Return(n, due))
           /\ None[n] = 0
  <1>1. ASSUME NEW s \in Seq(Events) PROVE Announced(s)[n] = Told(s, n)
    <2>1. ASSUME NEW k \in DOMAIN s
          PROVE  Marks(s[k], After(s, k), n, ArrivalMasks, Completing(n)) <=>
                     \/ s[k].name = n /\ s[k].mask \in {"MOVED_TO", "CLOSE_WRITE"}
                     \/ /\ s[k].name = n /\ s[k].mask = "CREATE" /\ k < Len(s)
                        /\ s[k + 1].mask = "DELETE" /\ s[k + 1].made = n
      <3>1. k < Len(s) => s[k + 1] \in Events
        OBVIOUS
      <3>2. End \notin Completing(n)
        BY EndFacts
      <3> QED  BY <3>1, <3>2 DEF Marks, After, Completing, ArrivalMasks
    <2>2. Announced(s)[n] = Cardinality({k \in DOMAIN s :
                /\ s[k].name = n
                /\ \/ s[k].mask \in {"MOVED_TO", "CLOSE_WRITE"}
                   \/ /\ s[k].mask = "CREATE" /\ k < Len(s)
                      /\ s[k + 1].mask = "DELETE" /\ s[k + 1].made = n})
      BY DEF Announced
    <2>3. {k \in DOMAIN s :
                /\ s[k].name = n
                /\ \/ s[k].mask \in {"MOVED_TO", "CLOSE_WRITE"}
                   \/ /\ s[k].mask = "CREATE" /\ k < Len(s)
                      /\ s[k + 1].mask = "DELETE" /\ s[k + 1].made = n}
              = Marked(s, n, ArrivalMasks, Completing(n))
      BY <2>1 DEF Marked
    <2> QED  BY <2>2, <2>3 DEF Told, Counted
  <1>2. \A due : Collected(due)[n] = Count(result, Return(n, due))
    BY DEF Collected, Count
  <1> QED  BY <1>1, <1>2 DEF None

\* What is held between two events, and what follows from its first.
LEMMA HeldSequence ==
    Shape => Held \in Seq(Events)
  <1> SUFFICES ASSUME Shape PROVE Held \in Seq(Events)
    OBVIOUS
  <1>1. batch \in Seq(Events) /\ createdFile \in Names \cup {NoName}
    BY DEF Shape, TypeOK
  <1>2. CASE AfterCreate
    <2>1. Event("CREATE", createdFile) \in Events
      BY <1>1, <1>2 DEF AfterCreate, Event, Second, Events, Masks
    <2>2. <<Event("CREATE", createdFile)>> \in Seq(Events)
      BY <2>1
    <2> QED  BY <1>1, <2>2 DEF Held
  <1> QED  BY <1>1, <1>2 DEF Held

\* All counts are numbers.
LEMMA CountsAreNumbers ==
    ASSUME Shape, NEW n
    PROVE  /\ \A due : Count(result, Return(n, due)) \in Nat
           /\ Told(Held, n) \in Nat /\ Written(Held, n) \in Nat /\ Stray(Held, n) \in Nat
           /\ Told(queue, n) \in Nat /\ Written(queue, n) \in Nat /\ Stray(queue, n) \in Nat
  <1>1. Held \in Seq(Events) /\ queue \in Seq(Events) /\ result \in Seq(Returns)
    BY HeldSequence DEF Shape, TypeOK, Returns
  <1> QED  BY <1>1, CountedType, CollectedCounts DEF Told, Written, Stray

LEMMA HistoryAreNumbers ==
    ASSUME Shape, NEW n \in Names
    PROVE  /\ reports[n] \in Nat /\ extra[n] \in Nat /\ lost[n] \in Nat
           /\ arrivals[n] \in Nat /\ renamed[n] \in Nat /\ strays[n] \in Nat
  BY DEF Shape, TypeOK

-----------------------------------------------------------------------------
(* The other processes.                                                      *)

\* Events as an operation makes them, which never begin in the middle of a pair.
Whole(events) ==
    /\ events \in Seq(Events) /\ events # <<>>
    /\ PairsTogether => events[1].made = NoName

\* Events that come are queued or, all of them, lost.
Queued(events, n) ==
    /\ Told(queue', n) + lost'[n] >= Told(queue, n) + lost[n] + Told(events, n)
    /\ Told(queue', n) + lost'[n]
           <= Told(queue, n) + lost[n] + Told(events, n) + One(Completes(events, n))
    /\ Written(queue', n) + lost'[n] >= Written(queue, n) + lost[n] + Written(events, n)
    /\ Stray(queue', n) <= Stray(queue, n) + Stray(events, n)

LEMMA EventCounts ==
    ASSUME NEW events \in Seq(Events), NEW n
    PROVE  /\ Told(events, n) \in Nat /\ Written(events, n) \in Nat
           /\ Stray(events, n) \in Nat /\ One(Completes(events, n)) \in Nat
           /\ Written(events, n) <= Told(events, n)
  <1>1. /\ Told(events, n) \in Nat /\ Written(events, n) \in Nat
        /\ Stray(events, n) \in Nat /\ One(Completes(events, n)) \in Nat
    BY CountedType DEF Told, Written, Stray, One
  <1>2. Written(events, n) <= Told(events, n)
    <2>1. {} \subseteq Completing(n)
      OBVIOUS
    <2> QED  BY <2>1, CountedMonotone DEF Told, Written
  <1> QED  BY <1>1, <1>2

LEMMA EmitKeeps ==
    ASSUME Shape, NEW events, Whole(events), Emit(events)
    PROVE  /\ queue' \in Seq(Events) /\ lost' \in [Names -> Nat]
           /\ Len(queue') <= QueueMax + 1
           /\ Len(queue') = QueueMax + 1 => queue'[Len(queue')].mask = "Q_OVERFLOW"
           /\ \A n \in Names : Queued(events, n)
  <1>1. queue \in Seq(Events) /\ Len(queue) <= QueueMax + 1 /\ lost \in [Names -> Nat]
        /\ QueueMax \in Nat /\ Len(queue) \in Nat
    <2>1. queue \in Seq(Events) /\ Len(queue) <= QueueMax + 1 /\ lost \in [Names -> Nat]
      BY DEF Shape, TypeOK
    <2>2. Len(queue) \in Nat
      BY <2>1
    <2> QED  BY <2>1, <2>2, LocalWatcherAssumption
  <1>2. events \in Seq(Events) /\ events # <<>>
    BY DEF Whole
  <1>3. ASSUME NEW n \in Names
        PROVE  /\ Told(queue, n) \in Nat /\ Written(queue, n) \in Nat
               /\ Stray(queue, n) \in Nat /\ lost[n] \in Nat
               /\ Told(events, n) \in Nat /\ Written(events, n) \in Nat
               /\ Stray(events, n) \in Nat /\ One(Completes(events, n)) \in Nat
               /\ Written(events, n) <= Told(events, n)
    <2>1. lost[n] \in Nat
      BY <1>1
    <2> QED  BY <1>1, <1>2, <2>1, EventCounts
  <1>4. CASE Len(queue) + Len(events) <= QueueMax
    <2>1. queue' = queue \o events /\ lost' = lost
      BY <1>4 DEF Emit
    <2>2. queue' \in Seq(Events) /\ Len(queue') = Len(queue) + Len(events)
      BY <1>1, <1>2, <2>1
    <2>3. ASSUME NEW n \in Names PROVE Queued(events, n)
      <3>1. /\ Told(queue \o events, n) >= Told(queue, n) + Told(events, n)
            /\ Told(queue \o events, n)
                   <= Told(queue, n) + Told(events, n) + One(Completes(events, n))
        BY <1>1, <1>2, SeamTold
      <3>2. Written(queue \o events, n) = Written(queue, n) + Written(events, n)
        BY <1>1, <1>2, SeamWritten
      <3>3. Stray(queue \o events, n) <= Stray(queue, n) + Stray(events, n)
        BY <1>1, <1>2, SeamStray
      <3>4. /\ Told(queue', n) = Told(queue \o events, n)
            /\ Written(queue', n) = Written(queue \o events, n)
            /\ Stray(queue', n) = Stray(queue \o events, n) /\ lost'[n] = lost[n]
        BY <2>1, Zenon
      <3>5. /\ Told(queue', n) \in Nat
        BY <2>2, EventCounts
      <3> QED  BY <1>3, <3>1, <3>2, <3>3, <3>4, <3>5 DEF Queued
    <2>4. Len(events) \in Nat
      BY <1>2
    <2> QED  BY <1>1, <1>4, <2>1, <2>2, <2>3, <2>4
  <1>5. CASE ~(Len(queue) + Len(events) <= QueueMax)
    <2> DEFINE full == Event("Q_OVERFLOW", NoName)
    <2>1. full \in Events /\ full.mask = "Q_OVERFLOW" /\ full.made = NoName
          /\ full.name = NoName
      BY DEF Event, Second, Events, Masks
    <2>2. /\ queue' = IF queue # <<>> /\ Last(queue).mask = "Q_OVERFLOW" THEN queue
                      ELSE Append(queue, full)
          /\ Lose(Announced(events), None)
      BY <1>5 DEF Emit
    <2> HIDE DEF full
    <2>3. ASSUME NEW n \in Names PROVE lost'[n] = lost[n] + Told(events, n)
      <3>1. Announced(events)[n] = Told(events, n) /\ None[n] = 0
        BY <1>2, ModelCounts
      <3>2. lost'[n] = lost[n] + Announced(events)[n] - None[n]
        BY <2>2 DEF Lose
      <3> QED  BY <1>3, <3>1, <3>2
    <2>4. lost' \in [Names -> Nat]
      <3>1. \A n \in Names : lost'[n] \in Nat
        BY <1>3, <2>3
      <3> QED  BY <2>2, <3>1 DEF Lose
    <2>5. ASSUME NEW n \in Names, Told(queue', n) = Told(queue, n),
                 Written(queue', n) = Written(queue, n), Stray(queue', n) = Stray(queue, n)
          PROVE  Queued(events, n)
      BY <1>3, <2>3, <2>5 DEF Queued
    <2>6. CASE queue # <<>> /\ Last(queue).mask = "Q_OVERFLOW"
      <3>1. queue' = queue /\ queue[Len(queue)].mask = "Q_OVERFLOW"
        BY <2>2, <2>6 DEF Last
      <3> QED  BY <1>1, <2>4, <2>5, <3>1
    <2>7. CASE ~(queue # <<>> /\ Last(queue).mask = "Q_OVERFLOW")
      <3>1. queue' = Append(queue, full)
        BY <2>2, <2>7
      <3>2. /\ queue' = queue \o <<full>> /\ Len(queue') = Len(queue) + 1
            /\ queue' \in Seq(Events) /\ queue'[Len(queue')] = full
            /\ <<full>> \in Seq(Events) /\ First(<<full>>) = full
        BY <1>1, <2>1, <3>1 DEF First
      <3>3. Len(queue) # QueueMax + 1
        <4>1. CASE queue = <<>>
          BY <1>1, <4>1
        <4>2. CASE queue # <<>>
          BY <2>7, <4>2 DEF Shape, Last
        <4> QED  BY <4>1, <4>2
      <3>4. ASSUME NEW n \in Names
            PROVE  /\ Told(queue', n) = Told(queue, n) /\ Written(queue', n) = Written(queue, n)
                   /\ Stray(queue', n) = Stray(queue, n)
        <4>1. n # NoName
          BY LocalWatcherAssumption
        <4>2. ~Torn(queue, <<full>>, n)
          BY <2>1, <3>2, <4>1 DEF Torn
        <4>3. Told(<<full>>, n) = 0 /\ Written(<<full>>, n) = 0 /\ Stray(<<full>>, n) = 0
          BY <2>1, <4>1, OneCounts DEF Told, Written, Stray, Marks, One
        <4>4. Told(queue \o <<full>>, n) = Told(queue, n) + Told(<<full>>, n)
          BY <1>1, <3>2, <4>2, SeamTold
        <4>5. Written(queue \o <<full>>, n) = Written(queue, n) + Written(<<full>>, n)
          BY <1>1, <3>2, SeamWritten
        <4>6. Stray(queue \o <<full>>, n) = Stray(queue, n) + Stray(<<full>>, n)
          BY <1>1, <3>2, <4>2, SeamStray
        <4> QED  BY <1>3, <3>2, <4>3, <4>4, <4>5, <4>6
      <3>5. /\ Len(queue') <= QueueMax + 1 /\ queue'[Len(queue')].mask = "Q_OVERFLOW"
            /\ queue' \in Seq(Events)
        BY <1>1, <2>1, <3>2, <3>3
      <3>6. \A n \in Names : Queued(events, n)
        BY <2>5, <3>4
      <3> QED  BY <2>4, <3>5, <3>6
    <2> QED  BY <2>6, <2>7
  <1> QED  BY <1>4, <1>5

\* The events tell of what arrives by a step, or could be taken for it.
Heralds(events) ==
    \A n \in Names :
        /\ arrivals'[n] >= arrivals[n] + Told(events, n) + One(Completes(events, n))
        /\ PairsTogether => arrivals'[n] <= arrivals[n] + Told(events, n)
        /\ arrivals'[n] - renamed'[n] <= arrivals[n] - renamed[n] + Written(events, n)
        /\ strays'[n] >= strays[n] + Stray(events, n)

\* What the entries and the stages of files may become.
Entries == [Names -> {"absent", "file", "dir"}]
Stages == {s \in [Names -> {"none", "created", "writing", "linked", "leaving"}] :
              PairsTogether => \A n \in Names : s[n] \notin {"created", "linked"}}
Tallies == [Names -> Nat]

\* An operation of the other processes, whatever its events.
LEMMA OpKeeps ==
    ASSUME IInv, NEW events, Whole(events), Op, Emit(events),
           entry' \in Entries, stage' \in Stages,
           arrivals' \in Tallies, renamed' \in Tallies, strays' \in Tallies,
           Heralds(events)
    PROVE  IInv'
  <1>1. /\ UNCHANGED <<cancelled, pc, outcome, batch, eventIndex, createdFileEventIndex,
                       createdFile, result, reports, extra, late>>
        /\ Held' = Held
    BY DEF Op, Held, AfterCreate, locals, returns
  <1>2. /\ queue' \in Seq(Events) /\ lost' \in [Names -> Nat]
        /\ Len(queue') <= QueueMax + 1
        /\ Len(queue') = QueueMax + 1 => queue'[Len(queue')].mask = "Q_OVERFLOW"
        /\ \A n \in Names : Queued(events, n)
    BY EmitKeeps DEF IInv
  <1>3. Shape'
    <2>1. TypeOK'
      BY <1>1, <1>2 DEF IInv, Shape, TypeOK, Entries, Stages, Tallies
    <2> QED  BY <1>1, <1>2, <2>1 DEF IInv, Shape, Stages
  <1>4. Prompt'
    BY <1>1 DEF IInv, Prompt
  <1>5. ASSUME NEW n \in Names
        PROVE  /\ AllTold(n)' <= arrivals'[n]
               /\ PairsTogether => AllTold(n)' >= arrivals'[n]
               /\ AllWritten(n)' >= arrivals'[n] - renamed'[n]
               /\ AllStray(n)' <= strays'[n]
    <2> DEFINE due == reports[n] + Count(result, Return(n, TRUE))
               other == extra[n] + Count(result, Return(n, FALSE))
               t == Told(events, n)
               w == Written(events, n)
               y == Stray(events, n)
               c == One(Completes(events, n))
    <2>1. due \in Nat /\ other \in Nat
      <3>1. Shape
        BY DEF IInv
      <3>2. reports[n] \in Nat /\ extra[n] \in Nat
        BY <3>1, HistoryAreNumbers
      <3>3. Count(result, Return(n, TRUE)) \in Nat /\ Count(result, Return(n, FALSE)) \in Nat
        BY <3>1, CountsAreNumbers
      <3>4. \A a, b \in Nat : a + b \in Nat
        OBVIOUS
      <3> QED  BY <3>2, <3>3, <3>4, Zenon
    <2>2. /\ lost[n] \in Nat /\ arrivals[n] \in Nat /\ renamed[n] \in Nat /\ strays[n] \in Nat
          /\ Told(Held, n) \in Nat /\ Written(Held, n) \in Nat /\ Stray(Held, n) \in Nat
          /\ Told(queue, n) \in Nat /\ Written(queue, n) \in Nat /\ Stray(queue, n) \in Nat
      BY CountsAreNumbers, HistoryAreNumbers DEF IInv
    <2>3. t \in Nat /\ w \in Nat /\ y \in Nat /\ c \in Nat
      BY EventCounts DEF Whole
    <2>4. /\ lost'[n] \in Nat /\ arrivals'[n] \in Nat /\ renamed'[n] \in Nat
          /\ strays'[n] \in Nat
          /\ Told(queue', n) \in Nat /\ Written(queue', n) \in Nat /\ Stray(queue', n) \in Nat
      BY <1>2, EventCounts DEF Tallies
    <2>5. /\ AllTold(n)' = due + Told(Held, n) + Told(queue', n) + lost'[n]
          /\ AllWritten(n)' = due + Written(Held, n) + Written(queue', n) + lost'[n]
          /\ AllStray(n)' = other + Stray(Held, n) + Stray(queue', n)
      <3>1. /\ AllTold(n)' = reports'[n] + Count(result', Return(n, TRUE))
                                 + Told(Held', n) + Told(queue', n) + lost'[n]
            /\ AllWritten(n)' = reports'[n] + Count(result', Return(n, TRUE))
                                    + Written(Held', n) + Written(queue', n) + lost'[n]
            /\ AllStray(n)' = extra'[n] + Count(result', Return(n, FALSE))
                                  + Stray(Held', n) + Stray(queue', n)
        BY DEF AllTold, AllWritten, AllStray
      <3>2. reports' = reports /\ extra' = extra /\ result' = result /\ Held' = Held
        BY <1>1
      <3> QED  BY <3>1, <3>2, Zenon
    <2>6. /\ due + Told(Held, n) + Told(queue, n) + lost[n] <= arrivals[n]
          /\ PairsTogether => due + Told(Held, n) + Told(queue, n) + lost[n] >= arrivals[n]
          /\ due + Written(Held, n) + Written(queue, n) + lost[n] >= arrivals[n] - renamed[n]
          /\ other + Stray(Held, n) + Stray(queue, n) <= strays[n]
      BY DEF IInv, Balance, AllTold, AllWritten, AllStray
    <2>7. /\ Told(queue', n) + lost'[n] >= Told(queue, n) + lost[n] + t
          /\ Told(queue', n) + lost'[n] <= Told(queue, n) + lost[n] + t + c
          /\ Written(queue', n) + lost'[n] >= Written(queue, n) + lost[n] + w
          /\ Stray(queue', n) <= Stray(queue, n) + y
      BY <1>2 DEF Queued
    <2>8. /\ arrivals'[n] >= arrivals[n] + t + c
          /\ PairsTogether => arrivals'[n] <= arrivals[n] + t
          /\ arrivals'[n] - renamed'[n] <= arrivals[n] - renamed[n] + w
          /\ strays'[n] >= strays[n] + y
      BY DEF Heralds
    <2> HIDE DEF due, other, t, w, y, c
    <2>9. AllTold(n)' <= arrivals'[n]
      BY <2>1, <2>2, <2>3, <2>4, <2>5, <2>6, <2>7, <2>8
    <2>10. ASSUME PairsTogether PROVE AllTold(n)' >= arrivals'[n]
      <3>1. /\ due + Told(Held, n) + Told(queue, n) + lost[n] >= arrivals[n]
            /\ arrivals'[n] <= arrivals[n] + t
        BY <2>6, <2>8, <2>10
      <3> QED  BY <2>1, <2>2, <2>3, <2>4, <2>5, <2>7, <3>1
    <2>11. AllWritten(n)' >= arrivals'[n] - renamed'[n]
      BY <2>1, <2>2, <2>3, <2>4, <2>5, <2>6, <2>7, <2>8
    <2>12. AllStray(n)' <= strays'[n]
      BY <2>1, <2>2, <2>3, <2>4, <2>5, <2>6, <2>7, <2>8
    <2> QED  BY <2>9, <2>10, <2>11, <2>12
  <1>6. Balance'
    BY <1>5 DEF Balance
  <1> QED  BY <1>3, <1>4, <1>6 DEF IInv

\* The events of the operations, and what they tell of.
LEMMA OneEvent ==
    ASSUME NEW mask, NEW n, NEW made, Second(mask, n, made) \in Events,
           PairsTogether => made = NoName
    PROVE  /\ Whole(<<Second(mask, n, made)>>)
           /\ \A m \in Names :
                 /\ Told(<<Second(mask, n, made)>>, m) = One(n = m /\ mask \in ArrivalMasks)
                 /\ Written(<<Second(mask, n, made)>>, m) = One(n = m /\ mask \in ArrivalMasks)
                 /\ Stray(<<Second(mask, n, made)>>, m)
                        = One(n = m /\ mask \in {"MOVED_TO|ISDIR", "CREATE"})
                 /\ One(Completes(<<Second(mask, n, made)>>, m))
                        = One(mask = "DELETE" /\ made = m)
  <1> DEFINE e == Second(mask, n, made)
  <1>1. e.mask = mask /\ e.name = n /\ e.made = made
    BY DEF Second
  <1>2. e \in Events
    OBVIOUS
  <1> HIDE DEF e
  <1>3. <<e>> \in Seq(Events) /\ <<e>> # <<>> /\ <<e>>[1] = e /\ First(<<e>>) = e
    BY <1>2 DEF First
  <1>4. Whole(<<e>>)
    BY <1>1, <1>3 DEF Whole
  <1>5. ASSUME NEW m \in Names
        PROVE  /\ Told(<<e>>, m) = One(n = m /\ mask \in ArrivalMasks)
               /\ Written(<<e>>, m) = One(n = m /\ mask \in ArrivalMasks)
               /\ Stray(<<e>>, m) = One(n = m /\ mask \in {"MOVED_TO|ISDIR", "CREATE"})
               /\ One(Completes(<<e>>, m)) = One(mask = "DELETE" /\ made = m)
    <2>1. End \notin Completing(m) /\ End \in Foreign(m)
      BY EndFacts
    <2>2. Told(<<e>>, m) = One(n = m /\ mask \in ArrivalMasks)
      BY <1>1, <1>2, <2>1, OneCounts DEF Told, Marks, One
    <2>3. Written(<<e>>, m) = One(n = m /\ mask \in ArrivalMasks)
      BY <1>1, <1>2, <2>1, OneCounts DEF Written, Marks, One
    <2>4. Stray(<<e>>, m) = One(n = m /\ mask \in {"MOVED_TO|ISDIR", "CREATE"})
      BY <1>1, <1>2, <2>1, OneCounts DEF Stray, Marks, One
    <2>5. One(Completes(<<e>>, m)) = One(mask = "DELETE" /\ made = m)
      BY <1>1, <1>2, <1>3 DEF Completes, Completing, One
    <2> QED  BY <2>2, <2>3, <2>4, <2>5
  <1> QED  BY <1>4, <1>5 DEF e

LEMMA TwoEvents ==
    ASSUME PairsTogether, NEW mask \in {"OPEN", "DELETE"}, NEW n \in Names, NEW m \in Names
    PROVE  LET events == <<Event("CREATE", n), Second(mask, m, n)>> IN
           /\ Whole(events)
           /\ \A l \in Names : /\ Told(events, l) = One(l = n /\ mask = "DELETE")
                               /\ Written(events, l) = 0 /\ Stray(events, l) = 0
                               /\ One(Completes(events, l)) = 0
  <1> DEFINE e == Event("CREATE", n)
             f == Second(mask, m, n)
  <1>1. /\ e.mask = "CREATE" /\ e.name = n /\ e.made = NoName
        /\ f.mask = mask /\ f.name = m /\ f.made = n
    BY DEF Event, Second
  <1>2. e \in Events /\ f \in Events
    BY LocalWatcherAssumption DEF Event, Second, Events, Masks
  <1>3. Event("CREATE", n) = e /\ Second(mask, m, n) = f
    OBVIOUS
  <1> HIDE DEF e, f
  <1> DEFINE fs == <<f>>
             both == <<e, f>>
  <1>4. /\ Head(both) = e /\ Tail(both) = fs /\ First(both) = e /\ First(fs) = f
        /\ both[1] = e /\ both # <<>> /\ both \in Seq(Events) /\ fs \in Seq(Events)
    <2>1. Head(both) = e /\ Tail(both) = fs /\ both[1] = e /\ fs[1] = f
      OBVIOUS
    <2>2. both # <<>> /\ fs # <<>>
      OBVIOUS
    <2>3. both \in Seq(Events) /\ fs \in Seq(Events)
      BY <1>2
    <2> QED  BY <2>1, <2>2, <2>3 DEF First
  <1>5. ASSUME NEW l, NEW M, NEW A
        PROVE  Counted(both, l, M, A) = One(Marks(f, End, l, M, A)) + One(Marks(e, f, l, M, A))
    <2>1. Counted(fs, l, M, A) = One(Marks(f, End, l, M, A))
      BY <1>2, OneCounts
    <2> HIDE DEF fs, both
    <2>2. Counted(both, l, M, A) = Counted(Tail(both), l, M, A)
              + One(Marks(Head(both), First(Tail(both)), l, M, A))
      BY <1>4, HeadCounts
    <2> QED  BY <1>4, <2>1, <2>2, Zenon
  <1>6. Whole(both)
    <2> HIDE DEF both
    <2> QED  BY <1>1, <1>4 DEF Whole
  <1>7. ASSUME NEW l \in Names
        PROVE  /\ Told(both, l) = One(l = n /\ mask = "DELETE")
               /\ Written(both, l) = 0 /\ Stray(both, l) = 0
               /\ One(Completes(both, l)) = 0
    <2> HIDE DEF fs, both
    <2>1. l # NoName
      BY LocalWatcherAssumption
    <2>2. f \in Completing(l) <=> l = n /\ mask = "DELETE"
      BY <1>1, <1>2 DEF Completing
    <2>3. f \in Foreign(l) <=> l # n
      BY <1>1, <1>2 DEF Foreign
    <2>4. Told(both, l) = One(l = n /\ mask = "DELETE")
      <3>1. ~Marks(f, End, l, ArrivalMasks, Completing(l))
        BY <1>1 DEF Marks, ArrivalMasks
      <3>2. Marks(e, f, l, ArrivalMasks, Completing(l)) <=> l = n /\ mask = "DELETE"
        BY <1>1, <2>2 DEF Marks, ArrivalMasks
      <3> QED  BY <1>5, <3>1, <3>2 DEF Told, One
    <2>5. Written(both, l) = 0
      BY <1>1, <1>5 DEF Written, Marks, ArrivalMasks, One
    <2>6. Stray(both, l) = 0
      <3>1. ~Marks(f, End, l, {"MOVED_TO|ISDIR"}, Foreign(l))
        BY <1>1 DEF Marks
      <3>2. ~Marks(e, f, l, {"MOVED_TO|ISDIR"}, Foreign(l))
        BY <1>1, <2>3 DEF Marks
      <3> QED  BY <1>5, <3>1, <3>2 DEF Stray, One
    <2>7. One(Completes(both, l)) = 0
      BY <1>1, <1>4, <2>1 DEF Completes, Completing, One
    <2> QED  BY <2>4, <2>5, <2>6, <2>7
  <1> QED  BY <1>3, <1>6, <1>7

LEMMA HistoryTypes ==
    IInv => /\ entry \in Entries /\ stage \in Stages
            /\ arrivals \in Tallies /\ renamed \in Tallies /\ strays \in Tallies
  BY DEF IInv, Shape, TypeOK, Entries, Stages, Tallies

\* One event, of an arrival, of what looks like one, or of neither.
LEMMA OneEventOp ==
    ASSUME IInv, NEW mask \in Masks \ {"SELF", "Q_OVERFLOW"}, NEW n \in Names,
           NEW made \in Names \cup {NoName},
           made # NoName => mask = "OPEN" /\ ~PairsTogether,
           Op, Emit(<<Second(mask, n, made)>>), entry' \in Entries, stage' \in Stages,
           \/ mask \in ArrivalMasks /\ Arrived(n)
           \/ mask \in {"MOVED_TO|ISDIR", "CREATE"} /\ Strayed(n)
           \/ mask \notin ArrivalMasks \cup {"MOVED_TO|ISDIR", "CREATE"} /\ UNCHANGED history
    PROVE  IInv'
  <1> DEFINE events == <<Second(mask, n, made)>>
  <1>1. arrivals \in Tallies /\ renamed \in Tallies /\ strays \in Tallies
    BY HistoryTypes
  <1>2. Second(mask, n, made) \in Events
    BY LocalWatcherAssumption DEF Second, Events
  <1>3. /\ Whole(events)
        /\ \A m \in Names :
              /\ Told(events, m) = One(n = m /\ mask \in ArrivalMasks)
              /\ Written(events, m) = One(n = m /\ mask \in ArrivalMasks)
              /\ Stray(events, m) = One(n = m /\ mask \in {"MOVED_TO|ISDIR", "CREATE"})
              /\ One(Completes(events, m)) = One(mask = "DELETE" /\ made = m)
    BY <1>2, OneEvent
  <1>4. Emit(events)
    OBVIOUS
  <1> HIDE DEF events
  <1>5. arrivals' \in Tallies /\ renamed' \in Tallies /\ strays' \in Tallies
    BY <1>1 DEF Tallies, Arrived, Strayed, history
  <1>6. ASSUME NEW m \in Names
        PROVE  /\ arrivals'[m] = arrivals[m] + One(n = m /\ mask \in ArrivalMasks)
               /\ renamed'[m] = renamed[m]
               /\ strays'[m] = strays[m] + One(n = m /\ mask \in {"MOVED_TO|ISDIR", "CREATE"})
    BY <1>1 DEF Tallies, Arrived, Strayed, history, One, ArrivalMasks
  <1>7. ASSUME NEW m \in Names
        PROVE  /\ arrivals'[m] >= arrivals[m] + Told(events, m) + One(Completes(events, m))
               /\ PairsTogether => arrivals'[m] <= arrivals[m] + Told(events, m)
               /\ arrivals'[m] - renamed'[m] <= arrivals[m] - renamed[m] + Written(events, m)
               /\ strays'[m] >= strays[m] + Stray(events, m)
    <2>1. arrivals[m] \in Nat /\ renamed[m] \in Nat /\ strays[m] \in Nat
      BY <1>1 DEF Tallies
    <2>2. ~(mask = "DELETE" /\ made = m)
      BY LocalWatcherAssumption
    <2>3. One(Completes(events, m)) = 0
      BY <1>3, <2>2 DEF One
    <2>4. Told(events, m) \in Nat /\ Stray(events, m) \in Nat
          /\ Written(events, m) = Told(events, m)
      BY <1>3 DEF One
    <2>5. /\ arrivals'[m] = arrivals[m] + Told(events, m) /\ renamed'[m] = renamed[m]
          /\ strays'[m] = strays[m] + Stray(events, m)
      BY <1>3, <1>6
    <2> QED  BY <2>1, <2>3, <2>4, <2>5
  <1>8. Heralds(events)
    BY <1>7 DEF Heralds
  <1> QED  BY <1>3, <1>4, <1>5, <1>8, OpKeeps

LEMMA CreateFileKeeps ==
    ASSUME IInv, NEW n \in Names, CreateFile(n)
    PROVE  IInv'
  <1>1. /\ entry \in Entries /\ stage \in Stages
        /\ arrivals \in Tallies /\ renamed \in Tallies /\ strays \in Tallies
    BY HistoryTypes
  <1>2. Op /\ entry' = [entry EXCEPT ![n] = "file"]
    BY DEF CreateFile
  <1>3. CASE PairsTogether
    <2> DEFINE events == <<Event("CREATE", n), Second("OPEN", n, n)>>
    <2>1. /\ Emit(events) /\ stage' = [stage EXCEPT ![n] = "writing"] /\ UNCHANGED history
      BY <1>3 DEF CreateFile
    <2>2. /\ Whole(events)
          /\ \A l \in Names : /\ Told(events, l) = One(l = n /\ "OPEN" = "DELETE")
                              /\ Written(events, l) = 0 /\ Stray(events, l) = 0
                              /\ One(Completes(events, l)) = 0
      BY <1>3, TwoEvents
    <2> HIDE DEF events
    <2>3. arrivals' = arrivals /\ renamed' = renamed /\ strays' = strays
      BY <2>1 DEF history
    <2>4. Heralds(events)
      BY <1>1, <2>2, <2>3 DEF Heralds, Tallies, One
    <2>5. entry' \in Entries /\ stage' \in Stages
      BY <1>1, <1>2, <2>1 DEF Entries, Stages
    <2> QED  BY <1>1, <1>2, <2>1, <2>2, <2>3, <2>4, <2>5, OpKeeps
  <1>4. CASE ~PairsTogether
    <2>1. /\ Emit(<<Second("CREATE", n, NoName)>>) /\ Strayed(n)
          /\ stage' = [stage EXCEPT ![n] = "created"]
      BY <1>4 DEF CreateFile, Event
    <2>2. entry' \in Entries /\ stage' \in Stages
      BY <1>1, <1>2, <1>4, <2>1 DEF Entries, Stages
    <2> QED  BY <1>2, <2>1, <2>2, OneEventOp DEF Masks, ArrivalMasks
  <1> QED  BY <1>3, <1>4

LEMMA LinkKeeps ==
    ASSUME IInv, NEW old \in Names, NEW new \in Names, Link(old, new)
    PROVE  IInv'
  <1>1. /\ entry \in Entries /\ stage \in Stages
        /\ arrivals \in Tallies /\ renamed \in Tallies /\ strays \in Tallies
    BY HistoryTypes
  <1>2. Op /\ old # new
    BY DEF Link
  <1>3. CASE PairsTogether
    <2> DEFINE events == <<Event("CREATE", new), Second("DELETE", old, new)>>
    <2>1. /\ Emit(events) /\ Renamed(new) /\ stage' = stage
          /\ entry' = [entry EXCEPT ![new] = "file", ![old] = "absent"]
      BY <1>3 DEF Link
    <2>2. /\ Whole(events)
          /\ \A l \in Names : /\ Told(events, l) = One(l = new /\ "DELETE" = "DELETE")
                              /\ Written(events, l) = 0 /\ Stray(events, l) = 0
                              /\ One(Completes(events, l)) = 0
      BY <1>3, TwoEvents
    <2> HIDE DEF events
    <2>3. /\ arrivals' = [arrivals EXCEPT ![new] = @ + 1]
          /\ renamed' = [renamed EXCEPT ![new] = @ + 1] /\ strays' = strays
      BY <2>1 DEF Renamed
    <2>4. ASSUME NEW m \in Names
          PROVE  /\ arrivals'[m] >= arrivals[m] + Told(events, m) + One(Completes(events, m))
                 /\ PairsTogether => arrivals'[m] <= arrivals[m] + Told(events, m)
                 /\ arrivals'[m] - renamed'[m] <= arrivals[m] - renamed[m] + Written(events, m)
                 /\ strays'[m] >= strays[m] + Stray(events, m)
      <3>1. arrivals[m] \in Nat /\ renamed[m] \in Nat /\ strays[m] \in Nat
        BY <1>1 DEF Tallies
      <3>2. Told(events, m) = One(m = new)
        BY <2>2 DEF One
      <3>3. /\ arrivals'[m] = arrivals[m] + One(m = new)
            /\ renamed'[m] = renamed[m] + One(m = new) /\ strays'[m] = strays[m]
        BY <1>1, <2>3, <3>1 DEF Tallies, One
      <3>4. /\ Written(events, m) = 0 /\ Stray(events, m) = 0
            /\ One(Completes(events, m)) = 0 /\ One(m = new) \in Nat
        BY <2>2 DEF One
      <3> QED  BY <3>1, <3>2, <3>3, <3>4
    <2>5. Heralds(events)
      BY <2>4 DEF Heralds
    <2>6. /\ entry' \in Entries /\ stage' \in Stages
          /\ arrivals' \in Tallies /\ renamed' \in Tallies /\ strays' \in Tallies
      <3>1. entry' \in Entries
        BY <1>1, <2>1 DEF Entries
      <3>2. arrivals' \in Tallies /\ renamed' \in Tallies
        BY <1>1, <2>3 DEF Tallies
      <3> QED  BY <1>1, <2>1, <2>3, <3>1, <3>2
    <2> QED  BY <1>2, <2>1, <2>2, <2>5, <2>6, OpKeeps
  <1>4. CASE ~PairsTogether
    <2>1. /\ Emit(<<Second("CREATE", new, NoName)>>) /\ Strayed(new)
          /\ entry' = [entry EXCEPT ![new] = "file"]
          /\ stage' = [stage EXCEPT ![new] = "linked", ![old] = "leaving"]
      BY <1>4 DEF Link, Event
    <2>2. entry' \in Entries /\ stage' \in Stages
      BY <1>1, <1>4, <2>1 DEF Entries, Stages
    <2> QED  BY <1>2, <2>1, <2>2, OneEventOp DEF Masks, ArrivalMasks
  <1> QED  BY <1>3, <1>4

LEMMA UnlinkKeeps ==
    ASSUME IInv, NEW old \in Names, NEW new \in Names, Unlink(old, new)
    PROVE  IInv'
  <1> DEFINE events == <<Second("DELETE", old, new)>>
  <1>1. /\ entry \in Entries /\ stage \in Stages
        /\ arrivals \in Tallies /\ renamed \in Tallies /\ strays \in Tallies
    BY HistoryTypes
  <1>2. /\ Op /\ Emit(events) /\ ~PairsTogether /\ Renamed(new)
        /\ entry' = [entry EXCEPT ![old] = "absent"]
        /\ stage' = [stage EXCEPT ![new] = "none", ![old] = "none"]
    BY <1>1 DEF Unlink, Stages
  <1>3. /\ Whole(events)
        /\ \A m \in Names :
              /\ Told(events, m) = One(old = m /\ "DELETE" \in ArrivalMasks)
              /\ Written(events, m) = One(old = m /\ "DELETE" \in ArrivalMasks)
              /\ Stray(events, m) = One(old = m /\ "DELETE" \in {"MOVED_TO|ISDIR", "CREATE"})
              /\ One(Completes(events, m)) = One("DELETE" = "DELETE" /\ new = m)
    <2>1. Second("DELETE", old, new) \in Events
      BY LocalWatcherAssumption DEF Second, Events, Masks
    <2> QED  BY <1>2, <2>1, OneEvent
  <1> HIDE DEF events
  <1>4. /\ arrivals' = [arrivals EXCEPT ![new] = @ + 1]
        /\ renamed' = [renamed EXCEPT ![new] = @ + 1] /\ strays' = strays
    BY <1>2 DEF Renamed
  <1>5. ASSUME NEW m \in Names
        PROVE  /\ arrivals'[m] >= arrivals[m] + Told(events, m) + One(Completes(events, m))
               /\ PairsTogether => arrivals'[m] <= arrivals[m] + Told(events, m)
               /\ arrivals'[m] - renamed'[m] <= arrivals[m] - renamed[m] + Written(events, m)
               /\ strays'[m] >= strays[m] + Stray(events, m)
    <2>1. arrivals[m] \in Nat /\ renamed[m] \in Nat /\ strays[m] \in Nat
      BY <1>1 DEF Tallies
    <2>2. Told(events, m) = 0 /\ Written(events, m) = 0 /\ Stray(events, m) = 0
      BY <1>3 DEF One, ArrivalMasks
    <2>3. One(Completes(events, m)) = One(m = new) /\ One(m = new) \in Nat
      BY <1>3 DEF One
    <2>4. /\ arrivals'[m] = arrivals[m] + One(m = new)
          /\ renamed'[m] = renamed[m] + One(m = new) /\ strays'[m] = strays[m]
      BY <1>1, <1>4, <2>1 DEF Tallies, One
    <2> QED  BY <1>2, <2>1, <2>2, <2>3, <2>4
  <1>6. Heralds(events)
    BY <1>5 DEF Heralds
  <1>7. /\ entry' \in Entries /\ stage' \in Stages
        /\ arrivals' \in Tallies /\ renamed' \in Tallies /\ strays' \in Tallies
    <2>1. entry' \in Entries
      BY <1>1, <1>2 DEF Entries
    <2>2. stage' \in Stages
      BY <1>1, <1>2 DEF Stages
    <2>3. arrivals' \in Tallies /\ renamed' \in Tallies
      BY <1>1, <1>4 DEF Tallies
    <2> QED  BY <1>1, <1>4, <2>1, <2>2, <2>3
  <1> QED  BY <1>2, <1>3, <1>6, <1>7, OpKeeps

LEMMA OpenFileKeeps ==
    ASSUME IInv, NEW n \in Names, OpenFile(n)
    PROVE  IInv'
  <1>1. entry \in Entries /\ stage \in Stages
    BY HistoryTypes
  <1>2. PICK made \in {n, NoName} :
            /\ made # NoName => ~PairsTogether
            /\ Emit(<<Second("OPEN", n, made)>>)
    <2>1. stage[n] = "created" => ~PairsTogether
      BY <1>1 DEF Stages
    <2> QED  BY <2>1 DEF OpenFile, Event
  <1>3. /\ Op /\ entry' = entry /\ stage' = [stage EXCEPT ![n] = "writing"]
        /\ UNCHANGED history
    BY DEF OpenFile
  <1>4. entry' \in Entries /\ stage' \in Stages
    BY <1>1, <1>3 DEF Stages
  <1> QED  BY <1>2, <1>3, <1>4, OneEventOp DEF Masks, ArrivalMasks

LEMMA OthersKeep ==
    ASSUME IInv, Others
    PROVE  IInv'
  <1>1. /\ entry \in Entries /\ stage \in Stages
        /\ arrivals \in Tallies /\ renamed \in Tallies /\ strays \in Tallies
    BY HistoryTypes
  <1>2. CASE Cancel
    <2>1. /\ UNCHANGED <<entry, stage, arrivals, renamed, strays, queue, pc, outcome, batch,
                         eventIndex, createdFileEventIndex, createdFile, result, reports,
                         extra, late, lost>>
          /\ ~cancelled /\ cancelled'
      BY <1>2 DEF Cancel, others, locals, returns, history
    <2>2. Shape' /\ Held' = Held
      BY <2>1 DEF IInv, Shape, TypeOK, Held, AfterCreate
    <2>3. Balance'
      BY <2>1, <2>2 DEF IInv, Balance, AllTold, AllWritten, AllStray
    <2>4. Prompt'
      BY <2>1 DEF IInv, Prompt
    <2> QED  BY <2>2, <2>3, <2>4 DEF IInv
  <1>3. CASE DirectoryGone
    <2> DEFINE events == <<Second("SELF", NoName, NoName)>>
    <2>1. Op /\ Emit(events) /\ UNCHANGED <<entry, stage, history>>
      BY <1>3 DEF DirectoryGone, Event
    <2>2. Second("SELF", NoName, NoName) \in Events
      BY DEF Second, Events, Masks
    <2>3. /\ Whole(events)
          /\ \A m \in Names :
                /\ Told(events, m) = One(NoName = m /\ "SELF" \in ArrivalMasks)
                /\ Written(events, m) = One(NoName = m /\ "SELF" \in ArrivalMasks)
                /\ Stray(events, m) = One(NoName = m /\ "SELF" \in {"MOVED_TO|ISDIR", "CREATE"})
                /\ One(Completes(events, m)) = One("SELF" = "DELETE" /\ NoName = m)
      BY <2>2, OneEvent
    <2> HIDE DEF events
    <2>4. arrivals' = arrivals /\ renamed' = renamed /\ strays' = strays
      BY <2>1 DEF history
    <2>5. Heralds(events)
      BY <1>1, <2>3, <2>4 DEF Heralds, Tallies, One, ArrivalMasks
    <2> QED  BY <1>1, <2>1, <2>3, <2>4, <2>5, OpKeeps
  <1>4. ASSUME NEW n \in Names, CloseFile(n) PROVE IInv'
    <2>1. /\ Op /\ Emit(<<Second("CLOSE_WRITE", n, NoName)>>) /\ Arrived(n)
          /\ entry' \in Entries /\ stage' \in Stages
      BY <1>1, <1>4 DEF CloseFile, Stages, Event
    <2> QED  BY <2>1, OneEventOp DEF Masks, ArrivalMasks
  <1>5. ASSUME NEW n \in Names, MoveIn(n) PROVE IInv'
    <2>1. /\ Op /\ Emit(<<Second("MOVED_TO", n, NoName)>>) /\ Arrived(n)
          /\ entry' \in Entries /\ stage' \in Stages
      BY <1>1, <1>5 DEF MoveIn, Entries, Event
    <2> QED  BY <2>1, OneEventOp DEF Masks, ArrivalMasks
  <1>6. ASSUME NEW n \in Names, DeleteFile(n) PROVE IInv'
    <2>1. /\ Op /\ Emit(<<Second("DELETE", n, NoName)>>) /\ UNCHANGED history
          /\ entry' \in Entries /\ stage' \in Stages
      BY <1>1, <1>6 DEF DeleteFile, Entries, Event
    <2> QED  BY <2>1, OneEventOp DEF Masks, ArrivalMasks
  <1>7. ASSUME NEW n \in Names, MoveOut(n) PROVE IInv'
    <2>1. /\ Op /\ Emit(<<Second("MOVED_FROM", n, NoName)>>) /\ UNCHANGED history
          /\ entry' \in Entries /\ stage' \in Stages
      BY <1>1, <1>7 DEF MoveOut, Entries, Event
    <2> QED  BY <2>1, OneEventOp DEF Masks, ArrivalMasks
  <1>8. ASSUME NEW n \in Names, MakeNode(n) PROVE IInv'
    <2>1. /\ Op /\ Emit(<<Second("CREATE", n, NoName)>>) /\ Strayed(n)
          /\ entry' \in Entries /\ stage' \in Stages
      BY <1>1, <1>8 DEF MakeNode, Entries, Event
    <2> QED  BY <2>1, OneEventOp DEF Masks, ArrivalMasks
  <1>9. ASSUME NEW n \in Names, MakeDir(n) PROVE IInv'
    <2>1. /\ Op /\ Emit(<<Second("CREATE|ISDIR", n, NoName)>>) /\ UNCHANGED history
          /\ entry' \in Entries /\ stage' \in Stages
      BY <1>1, <1>9 DEF MakeDir, Entries, Event
    <2> QED  BY <2>1, OneEventOp DEF Masks, ArrivalMasks
  <1>10. ASSUME NEW n \in Names, MoveInDir(n) PROVE IInv'
    <2>1. /\ Op /\ Emit(<<Second("MOVED_TO|ISDIR", n, NoName)>>) /\ Strayed(n)
          /\ entry' \in Entries /\ stage' \in Stages
      BY <1>1, <1>10 DEF MoveInDir, Entries, Event
    <2> QED  BY <2>1, OneEventOp DEF Masks, ArrivalMasks
  <1> QED  BY <1>2, <1>3, <1>4, <1>5, <1>6, <1>7, <1>8, <1>9, <1>10, CreateFileKeeps,
              OpenFileKeeps, LinkKeeps, UnlinkKeeps DEF Others

-----------------------------------------------------------------------------
(* watch().                                                                  *)

\* A step of watch() lets no arrival of n out of sight, and makes none up.
Accounted(n) ==
    /\ AllTold(n)' <= AllTold(n)
    /\ PairsTogether => AllTold(n)' >= AllTold(n)
    /\ AllWritten(n)' >= AllWritten(n)
    /\ AllStray(n)' <= AllStray(n)

TotalsType ==
    \A n \in Names : AllTold(n) \in Nat /\ AllWritten(n) \in Nat /\ AllStray(n) \in Nat

LEMMA TotalsAreNumbers == Shape => TotalsType
  <1> SUFFICES ASSUME Shape, NEW n \in Names
               PROVE  AllTold(n) \in Nat /\ AllWritten(n) \in Nat /\ AllStray(n) \in Nat
    BY DEF TotalsType
  <1>1. /\ reports[n] \in Nat /\ extra[n] \in Nat /\ lost[n] \in Nat
        /\ Count(result, Return(n, TRUE)) \in Nat /\ Count(result, Return(n, FALSE)) \in Nat
        /\ Told(Held, n) \in Nat /\ Written(Held, n) \in Nat /\ Stray(Held, n) \in Nat
        /\ Told(queue, n) \in Nat /\ Written(queue, n) \in Nat /\ Stray(queue, n) \in Nat
    BY CountsAreNumbers, HistoryAreNumbers
  <1>2. \A a, b \in Nat : a + b \in Nat
    OBVIOUS
  <1>3. AllTold(n) \in Nat
    BY <1>1, <1>2, Zenon DEF AllTold
  <1>4. AllWritten(n) \in Nat
    BY <1>1, <1>2, Zenon DEF AllWritten
  <1>5. AllStray(n) \in Nat
    BY <1>1, <1>2, Zenon DEF AllStray
  <1> QED  BY <1>3, <1>4, <1>5

LEMMA AccountedKeeps ==
    ASSUME IInv, Shape', Prompt', UNCHANGED history, \A n \in Names : Accounted(n)
    PROVE  IInv'
  <1>1. arrivals' = arrivals /\ renamed' = renamed /\ strays' = strays
    BY DEF history
  <1>2. ASSUME NEW n \in Names
        PROVE  /\ AllTold(n)' <= arrivals'[n]
               /\ PairsTogether => AllTold(n)' >= arrivals'[n]
               /\ AllWritten(n)' >= arrivals'[n] - renamed'[n]
               /\ AllStray(n)' <= strays'[n]
    <2>1. AllTold(n) \in Nat /\ AllWritten(n) \in Nat /\ AllStray(n) \in Nat
      BY TotalsAreNumbers DEF IInv, TotalsType
    <2>2. AllTold(n)' \in Nat /\ AllWritten(n)' \in Nat /\ AllStray(n)' \in Nat
      <3>1. (Shape => TotalsType)'
        BY TotalsAreNumbers, PTL
      <3> QED  BY <3>1 DEF TotalsType
    <2>3. arrivals[n] \in Nat /\ renamed[n] \in Nat /\ strays[n] \in Nat
      BY HistoryAreNumbers DEF IInv
    <2>4. /\ AllTold(n) <= arrivals[n] /\ (PairsTogether => AllTold(n) >= arrivals[n])
          /\ AllWritten(n) >= arrivals[n] - renamed[n] /\ AllStray(n) <= strays[n]
      BY DEF IInv, Balance
    <2>5. /\ AllTold(n)' <= AllTold(n) /\ (PairsTogether => AllTold(n)' >= AllTold(n))
          /\ AllWritten(n)' >= AllWritten(n) /\ AllStray(n)' <= AllStray(n)
      BY DEF Accounted
    <2>6. AllTold(n)' <= arrivals'[n] /\ AllWritten(n)' >= arrivals'[n] - renamed'[n]
          /\ AllStray(n)' <= strays'[n]
      BY <1>1, <2>1, <2>2, <2>3, <2>4, <2>5
    <2>7. ASSUME PairsTogether PROVE AllTold(n)' >= arrivals'[n]
      <3>1. AllTold(n) >= arrivals[n] /\ AllTold(n)' >= AllTold(n)
        BY <2>4, <2>5, <2>7
      <3> QED  BY <1>1, <2>1, <2>2, <2>3, <3>1
    <2> QED  BY <2>6, <2>7
  <1>3. Balance'
    BY <1>2 DEF Balance
  <1> QED  BY <1>3 DEF IInv

\* The first event of the buffer and the rest of it.
LEMMA BatchFacts ==
    ASSUME IInv, batch # <<>>
    PROVE  /\ Head(batch) \in Events /\ Tail(batch) \in Seq(Events) /\ batch \in Seq(Events)
           /\ First(batch) = Head(batch)
           /\ Len(Tail(batch)) \in Nat /\ Len(Tail(batch)) < ReadMax
           /\ eventIndex \in Nat /\ eventIndex + 1 + Len(Tail(batch)) <= ReadMax
           /\ createdFileEventIndex < eventIndex
           /\ createdFileEventIndex \in -1..ReadMax
           /\ createdFile \in Names \cup {NoName}
           /\ createdFile # NoName <=> createdFileEventIndex # -1
           /\ ReadMax \in Nat
  <1>1. /\ batch \in Seq(Events) /\ eventIndex + Len(batch) <= ReadMax
        /\ eventIndex \in 0..ReadMax /\ createdFileEventIndex < eventIndex
        /\ createdFile \in Names \cup {NoName}
        /\ createdFileEventIndex \in -1..ReadMax
        /\ createdFile # NoName <=> createdFileEventIndex # -1
    BY DEF IInv, Shape, TypeOK
  <1>2. /\ Head(batch) \in Events /\ Tail(batch) \in Seq(Events)
        /\ Len(Tail(batch)) = Len(batch) - 1 /\ Len(batch) \in Nat /\ Len(batch) # 0
        /\ Head(batch) = batch[1]
    BY <1>1
  <1>3. Len(Tail(batch)) \in Nat
    BY <1>2
  <1>4. First(batch) = Head(batch)
    BY <1>2 DEF First
  <1> QED  BY <1>1, <1>2, <1>3, <1>4, LocalWatcherAssumption

\* watch() is at an event, which is of a name.
Looking == pc = "events" /\ batch # <<>>

\* One event on.
LEMMA NextShape ==
    ASSUME IInv, Looking, batch' = Tail(batch), eventIndex' = eventIndex + 1,
           createdFile' \in Names \cup {NoName},
           createdFileEventIndex' \in -1..eventIndex,
           createdFile' # NoName <=> createdFileEventIndex' # -1,
           result' \in Seq(Returns), lost' \in [Names -> Nat],
           UNCHANGED <<others, queue, cancelled, pc, outcome, returns>>
    PROVE  Shape' /\ Prompt'
  <1>1. /\ Tail(batch) \in Seq(Events)
        /\ Len(Tail(batch)) \in Nat /\ Len(Tail(batch)) < ReadMax
        /\ eventIndex \in Nat /\ eventIndex + 1 + Len(Tail(batch)) <= ReadMax
        /\ ReadMax \in Nat
    BY BatchFacts DEF Looking
  <1>2. UNCHANGED <<entry, stage, arrivals, renamed, strays, queue, cancelled, pc, outcome,
                    reports, extra, late>>
    BY DEF others, history, returns
  <1>3. /\ Len(batch') <= ReadMax /\ eventIndex' \in 0..ReadMax
        /\ createdFileEventIndex' \in -1..ReadMax
        /\ createdFileEventIndex' < eventIndex' /\ eventIndex' + Len(batch') <= ReadMax
    BY <1>1
  <1>4. TypeOK'
    BY <1>2, <1>3 DEF IInv, Shape, TypeOK, Returns
  <1>5. Prompt'
    BY <1>2 DEF IInv, Prompt
  <1> QED  BY <1>1, <1>2, <1>3, <1>4, <1>5 DEF IInv, Shape, Looking

\* What NextEvent leaves in hand, and what it does not touch.
LEMMA NotHeld ==
    ASSUME IInv, Looking, NEW keep \in BOOLEAN, NextEvent(keep)
    PROVE  /\ Held' = Tail(batch) /\ createdFile' \in Names \cup {NoName}
           /\ createdFileEventIndex' \in -1..eventIndex
           /\ createdFile' # NoName <=> createdFileEventIndex' # -1
  <1>1. /\ eventIndex \in Nat /\ createdFileEventIndex < eventIndex
        /\ createdFileEventIndex \in -1..ReadMax
        /\ createdFile \in Names \cup {NoName}
        /\ createdFile # NoName <=> createdFileEventIndex # -1
    BY BatchFacts DEF Looking
  <1>2. /\ batch' = Tail(batch) /\ eventIndex' = eventIndex + 1
        /\ \/ createdFile' = createdFile /\ createdFileEventIndex' = createdFileEventIndex
           \/ createdFile' = NoName /\ createdFileEventIndex' = -1
    BY DEF NextEvent
  <1>3. ~AfterCreate'
    BY <1>1, <1>2 DEF AfterCreate
  <1>4. Held' = batch'
    BY <1>3 DEF Held
  <1> QED  BY <1>1, <1>2, <1>4

\* What watch() holds is the event at hand, the rest, and an IN_CREATE before.
LEMMA HeldSplit ==
    ASSUME IInv, Looking, NEW n, NEW M, NEW A
    PROVE  /\ Counted(Held, n, M, A) = Counted(Tail(batch), n, M, A)
                  + One(Marks(Head(batch), First(Tail(batch)), n, M, A))
                  + One(AfterCreate /\ Marks(Event("CREATE", createdFile), Head(batch), n, M, A))
           /\ Counted(Held, n, M, A) \in Nat /\ Counted(Tail(batch), n, M, A) \in Nat
  <1> DEFINE e == Event("CREATE", createdFile)
             t == Tail(batch)
             h == One(Marks(Head(batch), First(t), n, M, A))
  <1>1. /\ batch \in Seq(Events) /\ t \in Seq(Events) /\ batch # <<>>
        /\ First(batch) = Head(batch) /\ createdFile \in Names \cup {NoName}
    BY BatchFacts DEF Looking
  <1>2. Counted(t, n, M, A) \in Nat /\ h \in Nat
    BY <1>1, CountedType DEF One
  <1>3. Counted(batch, n, M, A) = Counted(t, n, M, A) + h
    BY <1>1, HeadCounts
  <1>4. Counted(Held, n, M, A) \in Nat
    BY HeldSequence, CountedType DEF IInv
  <1>5. CASE AfterCreate
    <2>1. e \in Events
      BY <1>1, <1>5 DEF AfterCreate, Event, Second, Events, Masks
    <2>2. Held = <<e>> \o batch
      BY <1>1, <1>5 DEF Held
    <2>3. Counted(<<e>> \o batch, n, M, A)
              = Counted(batch, n, M, A) + One(Marks(e, First(batch), n, M, A))
      <3> HIDE DEF e
      <3> QED  BY <1>1, <2>1, FirstCounts
    <2> DEFINE p == One(Marks(e, Head(batch), n, M, A))
    <2>4. Counted(Held, n, M, A) = Counted(batch, n, M, A) + p
      BY <1>1, <2>2, <2>3, Zenon
    <2>5. One(AfterCreate /\ Marks(e, Head(batch), n, M, A)) = p /\ p \in Nat
      BY <1>5 DEF One
    <2> HIDE DEF e, h, t, p
    <2>6. Counted(Held, n, M, A) = Counted(t, n, M, A) + h + p
      BY <1>2, <1>3, <2>4, <2>5
    <2> QED  BY <1>2, <1>4, <2>5, <2>6 DEF e, h, t
  <1>6. CASE ~AfterCreate
    <2>1. Held = batch
      BY <1>6 DEF Held
    <2>2. One(AfterCreate /\ Marks(e, Head(batch), n, M, A)) = 0
      BY <1>6 DEF One
    <2>3. Counted(Held, n, M, A) = Counted(t, n, M, A) + h
      BY <1>3, <2>1, Zenon
    <2> HIDE DEF e, h, t
    <2>4. Counted(Held, n, M, A) = Counted(t, n, M, A) + h + 0
      BY <1>2, <2>3
    <2> QED  BY <1>2, <1>4, <2>2, <2>4 DEF e, h, t
  <1> QED  BY <1>5, <1>6

\* What is no longer held after the event at hand, of each kind.
ToldHere(n) ==
    One(Head(batch).name = n /\ Head(batch).mask \in ArrivalMasks)
        + One(Head(batch).name = n /\ Head(batch).mask = "CREATE" /\ Completes(Tail(batch), n))
        + One(AfterCreate /\ createdFile = n /\ Head(batch).mask = "DELETE"
                  /\ Head(batch).made = n)
WrittenHere(n) == One(Head(batch).name = n /\ Head(batch).mask \in ArrivalMasks)
StrayHere(n) ==
    One(Head(batch).name = n /\ Head(batch).mask = "MOVED_TO|ISDIR")
        + One(AfterCreate /\ createdFile = n /\ ~(PairsTogether /\ Head(batch).made = n))

LEMMA HereCounts ==
    ASSUME IInv, Looking, NEW n \in Names
    PROVE  /\ Told(Held, n) = Told(Tail(batch), n) + ToldHere(n)
           /\ Written(Held, n) = Written(Tail(batch), n) + WrittenHere(n)
           /\ Stray(Held, n) >= Stray(Tail(batch), n) + StrayHere(n)
           /\ Told(Tail(batch), n) \in Nat /\ Written(Tail(batch), n) \in Nat
           /\ Stray(Tail(batch), n) \in Nat
           /\ ToldHere(n) \in Nat /\ WrittenHere(n) \in Nat /\ StrayHere(n) \in Nat
           /\ WrittenHere(n) <= ToldHere(n)
  <1> DEFINE e == Event("CREATE", createdFile)
             h == Head(batch)
             t == Tail(batch)
  <1>1. h \in Events /\ t \in Seq(Events)
    BY BatchFacts DEF Looking
  <1>2. e.mask = "CREATE" /\ e.name = createdFile
    BY DEF Event, Second
  <1>3. /\ h \in Completing(n) <=> h.mask = "DELETE" /\ h.made = n
        /\ h \in Foreign(n) <=> ~(PairsTogether /\ h.made = n)
    BY <1>1 DEF Completing, Foreign
  <1> HIDE DEF e, h
  <1>4. /\ Told(Held, n) = Told(t, n)
               + One(Marks(h, First(t), n, ArrivalMasks, Completing(n)))
               + One(AfterCreate /\ Marks(e, h, n, ArrivalMasks, Completing(n)))
        /\ Told(t, n) \in Nat
    BY HeldSplit DEF Told, e, h
  <1>5. /\ Written(Held, n) = Written(t, n)
               + One(Marks(h, First(t), n, ArrivalMasks, {}))
               + One(AfterCreate /\ Marks(e, h, n, ArrivalMasks, {}))
        /\ Written(t, n) \in Nat
    BY HeldSplit DEF Written, e, h
  <1>6. /\ Stray(Held, n) = Stray(t, n)
               + One(Marks(h, First(t), n, {"MOVED_TO|ISDIR"}, Foreign(n)))
               + One(AfterCreate /\ Marks(e, h, n, {"MOVED_TO|ISDIR"}, Foreign(n)))
        /\ Stray(t, n) \in Nat
    BY HeldSplit DEF Stray, e, h
  <1> HIDE DEF t
  <1>7. /\ One(Marks(h, First(t), n, ArrivalMasks, Completing(n)))
               = One(h.name = n /\ h.mask \in ArrivalMasks)
                 + One(h.name = n /\ h.mask = "CREATE" /\ Completes(t, n))
        /\ One(AfterCreate /\ Marks(e, h, n, ArrivalMasks, Completing(n)))
               = One(AfterCreate /\ createdFile = n /\ h.mask = "DELETE" /\ h.made = n)
        /\ One(Marks(h, First(t), n, ArrivalMasks, {}))
               = One(h.name = n /\ h.mask \in ArrivalMasks)
        /\ One(AfterCreate /\ Marks(e, h, n, ArrivalMasks, {})) = 0
        /\ One(Marks(h, First(t), n, {"MOVED_TO|ISDIR"}, Foreign(n)))
               >= One(h.name = n /\ h.mask = "MOVED_TO|ISDIR")
        /\ One(AfterCreate /\ Marks(e, h, n, {"MOVED_TO|ISDIR"}, Foreign(n)))
               = One(AfterCreate /\ createdFile = n /\ ~(PairsTogether /\ h.made = n))
        /\ One(Marks(h, First(t), n, {"MOVED_TO|ISDIR"}, Foreign(n))) \in Nat
    BY <1>2, <1>3 DEF Marks, One, ArrivalMasks, Completes
  <1> DEFINE a == One(h.name = n /\ h.mask \in ArrivalMasks)
             b == One(h.name = n /\ h.mask = "CREATE" /\ Completes(t, n))
             c == One(AfterCreate /\ createdFile = n /\ h.mask = "DELETE" /\ h.made = n)
             d == One(h.name = n /\ h.mask = "MOVED_TO|ISDIR")
             f == One(AfterCreate /\ createdFile = n /\ ~(PairsTogether /\ h.made = n))
             g == One(Marks(h, First(t), n, {"MOVED_TO|ISDIR"}, Foreign(n)))
  <1>8. a \in Nat /\ b \in Nat /\ c \in Nat /\ d \in Nat /\ f \in Nat /\ g \in Nat
    BY DEF One
  <1>9. /\ ToldHere(n) = a + b + c /\ WrittenHere(n) = a /\ StrayHere(n) = d + f
    BY DEF ToldHere, WrittenHere, StrayHere, h, t
  <1>10. /\ Told(Held, n) = Told(t, n) + (a + b) + c
         /\ Written(Held, n) = Written(t, n) + a + 0
         /\ Stray(Held, n) = Stray(t, n) + g + f /\ g >= d
    BY <1>4, <1>5, <1>6, <1>7, Zenon
  <1> HIDE DEF a, b, c, d, f, g
  <1>11. /\ Told(Held, n) = Told(t, n) + ToldHere(n)
         /\ Written(Held, n) = Written(t, n) + WrittenHere(n)
         /\ Stray(Held, n) >= Stray(t, n) + StrayHere(n)
         /\ ToldHere(n) \in Nat /\ WrittenHere(n) \in Nat /\ StrayHere(n) \in Nat
         /\ WrittenHere(n) <= ToldHere(n)
    BY <1>4, <1>5, <1>6, <1>8, <1>9, <1>10
  <1> QED  BY <1>4, <1>5, <1>6, <1>11 DEF t

\* What watch() no longer holds of n it has collected or lost.
Settled(n) ==
    /\ Count(result', Return(n, TRUE)) + lost'[n]
           = Count(result, Return(n, TRUE)) + lost[n] + ToldHere(n)
    /\ Count(result', Return(n, FALSE)) <= Count(result, Return(n, FALSE)) + StrayHere(n)

Lists == Seq(Returns)

LEMMA NextEventKeeps ==
    ASSUME IInv, Looking, NEW keep \in BOOLEAN, NextEvent(keep),
           result' \in Lists, lost' \in [Names -> Nat],
           \A n \in Names : Settled(n)
    PROVE  IInv'
  <1>1. /\ Held' = Tail(batch) /\ createdFile' \in Names \cup {NoName}
        /\ createdFileEventIndex' \in -1..eventIndex
        /\ createdFile' # NoName <=> createdFileEventIndex' # -1
    BY NotHeld
  <1>2. /\ batch' = Tail(batch) /\ eventIndex' = eventIndex + 1
        /\ UNCHANGED <<others, queue, cancelled, pc, outcome, returns>>
    BY DEF NextEvent
  <1>3. Shape' /\ Prompt'
    BY <1>1, <1>2, NextShape DEF Lists
  <1>4. ASSUME NEW n \in Names PROVE Accounted(n)
    <2> DEFINE due == Count(result, Return(n, TRUE))
               other == Count(result, Return(n, FALSE))
               due_ == Count(result', Return(n, TRUE))
               other_ == Count(result', Return(n, FALSE))
    <2>1. /\ reports[n] \in Nat /\ extra[n] \in Nat /\ lost[n] \in Nat
          /\ Told(queue, n) \in Nat /\ Written(queue, n) \in Nat /\ Stray(queue, n) \in Nat
          /\ Told(Held, n) \in Nat /\ Written(Held, n) \in Nat /\ Stray(Held, n) \in Nat
          /\ due \in Nat /\ other \in Nat
      BY CountsAreNumbers, HistoryAreNumbers DEF IInv
    <2>2. due_ \in Nat /\ other_ \in Nat /\ lost'[n] \in Nat
      BY CollectedCounts DEF Lists
    <2>3. /\ Told(Held, n) = Told(Tail(batch), n) + ToldHere(n)
          /\ Written(Held, n) = Written(Tail(batch), n) + WrittenHere(n)
          /\ Stray(Held, n) >= Stray(Tail(batch), n) + StrayHere(n)
          /\ Told(Tail(batch), n) \in Nat /\ Written(Tail(batch), n) \in Nat
          /\ Stray(Tail(batch), n) \in Nat
          /\ ToldHere(n) \in Nat /\ WrittenHere(n) \in Nat /\ StrayHere(n) \in Nat
          /\ WrittenHere(n) <= ToldHere(n)
      BY HereCounts
    <2>4. /\ AllTold(n)' = reports[n] + due_ + Told(Tail(batch), n) + Told(queue, n) + lost'[n]
          /\ AllWritten(n)' = reports[n] + due_ + Written(Tail(batch), n)
                                  + Written(queue, n) + lost'[n]
          /\ AllStray(n)' = extra[n] + other_ + Stray(Tail(batch), n) + Stray(queue, n)
      <3>1. /\ AllTold(n)' = reports'[n] + due_ + Told(Held', n) + Told(queue', n) + lost'[n]
            /\ AllWritten(n)' = reports'[n] + due_ + Written(Held', n)
                                    + Written(queue', n) + lost'[n]
            /\ AllStray(n)' = extra'[n] + other_ + Stray(Held', n) + Stray(queue', n)
        BY DEF AllTold, AllWritten, AllStray
      <3>2. reports' = reports /\ extra' = extra /\ queue' = queue /\ Held' = Tail(batch)
        BY <1>1, <1>2 DEF returns
      <3> HIDE DEF due_, other_
      <3> QED  BY <3>1, <3>2, Zenon
    <2>5. /\ due_ + lost'[n] = due + lost[n] + ToldHere(n)
          /\ other_ <= other + StrayHere(n)
      BY DEF Settled
    <2>6. /\ AllTold(n) = reports[n] + due + Told(Held, n) + Told(queue, n) + lost[n]
          /\ AllWritten(n) = reports[n] + due + Written(Held, n) + Written(queue, n) + lost[n]
          /\ AllStray(n) = extra[n] + other + Stray(Held, n) + Stray(queue, n)
      BY DEF AllTold, AllWritten, AllStray
    <2> HIDE DEF due, other, due_, other_
    <2>7. AllTold(n)' = AllTold(n) /\ AllTold(n) \in Nat
      <3>1. AllTold(n) \in Nat
        BY TotalsAreNumbers DEF IInv, TotalsType
      <3> DEFINE r == reports[n]
                 l == lost[n]
                 l_ == lost'[n]
                 q == Told(queue, n)
                 t == Told(Tail(batch), n)
                 h == Told(Held, n)
                 x == ToldHere(n)
      <3>2. /\ r \in Nat /\ l \in Nat /\ l_ \in Nat /\ q \in Nat /\ t \in Nat /\ x \in Nat
            /\ due \in Nat /\ due_ \in Nat /\ h = t + x /\ due_ + l_ = due + l + x
            /\ AllTold(n)' = r + due_ + t + q + l_ /\ AllTold(n) = r + due + h + q + l
        BY <2>1, <2>2, <2>3, <2>4, <2>5, <2>6
      <3> HIDE DEF r, l, l_, q, t, h, x
      <3>3. AllTold(n)' = AllTold(n)
        BY <3>2
      <3> QED  BY <3>1, <3>3
    <2>8. AllWritten(n)' >= AllWritten(n)
      BY <2>1, <2>2, <2>3, <2>4, <2>5, <2>6
    <2>9. AllStray(n)' <= AllStray(n)
      BY <2>1, <2>2, <2>3, <2>4, <2>5, <2>6
    <2> QED  BY <2>7, <2>8, <2>9 DEF Accounted
  <1>5. UNCHANGED history
    BY <1>2 DEF others
  <1> QED  BY <1>3, <1>4, <1>5, AccountedKeeps


LEMMA SkipEventKeeps ==
    ASSUME IInv, SkipEvent
    PROVE  IInv'
  <1>1. /\ Looking /\ NextEvent(TRUE) /\ result' = result
        /\ Lose(Announced(Held), Announced(Tail(batch)))
    BY DEF SkipEvent, Looking
  <1>2. Held \in Seq(Events) /\ Tail(batch) \in Seq(Events)
    BY <1>1, BatchFacts, HeldSequence DEF Looking, IInv
  <1>3. ASSUME NEW n \in Names PROVE lost'[n] = lost[n] + ToldHere(n) /\ lost'[n] \in Nat
    <2>1. lost'[n] = lost[n] + Announced(Held)[n] - Announced(Tail(batch))[n]
      BY <1>1 DEF Lose
    <2>2. /\ Announced(Held)[n] = Told(Held, n)
          /\ Announced(Tail(batch))[n] = Told(Tail(batch), n)
      BY <1>2, ModelCounts
    <2>3. /\ Told(Held, n) = Told(Tail(batch), n) + ToldHere(n)
          /\ Told(Tail(batch), n) \in Nat /\ ToldHere(n) \in Nat
      BY <1>1, HereCounts
    <2>4. lost[n] \in Nat
      BY HistoryAreNumbers DEF IInv
    <2> DEFINE l == lost[n]
               t == Told(Tail(batch), n)
               x == ToldHere(n)
    <2>5. lost'[n] = l + (t + x) - t
      BY <2>1, <2>2, <2>3
    <2>6. l \in Nat /\ t \in Nat /\ x \in Nat
      BY <2>3, <2>4
    <2> HIDE DEF l, t, x
    <2>7. lost'[n] = l + x /\ lost'[n] \in Nat
      BY <2>5, <2>6
    <2> QED  BY <2>7 DEF l, x
  <1>4. lost' \in [Names -> Nat]
    BY <1>1, <1>3 DEF Lose
  <1>5. result' \in Lists
    BY <1>1 DEF IInv, Shape, TypeOK, Lists, Returns
  <1>6. ASSUME NEW n \in Names PROVE Settled(n)
    <2> DEFINE due == Count(result, Return(n, TRUE))
               other == Count(result, Return(n, FALSE))
    <2>1. lost[n] \in Nat /\ due \in Nat /\ other \in Nat
      BY CountsAreNumbers, HistoryAreNumbers DEF IInv
    <2>2. ToldHere(n) \in Nat /\ StrayHere(n) \in Nat
      BY <1>1, HereCounts
    <2>3. Count(result', Return(n, TRUE)) = due /\ Count(result', Return(n, FALSE)) = other
      BY <1>1
    <2>4. lost'[n] = lost[n] + ToldHere(n)
      BY <1>3
    <2> HIDE DEF due, other
    <2>5. due + lost'[n] = due + lost[n] + ToldHere(n) /\ other <= other + StrayHere(n)
      BY <2>1, <2>2, <2>4
    <2> QED  BY <2>3, <2>5 DEF Settled, due, other
  <1> QED  BY <1>1, <1>4, <1>5, <1>6, NextEventKeeps

LEMMA OneSums ==
    ASSUME NEW P, NEW Q, NEW R
    PROVE  /\ ~Q /\ ~R => One(P) = One(P) + One(Q) + One(R)
           /\ ~P /\ ~Q => One(R) = One(P) + One(Q) + One(R)
           /\ One(P) \in Nat /\ One(P) <= One(P) + One(Q)
           /\ \A k \in Nat : k <= One(Q) => k <= One(P) + One(Q)
  BY DEF One

LEMMA ReturnsDiffer ==
    ASSUME NEW m, NEW n, NEW p \in BOOLEAN, NEW q \in BOOLEAN
    PROVE  Return(m, p) = Return(n, q) <=> m = n /\ p = q
  BY DEF Return

\* What an event adds to the entries collected, with nothing lost.
LEMMA CollectedSettles ==
    ASSUME IInv, Looking, lost' = lost, NEW n \in Names, NEW d, NEW o,
           d = ToldHere(n), o \in Nat, o <= StrayHere(n),
           Count(result', Return(n, TRUE)) = Count(result, Return(n, TRUE)) + d,
           Count(result', Return(n, FALSE)) = Count(result, Return(n, FALSE)) + o
    PROVE  Settled(n)
  <1> DEFINE due == Count(result, Return(n, TRUE))
             other == Count(result, Return(n, FALSE))
             l == lost[n]
             y == StrayHere(n)
             due_ == Count(result', Return(n, TRUE))
             other_ == Count(result', Return(n, FALSE))
  <1>1. l \in Nat /\ due \in Nat /\ other \in Nat
    BY CountsAreNumbers, HistoryAreNumbers DEF IInv
  <1>2. d \in Nat /\ y \in Nat
    BY HereCounts
  <1>3. due_ = due + d /\ other_ = other + o /\ o <= y /\ lost'[n] = l
    OBVIOUS
  <1> HIDE DEF due, other, l, y, due_, other_
  <1>4. due_ + l = due + l + d /\ other_ <= other + y
    BY <1>1, <1>2, <1>3
  <1> QED  BY <1>3, <1>4 DEF Settled, due, other, l, y, due_, other_

LEMMA OpenEventKeeps ==
    ASSUME IInv, OpenEvent
    PROVE  IInv'
  <1>1. /\ Looking /\ NextEvent(FALSE) /\ result' = result /\ lost' = lost
        /\ Head(batch).mask = "OPEN"
    BY DEF OpenEvent, FileEvent, Looking
  <1>2. lost' \in [Names -> Nat] /\ result' \in Lists
    BY <1>1 DEF IInv, Shape, TypeOK, Lists, Returns
  <1>3. ASSUME NEW n \in Names PROVE Settled(n)
    <2>1. ToldHere(n) = 0
      BY <1>1 DEF ToldHere, ArrivalMasks, One
    <2>2. /\ Count(result, Return(n, TRUE)) \in Nat /\ Count(result, Return(n, FALSE)) \in Nat
      BY CountsAreNumbers DEF IInv
    <2>3. /\ Count(result', Return(n, TRUE)) = Count(result, Return(n, TRUE)) + 0
          /\ Count(result', Return(n, FALSE)) = Count(result, Return(n, FALSE)) + 0
      <3>1. \A k \in Nat : k = k + 0
        OBVIOUS
      <3> QED  BY <1>1, <2>2, <3>1, Zenon
    <2>4. 0 \in Nat /\ 0 <= StrayHere(n)
      BY <1>1, HereCounts
    <2> QED  BY <1>1, <2>1, <2>3, <2>4, CollectedSettles
  <1> QED  BY <1>1, <1>2, <1>3, NextEventKeeps

LEMMA ArrivalEventKeeps ==
    ASSUME IInv, ArrivalEvent
    PROVE  IInv'
  <1> DEFINE h == Head(batch)
             y == Return(h.name, h.mask # "MOVED_TO|ISDIR")
  <1>1. /\ Looking /\ NextEvent(TRUE) /\ result' = Append(result, y) /\ lost' = lost
        /\ h.mask \in {"MOVED_TO", "CLOSE_WRITE", "MOVED_TO|ISDIR"}
    BY DEF ArrivalEvent, Notice, FileEvent, Looking
  <1>2. h \in Events
    BY <1>1, BatchFacts DEF Looking
  <1>3. h.name \in Names
    BY <1>1, <1>2 DEF Events
  <1>4. y \in Returns
    BY <1>3 DEF Returns, Return
  <1>5. result \in Seq(Returns) /\ lost' \in [Names -> Nat]
    BY <1>1 DEF IInv, Shape, TypeOK, Returns
  <1>6. result' \in Lists
    BY <1>1, <1>4, <1>5 DEF Lists
  <1>7. ASSUME NEW n \in Names PROVE Settled(n)
    <2> DEFINE d == One(y = Return(n, TRUE))
               o == One(y = Return(n, FALSE))
    <2>1. /\ Count(result', Return(n, TRUE)) = Count(result, Return(n, TRUE)) + d
          /\ Count(result', Return(n, FALSE)) = Count(result, Return(n, FALSE)) + o
      <3> HIDE DEF y
      <3>1. \A x : Count(Append(result, y), x) = Count(result, x) + One(y = x)
        BY <1>4, <1>5, CollectedCounts
      <3> QED  BY <1>1, <3>1, Zenon
    <2>2. d = ToldHere(n)
      <3> DEFINE P == h.name = n /\ h.mask \in ArrivalMasks
                 Q == h.name = n /\ h.mask = "CREATE" /\ Completes(Tail(batch), n)
                 R == AfterCreate /\ createdFile = n /\ h.mask = "DELETE" /\ h.made = n
      <3>1. d = One(P)
        <4>1. y = Return(n, TRUE) <=> h.name = n /\ h.mask \in ArrivalMasks
          BY <1>1, ReturnsDiffer DEF ArrivalMasks
        <4> QED  BY <4>1 DEF One
      <3>2. ~Q /\ ~R /\ ToldHere(n) = One(P) + One(Q) + One(R)
        BY <1>1 DEF ToldHere
      <3> HIDE DEF d, P, Q, R
      <3>3. One(P) = One(P) + One(Q) + One(R)
        BY <3>2, OneSums
      <3> QED  BY <3>1, <3>2, <3>3, Zenon
    <2>3. o \in Nat /\ o <= StrayHere(n)
      <3>1. o = One(h.name = n /\ h.mask = "MOVED_TO|ISDIR")
        <4>1. y = Return(n, FALSE) <=> h.name = n /\ h.mask = "MOVED_TO|ISDIR"
          BY <1>1, ReturnsDiffer
        <4> QED  BY <4>1 DEF One
      <3> HIDE DEF o
      <3> QED  BY <3>1, OneSums DEF StrayHere
    <2> HIDE DEF d, o
    <2> QED  BY <1>1, <2>1, <2>2, <2>3, CollectedSettles
  <1> QED  BY <1>1, <1>5, <1>6, <1>7, NextEventKeeps

LEMMA DeleteEventKeeps ==
    ASSUME IInv, DeleteEvent
    PROVE  IInv'
  <1> DEFINE h == Head(batch)
             y == Return(createdFile, h.made = createdFile)
  <1>1. /\ Looking /\ NextEvent(FALSE) /\ result' = Append(result, y) /\ lost' = lost
        /\ h.mask = "DELETE" /\ AfterCreate
    BY DEF DeleteEvent, FileEvent, Looking
  <1>2. createdFile \in Names
    BY <1>1 DEF AfterCreate, IInv, Shape, TypeOK
  <1>3. y \in Returns
    BY <1>2 DEF Returns, Return
  <1>4. result \in Seq(Returns) /\ lost' \in [Names -> Nat]
    BY <1>1 DEF IInv, Shape, TypeOK, Returns
  <1>5. result' \in Lists
    BY <1>1, <1>3, <1>4 DEF Lists
  <1>6. ASSUME NEW n \in Names PROVE Settled(n)
    <2> DEFINE d == One(y = Return(n, TRUE))
               o == One(y = Return(n, FALSE))
    <2>1. /\ Count(result', Return(n, TRUE)) = Count(result, Return(n, TRUE)) + d
          /\ Count(result', Return(n, FALSE)) = Count(result, Return(n, FALSE)) + o
      <3> HIDE DEF y
      <3>1. \A x : Count(Append(result, y), x) = Count(result, x) + One(y = x)
        BY <1>3, <1>4, CollectedCounts
      <3> QED  BY <1>1, <3>1, Zenon
    <2>2. d = ToldHere(n)
      <3> DEFINE P == h.name = n /\ h.mask \in ArrivalMasks
                 Q == h.name = n /\ h.mask = "CREATE" /\ Completes(Tail(batch), n)
                 R == AfterCreate /\ createdFile = n /\ h.mask = "DELETE" /\ h.made = n
      <3>1. d = One(R)
        <4>1. y = Return(n, TRUE) <=>
                  AfterCreate /\ createdFile = n /\ h.mask = "DELETE" /\ h.made = n
          BY <1>1, ReturnsDiffer
        <4> QED  BY <4>1 DEF One
      <3>2. ~P /\ ~Q /\ ToldHere(n) = One(P) + One(Q) + One(R)
        BY <1>1 DEF ToldHere, ArrivalMasks
      <3> HIDE DEF d, P, Q, R
      <3>3. One(R) = One(P) + One(Q) + One(R)
        BY <3>2, OneSums
      <3> QED  BY <3>1, <3>2, <3>3, Zenon
    <2>3. o \in Nat /\ o <= StrayHere(n)
      <3> DEFINE P == AfterCreate /\ createdFile = n /\ ~(PairsTogether /\ h.made = n)
                 R == y = Return(n, FALSE)
      <3>1. o \in Nat /\ o <= One(P)
        <4>1. R => P
          BY <1>1, ReturnsDiffer
        <4>2. o = One(R)
          OBVIOUS
        <4> HIDE DEF P, R, o
        <4> QED  BY <4>1, <4>2 DEF One
      <3> HIDE DEF o
      <3> QED  BY <3>1, OneSums DEF StrayHere
    <2> HIDE DEF d, o
    <2> QED  BY <1>1, <2>1, <2>2, <2>3, CollectedSettles
  <1> QED  BY <1>1, <1>4, <1>5, <1>6, NextEventKeeps

\* What watch() holds changes, and nothing else.
LEMMA HoldingKeeps ==
    ASSUME IInv, NEW n \in Names, UNCHANGED <<queue, result, reports, extra, lost>>,
           Told(Held', n) = Told(Held, n), Written(Held', n) = Written(Held, n),
           Stray(Held', n) \in Nat, Stray(Held', n) <= Stray(Held, n)
    PROVE  Accounted(n)
  <1>1. AllTold(n)' = AllTold(n) /\ AllWritten(n)' = AllWritten(n)
    BY Zenon DEF AllTold, AllWritten
  <1>2. AllTold(n) \in Nat /\ AllWritten(n) \in Nat
    BY TotalsAreNumbers DEF IInv, TotalsType
  <1>3. AllStray(n)' <= AllStray(n)
    <2> DEFINE other == extra[n] + Count(result, Return(n, FALSE))
               q == Stray(queue, n)
               h == Stray(Held, n)
               h_ == Stray(Held', n)
    <2>1. /\ extra[n] \in Nat /\ Count(result, Return(n, FALSE)) \in Nat
          /\ q \in Nat /\ h \in Nat /\ h_ \in Nat /\ h_ <= h
      BY CountsAreNumbers, HistoryAreNumbers DEF IInv
    <2>2. other \in Nat
      <3>1. \A a, b \in Nat : a + b \in Nat
        OBVIOUS
      <3> QED  BY <2>1, <3>1, Zenon
    <2>3. AllStray(n)' = other + h_ + q /\ AllStray(n) = other + h + q
      BY Zenon DEF AllStray
    <2> HIDE DEF other, q, h, h_
    <2> QED  BY <2>1, <2>2, <2>3
  <1> QED  BY <1>1, <1>2, <1>3 DEF Accounted

\* An IN_CREATE that watch() remembers counts with what is in the buffer.
LEMMA HeldBefore ==
    ASSUME IInv, Looking, NEW n, NEW M, NEW A
    PROVE  Counted(Held, n, M, A) = Counted(batch, n, M, A)
               + One(AfterCreate /\ Marks(Event("CREATE", createdFile), Head(batch), n, M, A))
  <1> DEFINE h == One(Marks(Head(batch), First(Tail(batch)), n, M, A))
             p == One(AfterCreate /\ Marks(Event("CREATE", createdFile), Head(batch), n, M, A))
             t == Counted(Tail(batch), n, M, A)
  <1>1. Counted(batch, n, M, A) = t + h
    BY BatchFacts, HeadCounts DEF Looking
  <1>2. Counted(Held, n, M, A) = t + h + p
    BY HeldSplit
  <1>3. t \in Nat /\ h \in Nat /\ p \in Nat
    BY HeldSplit DEF One
  <1> HIDE DEF h, p, t
  <1>4. Counted(Held, n, M, A) = Counted(batch, n, M, A) + p
    BY <1>1, <1>2, <1>3
  <1> QED  BY <1>4 DEF p

\* IN_CREATE goes on being held, in createdFile, if anything is to follow it.
LEMMA CreateEventKeeps ==
    ASSUME IInv, CreateEvent
    PROVE  IInv'
  <1>1. /\ Looking /\ Head(batch).mask = "CREATE"
        /\ createdFile' = Head(batch).name /\ createdFileEventIndex' = eventIndex
        /\ batch' = Tail(batch) /\ eventIndex' = eventIndex + 1
        /\ UNCHANGED <<others, queue, cancelled, pc, outcome, result, returns, lost>>
    BY DEF CreateEvent, FileEvent, Looking
  <1>2. /\ Head(batch) \in Events /\ Tail(batch) \in Seq(Events) /\ batch \in Seq(Events)
        /\ eventIndex \in Nat /\ batch # <<>>
    BY <1>1, BatchFacts DEF Looking
  <1>3. createdFile' \in Names /\ Head(batch) = Event("CREATE", createdFile')
    <2>1. Head(batch).made = NoName /\ Head(batch).name \in Names
      BY <1>1, <1>2 DEF Events
    <2>2. Head(batch) = [mask |-> "CREATE", name |-> Head(batch).name, made |-> NoName]
      BY <1>1, <1>2, <2>1 DEF Events
    <2> QED  BY <1>1, <2>1, <2>2 DEF Event, Second
  <1>4. Shape' /\ Prompt'
    <2>1. /\ createdFileEventIndex' \in -1..eventIndex
          /\ createdFile' # NoName /\ createdFileEventIndex' # -1
      BY <1>1, <1>2, <1>3, LocalWatcherAssumption
    <2>2. result' \in Seq(Returns) /\ lost' \in [Names -> Nat]
      BY <1>1 DEF IInv, Shape, TypeOK, Returns
    <2> QED  BY <1>1, <1>3, <2>1, <2>2, NextShape
  <1>5. Held' = IF Tail(batch) = <<>> THEN <<>> ELSE batch
    <2>1. AfterCreate'
      BY <1>1, <1>2, <1>3, LocalWatcherAssumption DEF AfterCreate
    <2>2. Tail(batch) # <<>> => Held' = <<Head(batch)>> \o Tail(batch)
      BY <1>1, <1>3, <2>1 DEF Held
    <2>3. <<Head(batch)>> \o Tail(batch) = batch
      BY <1>2
    <2>4. Tail(batch) = <<>> => Held' = <<>>
      BY <1>1 DEF Held
    <2> QED  BY <2>2, <2>3, <2>4
  <1>6. ASSUME NEW n \in Names PROVE Accounted(n)
    <2>1. /\ Told(Held, n) = Told(Tail(batch), n) + ToldHere(n)
          /\ Written(Held, n) = Written(Tail(batch), n) + WrittenHere(n)
          /\ Stray(Held, n) >= Stray(Tail(batch), n) + StrayHere(n)
          /\ Told(Tail(batch), n) \in Nat /\ Written(Tail(batch), n) \in Nat
          /\ Stray(Tail(batch), n) \in Nat /\ StrayHere(n) \in Nat
      BY <1>1, HereCounts
    <2> DEFINE held == /\ Told(Held', n) = Told(Held, n) /\ Written(Held', n) = Written(Held, n)
                       /\ Stray(Held', n) \in Nat /\ Stray(Held', n) <= Stray(Held, n)
    <2>2. ASSUME Tail(batch) = <<>> PROVE held
      <3>1. Held' = <<>>
        BY <1>5, <2>2
      <3>2. Told(<<>>, n) = 0 /\ Written(<<>>, n) = 0 /\ Stray(<<>>, n) = 0
        BY CountedEmpty DEF Told, Written, Stray
      <3>3. /\ ~(Head(batch).mask \in ArrivalMasks) /\ Head(batch).mask # "DELETE"
            /\ ~Completes(Tail(batch), n)
        <4>1. First(Tail(batch)) = End
          BY <2>2 DEF First
        <4> QED  BY <1>1, <4>1, EndFacts DEF Completes, ArrivalMasks
      <3>4. WrittenHere(n) = 0 /\ ToldHere(n) = 0
        BY <3>3 DEF ToldHere, WrittenHere, One
      <3>5. Told(Held, n) = 0 + 0 /\ Written(Held, n) = 0 + 0
            /\ Stray(Held, n) >= 0 + StrayHere(n)
        BY <2>1, <2>2, <3>2, <3>4, Zenon
      <3>6. Told(Held, n) = 0 /\ Written(Held, n) = 0 /\ 0 <= Stray(Held, n)
        <4>1. Stray(Held, n) \in Nat
          BY CountsAreNumbers DEF IInv
        <4> QED  BY <3>5, <4>1
      <3>7. 0 \in Nat
        OBVIOUS
      <3> QED  BY <3>1, <3>2, <3>6, <3>7, Zenon
    <2>3. ASSUME Tail(batch) # <<>> PROVE held
      <3> DEFINE e == Event("CREATE", createdFile)
      <3>1. Held' = batch
        BY <1>5, <2>3
      <3>2. /\ Told(Held, n) = Told(batch, n)
                   + One(AfterCreate /\ Marks(e, Head(batch), n, ArrivalMasks, Completing(n)))
            /\ Written(Held, n) = Written(batch, n)
                   + One(AfterCreate /\ Marks(e, Head(batch), n, ArrivalMasks, {}))
            /\ Stray(Held, n) = Stray(batch, n)
                   + One(AfterCreate /\ Marks(e, Head(batch), n, {"MOVED_TO|ISDIR"}, Foreign(n)))
        BY <1>1, HeldBefore DEF Told, Written, Stray
      <3>3. /\ One(AfterCreate /\ Marks(e, Head(batch), n, ArrivalMasks, Completing(n))) = 0
            /\ One(AfterCreate /\ Marks(e, Head(batch), n, ArrivalMasks, {})) = 0
            /\ One(AfterCreate /\ Marks(e, Head(batch), n, {"MOVED_TO|ISDIR"}, Foreign(n))) \in Nat
        BY <1>1 DEF One, Marks, Completing, ArrivalMasks, Event, Second
      <3>4. Told(batch, n) \in Nat /\ Written(batch, n) \in Nat /\ Stray(batch, n) \in Nat
        BY <1>2, EventCounts
      <3> DEFINE more == One(AfterCreate /\ Marks(e, Head(batch), n, {"MOVED_TO|ISDIR"}, Foreign(n)))
                 told == Told(batch, n)
                 written == Written(batch, n)
                 stray == Stray(batch, n)
      <3>5. /\ Told(Held, n) = told + 0 /\ Written(Held, n) = written + 0
            /\ Stray(Held, n) = stray + more /\ more \in Nat
            /\ told \in Nat /\ written \in Nat /\ stray \in Nat
        BY <3>2, <3>3, <3>4, Zenon
      <3> HIDE DEF more, told, written, stray
      <3>6. Told(Held, n) = told /\ Written(Held, n) = written /\ stray <= Stray(Held, n)
        BY <3>5
      <3> QED  BY <3>1, <3>5, <3>6, Zenon DEF told, written, stray
    <2>4. held
      <3> HIDE DEF held
      <3> QED  BY <2>2, <2>3
    <2> QED  BY <1>1, <2>4, HoldingKeeps DEF returns
  <1>7. UNCHANGED history
    BY <1>1 DEF others
  <1> QED  BY <1>4, <1>6, <1>7, AccountedKeeps

\* What an exception drops is accounted for.
LEMMA ThrowKeeps ==
    ASSUME IInv, NEW error \in {"interrupted", "fault", "gone"}, Throw(error)
    PROVE  IInv'
  <1>1. /\ pc' = "idle" /\ outcome' = error /\ batch' = <<>> /\ result' = <<>>
        /\ Lose([n \in Names |-> Announced(Held)[n] + Collected(TRUE)[n]], None)
        /\ UNCHANGED <<entry, stage, history, arrivals, renamed, strays, queue, cancelled,
                       eventIndex, createdFileEventIndex, createdFile, reports, extra, late>>
    BY DEF Throw, others, returns, history
  <1>2. ASSUME NEW n \in Names
        PROVE  /\ lost'[n] = lost[n] + Told(Held, n) + Count(result, Return(n, TRUE))
               /\ lost'[n] \in Nat
    <2> DEFINE l == lost[n]
               h == Told(Held, n)
               c == Count(result, Return(n, TRUE))
    <2>1. l \in Nat /\ c \in Nat /\ h \in Nat
      BY CountsAreNumbers, HistoryAreNumbers DEF IInv
    <2>2. lost'[n] = l + (h + c) - 0
      <3>1. lost'[n] = lost[n] + (Announced(Held)[n] + Collected(TRUE)[n]) - None[n]
        BY <1>1 DEF Lose
      <3>2. Announced(Held)[n] = h /\ Collected(TRUE)[n] = c /\ None[n] = 0
        BY HeldSequence, ModelCounts DEF IInv
      <3> HIDE DEF h, c
      <3> QED  BY <3>1, <3>2, Zenon
    <2> HIDE DEF l, h, c
    <2>3. lost'[n] = l + h + c /\ lost'[n] \in Nat
      BY <2>1, <2>2
    <2> QED  BY <2>3 DEF l, h, c
  <1>3. Shape'
    <2>1. lost' \in [Names -> Nat]
      BY <1>1, <1>2 DEF Lose
    <2>2. eventIndex + Len(batch) <= ReadMax /\ eventIndex \in 0..ReadMax
      BY DEF IInv, Shape, TypeOK
    <2>3. /\ batch' \in Seq(Events) /\ Len(batch') = 0 /\ result' \in Seq(Returns)
          /\ ReadMax \in Nat
      BY <1>1, LocalWatcherAssumption
    <2>4. Len(batch') <= ReadMax /\ eventIndex' + Len(batch') <= ReadMax
      BY <1>1, <2>2, <2>3
    <2>5. TypeOK'
      BY <1>1, <2>3, <2>4 DEF IInv, Shape, TypeOK, Returns
    <2> QED  BY <1>1, <2>1, <2>3, <2>4, <2>5 DEF IInv, Shape
  <1>4. Prompt'
    BY <1>1 DEF IInv, Prompt
  <1>5. Held' = <<>>
    BY <1>1 DEF Held
  <1>6. ASSUME NEW n \in Names PROVE Accounted(n)
    <2> DEFINE r == reports[n]
               x == extra[n]
               l == lost[n]
               l_ == lost'[n]
               c == Count(result, Return(n, TRUE))
               d == Count(result, Return(n, FALSE))
               h == Told(Held, n)
               w == Written(Held, n)
               y == Stray(Held, n)
               hq == Told(queue, n)
               wq == Written(queue, n)
               yq == Stray(queue, n)
    <2>1. /\ r \in Nat /\ x \in Nat /\ l \in Nat /\ c \in Nat /\ d \in Nat
          /\ h \in Nat /\ w \in Nat /\ y \in Nat /\ hq \in Nat /\ wq \in Nat /\ yq \in Nat
          /\ w <= h
      BY CountsAreNumbers, HistoryAreNumbers, HeldSequence, EventCounts DEF IInv
    <2>2. l_ = l + h + c /\ l_ \in Nat
      BY <1>2
    <2>3. /\ Told(Held', n) = 0 /\ Written(Held', n) = 0 /\ Stray(Held', n) = 0
          /\ Count(result', Return(n, TRUE)) = 0 /\ Count(result', Return(n, FALSE)) = 0
      <3>1. Told(<<>>, n) = 0 /\ Written(<<>>, n) = 0 /\ Stray(<<>>, n) = 0
        BY CountedEmpty DEF Told, Written, Stray
      <3>2. \A z : Count(<<>>, z) = 0
        BY CollectedCounts DEF IInv, Shape, TypeOK, Returns
      <3> QED  BY <1>1, <1>5, <3>1, <3>2
    <2>4. /\ AllTold(n)' = r + 0 + 0 + hq + l_
          /\ AllWritten(n)' = r + 0 + 0 + wq + l_
          /\ AllStray(n)' = x + 0 + 0 + yq
      <3>1. /\ AllTold(n)' = reports'[n] + Count(result', Return(n, TRUE))
                                 + Told(Held', n) + Told(queue', n) + lost'[n]
            /\ AllWritten(n)' = reports'[n] + Count(result', Return(n, TRUE))
                                    + Written(Held', n) + Written(queue', n) + lost'[n]
            /\ AllStray(n)' = extra'[n] + Count(result', Return(n, FALSE))
                                  + Stray(Held', n) + Stray(queue', n)
        BY DEF AllTold, AllWritten, AllStray
      <3>2. reports' = reports /\ extra' = extra /\ queue' = queue
        BY <1>1
      <3> QED  BY <2>3, <3>1, <3>2, Zenon
    <2>5. /\ AllTold(n) = r + c + h + hq + l /\ AllWritten(n) = r + c + w + wq + l
          /\ AllStray(n) = x + d + y + yq
      BY DEF AllTold, AllWritten, AllStray
    <2> HIDE DEF r, x, l, l_, c, d, h, w, y, hq, wq, yq
    <2>6. AllTold(n)' = AllTold(n) /\ AllTold(n) \in Nat
      BY <2>1, <2>2, <2>4, <2>5
    <2>7. AllWritten(n)' >= AllWritten(n)
      BY <2>1, <2>2, <2>4, <2>5
    <2>8. AllStray(n)' <= AllStray(n)
      BY <2>1, <2>4, <2>5
    <2> QED  BY <2>6, <2>7, <2>8 DEF Accounted
  <1> QED  BY <1>1, <1>3, <1>4, <1>6, AccountedKeeps

\* What is read goes from the queue to the buffer, and nothing was in that.
LEMMA ReadKeeps ==
    ASSUME IInv, Read
    PROVE  IInv'
  <1>1. PICK k \in 1..Len(queue) :
            /\ k <= ReadMax /\ (PairsTogether => ~SplitsPair(k))
            /\ batch' = SubSeq(queue, 1, k) /\ queue' = SubSeq(queue, k + 1, Len(queue))
    BY DEF Read
  <1>2. /\ pc = "select" /\ pc' = "events" /\ queue # <<>> /\ ~cancelled
        /\ eventIndex' = 0 /\ createdFileEventIndex' = -1 /\ createdFile' = NoName
        /\ result' = <<>>
        /\ UNCHANGED <<entry, stage, history, arrivals, renamed, strays, cancelled, outcome,
                       reports, extra, late, lost>>
    BY DEF Read, FirstReadable, others, returns, history
  <1>3. /\ queue \in Seq(Events) /\ Len(queue) \in Nat /\ Len(queue) <= QueueMax + 1
        /\ batch = <<>> /\ result = <<>>
    <2>1. queue \in Seq(Events) /\ Len(queue) <= QueueMax + 1 /\ batch = <<>> /\ result = <<>>
      BY <1>2 DEF IInv, Shape, TypeOK
    <2> QED  BY <2>1
  <1>4. /\ batch' \in Seq(Events) /\ Len(batch') = k
        /\ \A i \in 1..k : batch'[i] = queue[i]
    BY <1>1, <1>3
  <1>5. /\ queue' \in Seq(Events) /\ Len(queue') = Len(queue) - k
        /\ \A i \in 1..(Len(queue) - k) : queue'[i] = queue[k + i]
    BY <1>1, <1>3
  <1>6. queue = batch' \o queue'
    <2>1. 1 \in 1..Len(queue) + 1 /\ k \in 1-1..Len(queue) /\ Len(queue) \in k..Len(queue)
      BY <1>1, <1>3
    <2>2. SubSeq(queue, 1, k) \o SubSeq(queue, k + 1, Len(queue)) = SubSeq(queue, 1, Len(queue))
      BY <1>3, <2>1, ConcatAdjacentSubSeq
    <2>3. SubSeq(queue, 1, Len(queue)) = queue
      BY <1>3
    <2> QED  BY <1>1, <2>2, <2>3
  <1>7. Shape'
    <2>1. Len(batch') <= ReadMax /\ eventIndex' + Len(batch') <= ReadMax
      BY <1>1, <1>2, <1>4
    <2>2. Len(queue') <= QueueMax + 1 /\ Len(queue') # QueueMax + 1
      BY <1>1, <1>3, <1>5, LocalWatcherAssumption
    <2>3. result' \in Seq(Returns) /\ eventIndex' \in 0..ReadMax
          /\ createdFileEventIndex' \in -1..ReadMax
      BY <1>2, LocalWatcherAssumption
    <2>4. TypeOK'
      BY <1>2, <2>1, <2>2, <2>3 DEF IInv, Shape, TypeOK, Returns
    <2> QED  BY <1>2, <1>4, <1>5, <2>1, <2>2, <2>4 DEF IInv, Shape
  <1>8. Prompt'
    BY <1>2 DEF IInv, Prompt
  <1>9. Held' = batch' /\ Held = <<>>
    BY <1>2, <1>3 DEF Held, AfterCreate
  <1>10. ASSUME NEW n \in Names, PairsTogether PROVE ~Torn(batch', queue', n)
    <2> SUFFICES ASSUME Torn(batch', queue', n) PROVE FALSE
      OBVIOUS
    <2>1. /\ batch'[k].mask = "CREATE" /\ batch'[k].name = n /\ First(queue').made = n
      BY <1>4 DEF Torn
    <2>2. queue' # <<>>
      <3>1. First(<<>>).made = NoName
        BY DEF First, End, Event, Second
      <3> QED  BY <2>1, <3>1, LocalWatcherAssumption
    <2>3. Len(queue') # 0
      BY <1>5, <2>2
    <2>4. k < Len(queue) /\ queue'[1] = queue[k + 1] /\ batch'[k] = queue[k]
      BY <1>1, <1>3, <1>4, <1>5, <2>3
    <2> QED  BY <1>1, <1>10, <2>1, <2>2, <2>4 DEF SplitsPair, First
  <1>11. ASSUME NEW n \in Names PROVE Accounted(n)
    <2> DEFINE r == reports[n]
               x == extra[n]
               l == lost[n]
               h == Told(batch', n)
               w == Written(batch', n)
               y == Stray(batch', n)
               hq == Told(queue', n)
               wq == Written(queue', n)
               yq == Stray(queue', n)
               ha == Told(queue, n)
               wa == Written(queue, n)
               ya == Stray(queue, n)
    <2>1. batch' \in Seq(Events) /\ queue' \in Seq(Events)
      BY <1>4, <1>5
    <2>2. /\ r \in Nat /\ x \in Nat /\ l \in Nat /\ ha \in Nat /\ wa \in Nat /\ ya \in Nat
          /\ h \in Nat /\ w \in Nat /\ y \in Nat /\ hq \in Nat /\ wq \in Nat /\ yq \in Nat
      BY <2>1, CountsAreNumbers, HistoryAreNumbers, EventCounts DEF IInv
    <2>3. /\ ha >= h + hq /\ (PairsTogether => ha = h + hq)
      BY <1>6, <1>10, <2>1, SeamTold
    <2>4. wa = w + wq
      BY <1>6, <2>1, SeamWritten
    <2>5. ya = y + yq
      BY <1>6, <1>10, <2>1, SeamStray
    <2>6. /\ Told(<<>>, n) = 0 /\ Written(<<>>, n) = 0 /\ Stray(<<>>, n) = 0
          /\ \A z : Count(<<>>, z) = 0
      <3>1. \A z : Count(<<>>, z) = 0
        BY CollectedCounts DEF IInv, Shape, TypeOK, Returns
      <3> QED  BY <3>1, CountedEmpty DEF Told, Written, Stray
    <2>7. /\ AllTold(n)' = r + 0 + h + hq + l
          /\ AllWritten(n)' = r + 0 + w + wq + l
          /\ AllStray(n)' = x + 0 + y + yq
      <3>1. /\ AllTold(n)' = reports'[n] + Count(result', Return(n, TRUE))
                                 + Told(Held', n) + Told(queue', n) + lost'[n]
            /\ AllWritten(n)' = reports'[n] + Count(result', Return(n, TRUE))
                                    + Written(Held', n) + Written(queue', n) + lost'[n]
            /\ AllStray(n)' = extra'[n] + Count(result', Return(n, FALSE))
                                  + Stray(Held', n) + Stray(queue', n)
        BY DEF AllTold, AllWritten, AllStray
      <3> QED  BY <1>2, <1>9, <2>6, <3>1, Zenon
    <2>8. /\ AllTold(n) = r + 0 + 0 + ha + l /\ AllWritten(n) = r + 0 + 0 + wa + l
          /\ AllStray(n) = x + 0 + 0 + ya
      BY <1>3, <1>9, <2>6, Zenon DEF AllTold, AllWritten, AllStray
    <2> HIDE DEF r, x, l, h, w, y, hq, wq, yq, ha, wa, ya
    <2>9. AllTold(n)' <= AllTold(n)
      BY <2>2, <2>3, <2>7, <2>8
    <2>10. ASSUME PairsTogether PROVE AllTold(n)' >= AllTold(n)
      <3>1. ha = h + hq
        BY <2>3, <2>10
      <3> QED  BY <2>2, <2>7, <2>8, <3>1
    <2>11. AllWritten(n)' >= AllWritten(n)
      BY <2>2, <2>4, <2>7, <2>8
    <2>12. AllStray(n)' <= AllStray(n)
      BY <2>2, <2>5, <2>7, <2>8
    <2> QED  BY <2>9, <2>10, <2>11, <2>12 DEF Accounted
  <1> QED  BY <1>2, <1>7, <1>8, <1>11, AccountedKeeps

LEMMA WatchReturnsKeeps ==
    ASSUME IInv, WatchReturns
    PROVE  IInv'
  <1>1. /\ pc = "events" /\ batch = <<>> /\ pc' = "idle" /\ outcome' = "returned"
        /\ result' = <<>>
        /\ reports' = [n \in Names |-> reports[n] + Collected(TRUE)[n]]
        /\ extra' = [n \in Names |-> extra[n] + Collected(FALSE)[n]]
        /\ late' = IF cancelled THEN late + 1 ELSE late
        /\ UNCHANGED <<entry, stage, history, arrivals, renamed, strays, queue, cancelled,
                       batch, eventIndex, createdFileEventIndex, createdFile, lost>>
    BY DEF WatchReturns, others, history
  <1>2. Held' = <<>> /\ Held = <<>>
    BY <1>1 DEF Held
  <1>3. ASSUME NEW n \in Names
        PROVE  /\ reports'[n] = reports[n] + Count(result, Return(n, TRUE))
               /\ extra'[n] = extra[n] + Count(result, Return(n, FALSE))
               /\ reports'[n] \in Nat /\ extra'[n] \in Nat
    <2>1. /\ reports[n] \in Nat /\ Count(result, Return(n, TRUE)) \in Nat
          /\ extra[n] \in Nat /\ Count(result, Return(n, FALSE)) \in Nat
      BY CountsAreNumbers, HistoryAreNumbers DEF IInv
    <2>2. /\ reports'[n] = reports[n] + Count(result, Return(n, TRUE))
          /\ extra'[n] = extra[n] + Count(result, Return(n, FALSE))
      BY <1>1, ModelCounts
    <2>3. \A a, b \in Nat : a + b \in Nat
      OBVIOUS
    <2> QED  BY <2>1, <2>2, <2>3, Zenon
  <1>4. Shape'
    <2>1. reports' \in [Names -> Nat] /\ extra' \in [Names -> Nat] /\ result' \in Seq(Returns)
      <3>1. /\ reports' = [n \in Names |-> reports'[n]] /\ extra' = [n \in Names |-> extra'[n]]
            /\ \A n \in Names : reports'[n] \in Nat /\ extra'[n] \in Nat
        BY <1>1, <1>3, Zenon
      <3>2. reports' \in [Names -> Nat] /\ extra' \in [Names -> Nat]
        BY <3>1
      <3>3. <<>> \in Seq(Returns)
        OBVIOUS
      <3> QED  BY <1>1, <3>2, <3>3, Zenon
    <2> QED  BY <1>1, <2>1, ZenonT(60) DEF IInv, Shape, TypeOK, Returns
  <1>5. Prompt'
    <2>1. late = 0
      BY <1>1 DEF IInv, Prompt
    <2> QED  BY <1>1, <2>1 DEF Prompt
  <1>6. ASSUME NEW n \in Names PROVE Accounted(n)
    <2> DEFINE r == reports[n]
               x == extra[n]
               l == lost[n]
               c == Count(result, Return(n, TRUE))
               d == Count(result, Return(n, FALSE))
               h == Told(Held, n)
               w == Written(Held, n)
               y == Stray(Held, n)
               hq == Told(queue, n)
               wq == Written(queue, n)
               yq == Stray(queue, n)
    <2>1. /\ r \in Nat /\ x \in Nat /\ l \in Nat /\ c \in Nat /\ d \in Nat
          /\ h \in Nat /\ w \in Nat /\ y \in Nat /\ hq \in Nat /\ wq \in Nat /\ yq \in Nat
      BY CountsAreNumbers, HistoryAreNumbers DEF IInv
    <2>2. \A z : Count(<<>>, z) = 0
      BY CollectedCounts DEF IInv, Shape, TypeOK, Returns
    <2>3. /\ AllTold(n)' = (r + c) + 0 + h + hq + l
          /\ AllWritten(n)' = (r + c) + 0 + w + wq + l
          /\ AllStray(n)' = (x + d) + 0 + y + yq
      <3>1. /\ AllTold(n)' = reports'[n] + Count(result', Return(n, TRUE))
                                 + Told(Held', n) + Told(queue', n) + lost'[n]
            /\ AllWritten(n)' = reports'[n] + Count(result', Return(n, TRUE))
                                    + Written(Held', n) + Written(queue', n) + lost'[n]
            /\ AllStray(n)' = extra'[n] + Count(result', Return(n, FALSE))
                                  + Stray(Held', n) + Stray(queue', n)
        BY DEF AllTold, AllWritten, AllStray
      <3>2. reports'[n] = r + c /\ extra'[n] = x + d
        BY <1>3
      <3> QED  BY <1>1, <1>2, <2>2, <3>1, <3>2, Zenon
    <2>4. /\ AllTold(n) = r + c + h + hq + l /\ AllWritten(n) = r + c + w + wq + l
          /\ AllStray(n) = x + d + y + yq
      BY DEF AllTold, AllWritten, AllStray
    <2> HIDE DEF r, x, l, c, d, h, w, y, hq, wq, yq
    <2>5. AllTold(n)' = AllTold(n) /\ AllTold(n) \in Nat
      BY <2>1, <2>3, <2>4
    <2>6. AllWritten(n)' >= AllWritten(n)
      BY <2>1, <2>3, <2>4
    <2>7. AllStray(n)' <= AllStray(n)
      BY <2>1, <2>3, <2>4
    <2> QED  BY <2>5, <2>6, <2>7 DEF Accounted
  <1> QED  BY <1>1, <1>4, <1>5, <1>6, AccountedKeeps

LEMMA WatchKeeps ==
    ASSUME IInv, Watch
    PROVE  IInv'
  <1>1. /\ pc = "idle" /\ pc' = "select" /\ outcome' = "none"
        /\ UNCHANGED <<entry, stage, arrivals, renamed, strays, queue, cancelled, batch,
                       eventIndex, result, createdFileEventIndex, createdFile, reports,
                       extra, lost, late>>
    BY DEF Watch, others, history, locals, returns
  <1>2. Shape' /\ Prompt'
    BY <1>1 DEF IInv, Shape, TypeOK, Prompt
  <1>3. Balance'
    BY <1>1 DEF IInv, Balance, AllTold, AllWritten, AllStray, Held, AfterCreate
  <1> QED  BY <1>2, <1>3 DEF IInv

LEMMA WatcherKeeps ==
    ASSUME IInv, Watcher
    PROVE  IInv'
  <1>1. CASE SelectCancelled
    BY <1>1, ThrowKeeps DEF SelectCancelled
  <1>2. CASE Fault
    BY <1>2, ThrowKeeps DEF Fault
  <1>3. CASE SelfEvent
    BY <1>3, ThrowKeeps DEF SelfEvent
  <1> QED  BY <1>1, <1>2, <1>3, WatchKeeps, ReadKeeps, SkipEventKeeps, CreateEventKeeps,
              OpenEventKeeps, ArrivalEventKeeps, DeleteEventKeeps, WatchReturnsKeeps
           DEF Watcher

\* Nothing in hand, nothing counted.
LEMMA EmptyCounts ==
    ASSUME NEW n
    PROVE  /\ Told(<<>>, n) = 0 /\ Written(<<>>, n) = 0 /\ Stray(<<>>, n) = 0
           /\ \A z : Count(<<>>, z) = 0
  <1>1. \A z : Count(<<>>, z) = 0
    <2>1. <<>> \in Seq(Returns)
      OBVIOUS
    <2> QED  BY <2>1, CollectedCounts
  <1> QED  BY <1>1, CountedEmpty DEF Told, Written, Stray

LEMMA InitIInv == Init => IInv
  <1> SUFFICES ASSUME Init PROVE IInv
    OBVIOUS
  <1>1. /\ entry \in Entries /\ stage = [n \in Names |-> "none"]
        /\ queue = <<>> /\ pc = "idle" /\ outcome = "none" /\ batch = <<>>
        /\ eventIndex = 0 /\ createdFileEventIndex = -1 /\ createdFile = NoName
        /\ result = <<>> /\ arrivals = [n \in Names |-> 0] /\ renamed = arrivals
        /\ strays = arrivals /\ reports = arrivals /\ extra = arrivals /\ lost = arrivals
        /\ late = 0
    BY DEF Init, Entries
  <1>2. ReadMax \in Nat /\ QueueMax \in Nat
    BY LocalWatcherAssumption
  <1>3. Shape
    <2>1. <<>> \in Seq(Events) /\ <<>> \in Seq(Returns) /\ Len(<<>>) = 0
      OBVIOUS
    <2>2. TypeOK
      BY <1>1, <1>2, <2>1 DEF TypeOK, Entries, Returns
    <2> QED  BY <1>1, <1>2, <2>1, <2>2 DEF Shape
  <1>4. ASSUME NEW n \in Names
        PROVE  /\ AllTold(n) = 0 /\ AllWritten(n) = 0 /\ AllStray(n) = 0
               /\ arrivals[n] = 0 /\ renamed[n] = 0 /\ strays[n] = 0
    <2>1. /\ reports[n] = 0 /\ extra[n] = 0 /\ lost[n] = 0
          /\ arrivals[n] = 0 /\ renamed[n] = 0 /\ strays[n] = 0
      BY <1>1
    <2>2. Held = <<>>
      BY <1>1 DEF Held
    <2>3. /\ AllTold(n) = 0 + 0 + 0 + 0 + 0 /\ AllWritten(n) = 0 + 0 + 0 + 0 + 0
          /\ AllStray(n) = 0 + 0 + 0 + 0
      BY <1>1, <2>1, <2>2, EmptyCounts, Zenon DEF AllTold, AllWritten, AllStray
    <2> QED  BY <2>1, <2>3
  <1>5. Balance
    BY <1>4 DEF Balance
  <1>6. Prompt
    BY <1>1 DEF Prompt
  <1> QED  BY <1>3, <1>5, <1>6 DEF IInv

\* The inductive invariant holds in every state of every run.
THEOREM IInvHolds == Spec => []IInv
  <1>1. IInv /\ [Next]_vars => IInv'
    <2> SUFFICES ASSUME IInv, [Next]_vars PROVE IInv'
      OBVIOUS
    <2>1. CASE UNCHANGED vars
      <3>1. UNCHANGED <<entry, stage, queue, cancelled, pc, outcome, batch, eventIndex,
                        result, createdFileEventIndex, createdFile, arrivals, renamed,
                        strays, reports, extra, lost, late>>
        BY <2>1 DEF vars, others, history, locals, returns
      <3>2. Shape' /\ Prompt'
        BY <3>1 DEF IInv, Shape, TypeOK, Prompt
      <3>3. Balance'
        BY <3>1 DEF IInv, Balance, AllTold, AllWritten, AllStray, Held, AfterCreate
      <3> QED  BY <3>2, <3>3 DEF IInv
    <2>2. CASE Next
      BY <2>2, OthersKeep, WatcherKeeps DEF Next
    <2> QED  BY <2>1, <2>2
  <1> QED  BY <1>1, InitIInv, PTL DEF Spec
-----------------------------------------------------------------------------
(* What follows from it.                                                     *)

\* The variables stay in their types: watch() never reads past its buffer, and
\* an index is remembered exactly as long as a name is.
THEOREM TypeCorrect == Spec => []TypeOK
  <1>1. IInv => TypeOK
    BY DEF IInv, Shape
  <1> QED  BY <1>1, IInvHolds, PTL

\* However often the application calls watch() and whatever is queued, at most one
\* call returns once cancelfd is readable, for any number of operations.
THEOREM PromptCancel == Spec => []CancelIsPrompt
  <1>1. IInv => CancelIsPrompt
    BY DEF IInv, Prompt, CancelIsPrompt
  <1> QED  BY <1>1, IInvHolds, PTL

\* Between two calls, with nothing queued, all there is was returned or lost.
LEMMA AtRest ==
    ASSUME IInv, pc = "idle", queue = <<>>, NEW n \in Names
    PROVE  /\ reports[n] + lost[n] <= arrivals[n]
           /\ PairsTogether => reports[n] + lost[n] = arrivals[n]
           /\ reports[n] + lost[n] >= arrivals[n] - renamed[n]
           /\ extra[n] <= strays[n]
  <1>1. batch = <<>> /\ result = <<>>
    BY DEF IInv, Shape
  <1>2. Held = <<>>
    BY <1>1 DEF Held
  <1> DEFINE r == reports[n]
             l == lost[n]
             x == extra[n]
  <1>3. /\ AllTold(n) = r + 0 + 0 + 0 + l /\ AllWritten(n) = r + 0 + 0 + 0 + l
        /\ AllStray(n) = x + 0 + 0 + 0
    BY <1>1, <1>2, EmptyCounts, Zenon DEF AllTold, AllWritten, AllStray
  <1>4. /\ AllTold(n) <= arrivals[n] /\ (PairsTogether => AllTold(n) >= arrivals[n])
        /\ AllWritten(n) >= arrivals[n] - renamed[n] /\ AllStray(n) <= strays[n]
    BY DEF IInv, Balance
  <1>5. /\ r \in Nat /\ l \in Nat /\ x \in Nat
        /\ arrivals[n] \in Nat /\ renamed[n] \in Nat /\ strays[n] \in Nat
    BY HistoryAreNumbers DEF IInv
  <1> HIDE DEF r, l, x
  <1>6. r + l <= arrivals[n] /\ r + l >= arrivals[n] - renamed[n] /\ x <= strays[n]
    BY <1>3, <1>4, <1>5
  <1>7. ASSUME PairsTogether PROVE r + l = arrivals[n]
    <2>1. AllTold(n) >= arrivals[n]
      BY <1>4, <1>7
    <2> QED  BY <1>3, <1>5, <1>6, <2>1
  <1> QED  BY <1>6, <1>7 DEF r, l, x

\* When pairs of events stay together, a watcher that has caught up has returned
\* every arrival once, but for those it is known to have lost; what else it has
\* returned is, each once, a directory that was moved in or a lone IN_CREATE.
THEOREM NothingElseLost == PairsTogether => (Spec => []CaughtUp)
  <1> SUFFICES ASSUME PairsTogether PROVE Spec => []CaughtUp
    OBVIOUS
  <1>1. IInv => CaughtUp
    BY AtRest DEF CaughtUp
  <1> QED  BY <1>1, IInvHolds, PTL

\* Whether pairs stay together or not, what was closed after writing or moved in
\* is never missed, and no arrival is returned twice.
THEOREM WrittenIsNoticed == Spec => []WrittenNeverMissed
  <1>1. IInv => WrittenNeverMissed
    BY AtRest DEF WrittenNeverMissed
  <1> QED  BY <1>1, IInvHolds, PTL

\* Whether pairs stay together or not, the watcher implements the abstract feed, for
\* the arrivals as for what could be taken for one: it tells of a name only after
\* one of either, and never twice of it.
THEOREM ImplementsFeed == Spec => FeedSpec
  <1>1. Init => F!Init /\ S!Init
    BY DEF Init, F!Init, S!Init
  <1>2. ASSUME IInv, WatchReturns
        PROVE  F!Report /\ S!Report
    <2>1. ASSUME NEW n \in Names
          PROVE  /\ reports'[n] \in Nat /\ reports[n] <= reports'[n]
                 /\ reports'[n] <= arrivals[n]
                 /\ extra'[n] \in Nat /\ extra[n] <= extra'[n] /\ extra'[n] <= strays[n]
      <3> DEFINE r == reports[n]
                 x == extra[n]
                 c == Count(result, Return(n, TRUE))
                 d == Count(result, Return(n, FALSE))
                 h == Told(Held, n)
                 hq == Told(queue, n)
                 l == lost[n]
                 y == Stray(Held, n)
                 yq == Stray(queue, n)
      <3>1. /\ r \in Nat /\ x \in Nat /\ c \in Nat /\ d \in Nat /\ h \in Nat /\ hq \in Nat
            /\ l \in Nat /\ y \in Nat /\ yq \in Nat
            /\ arrivals[n] \in Nat /\ strays[n] \in Nat
        BY <1>2, CountsAreNumbers, HistoryAreNumbers DEF IInv
      <3>2. reports'[n] = r + c /\ extra'[n] = x + d
        BY <1>2, ModelCounts DEF WatchReturns
      <3>3. r + c + h + hq + l <= arrivals[n] /\ x + d + y + yq <= strays[n]
        BY <1>2 DEF IInv, Balance, AllTold, AllStray
      <3> HIDE DEF r, x, c, d, h, hq, l, y, yq
      <3>4. /\ reports'[n] \in Nat /\ r <= reports'[n] /\ reports'[n] <= arrivals[n]
            /\ extra'[n] \in Nat /\ x <= extra'[n] /\ extra'[n] <= strays[n]
        BY <3>1, <3>2, <3>3
      <3> QED  BY <3>4 DEF r, x
    <2>2. reports' \in [Names -> Nat] /\ extra' \in [Names -> Nat] /\ UNCHANGED history
      BY <1>2, <2>1 DEF WatchReturns, others
    <2> QED  BY <2>1, <2>2 DEF F!Report, S!Report, history
  <1>3. ASSUME Watcher, ~WatchReturns
        PROVE  UNCHANGED <<arrivals, strays, reports, extra>>
    BY <1>3 DEF Watcher, Watch, SelectCancelled, Fault, Read, SelfEvent, SkipEvent,
                CreateEvent, OpenEvent, ArrivalEvent, DeleteEvent, NextEvent, Throw,
                others, history, returns
  <1>4. ASSUME Others
        PROVE  /\ UNCHANGED <<reports, extra>>
               /\ arrivals' = arrivals \/ \E n \in Names : F!Arrive(n)
               /\ strays' = strays \/ \E n \in Names : S!Arrive(n)
    <2>1. UNCHANGED <<reports, extra>>
      BY <1>4 DEF Others, Cancel, DirectoryGone, CreateFile, OpenFile, CloseFile, MoveIn,
                  MoveOut, DeleteFile, MakeNode, MakeDir, MoveInDir, Link, Unlink, Op, returns
    <2>2. \/ UNCHANGED history
          \/ \E n \in Names : Arrived(n) \/ Renamed(n) \/ Strayed(n)
      BY <1>4 DEF Others, Cancel, DirectoryGone, CreateFile, OpenFile, CloseFile, MoveIn,
                  MoveOut, DeleteFile, MakeNode, MakeDir, MoveInDir, Link, Unlink, others
    <2> QED  BY <2>1, <2>2 DEF history, Arrived, Renamed, Strayed, F!Arrive, S!Arrive
  <1>5. ASSUME IInv, [Next]_vars
        PROVE  [F!Next]_<<arrivals, reports>> /\ [S!Next]_<<strays, extra>>
    <2>1. CASE WatchReturns
      BY <1>2, <1>5, <2>1 DEF F!Next, S!Next
    <2>2. CASE Watcher /\ ~WatchReturns
      BY <1>3, <2>2
    <2>3. CASE Others
      BY <1>4, <2>3 DEF F!Next, S!Next
    <2>4. CASE UNCHANGED vars
      BY <2>4 DEF vars, others, history, returns
    <2> QED  BY <1>5, <2>1, <2>2, <2>3, <2>4 DEF Next
  <1>6. IInv /\ [Next]_vars => [F!Next]_<<arrivals, reports>> /\ [S!Next]_<<strays, extra>>
    BY <1>5
  <1> QED  BY <1>1, <1>6, IInvHolds, PTL DEF Spec, FeedSpec, F!Spec, S!Spec
=============================================================================
