----------------------- MODULE LifecycleOutbox_proofs -----------------------
(***************************************************************************)
(* Proofs about LifecycleOutbox, for every set of commands and every       *)
(* capacity: statuses wait in the order of their command's life, and the   *)
(* array implements StatusBuffer.                                          *)
(***************************************************************************)
EXTENDS LifecycleOutbox, FiniteSets, SequenceTheorems, FiniteSetTheorems, TLAPS

(* Parts of a sequence, place by place.                                    *)
LEMMA FirstPart ==
    ASSUME NEW S, NEW s \in Seq(S), NEW n \in 0 .. Len(s)
    PROVE  /\ SubSeq(s, 1, n) \in Seq(S)
           /\ Len(SubSeq(s, 1, n)) = n
           /\ \A k \in 1 .. n : SubSeq(s, 1, n)[k] = s[k]
  <1>1. Len(s) \in Nat /\ \A k \in 1 .. Len(s) : s[k] \in S
    BY ElementOfSeq, LenProperties
  <1>2. 1 \in Int /\ n \in Int /\ \A k \in 1 .. n : s[k] \in S
    BY <1>1
  <1>3. /\ SubSeq(s, 1, n) \in Seq(S)
        /\ Len(SubSeq(s, 1, n)) = IF 1 <= n THEN n - 1 + 1 ELSE 0
        /\ \A k \in 1 .. n - 1 + 1 : SubSeq(s, 1, n)[k] = s[1 + k - 1]
    BY <1>2, SubSeqProperties
  <1>4. \A k \in 1 .. n : 1 + k - 1 = k
    OBVIOUS
  <1>. QED  BY <1>1, <1>3, <1>4

LEMMA LastPart ==
    ASSUME NEW S, NEW s \in Seq(S), NEW n \in 0 .. Len(s)
    PROVE  /\ SubSeq(s, n + 1, Len(s)) \in Seq(S)
           /\ Len(SubSeq(s, n + 1, Len(s))) = Len(s) - n
           /\ \A k \in 1 .. Len(s) - n : SubSeq(s, n + 1, Len(s))[k] = s[n + k]
  <1>1. Len(s) \in Nat /\ \A k \in 1 .. Len(s) : s[k] \in S
    BY ElementOfSeq, LenProperties
  <1>2. n + 1 \in Int /\ Len(s) \in Int /\ \A k \in n + 1 .. Len(s) : s[k] \in S
    BY <1>1
  <1>3. PICK m \in Int : m = n + 1
    BY <1>1
  <1>4. /\ SubSeq(s, m, Len(s)) \in Seq(S)
        /\ Len(SubSeq(s, m, Len(s))) = IF m <= Len(s) THEN Len(s) - m + 1 ELSE 0
        /\ \A k \in 1 .. Len(s) - m + 1 : SubSeq(s, m, Len(s))[k] = s[m + k - 1]
    BY <1>2, <1>3, SubSeqProperties
  <1>5. \A k \in 1 .. Len(s) - n : k \in 1 .. Len(s) - m + 1 /\ m + k - 1 = n + k
    BY <1>1, <1>3
  <1>6. Len(SubSeq(s, m, Len(s))) = Len(s) - n
    BY <1>1, <1>3, <1>4
  <1>. QED  BY <1>3, <1>4, <1>5, <1>6

LEMMA Joined ==
    ASSUME NEW S, NEW s \in Seq(S), NEW t \in Seq(S),
           NEW m \in Nat, Len(s) = m, NEW n \in Nat, Len(s) + Len(t) = n
    PROVE  /\ s \o t \in Seq(S)
           /\ Len(s \o t) = n
           /\ \A k \in 1 .. n : (s \o t)[k] = IF k <= m THEN s[k] ELSE t[k - m]
  BY ConcatProperties

(* Inserting into and removing from a sequence, place by place.            *)
LEMMA Inserted ==
    ASSUME NEW S, NEW s \in Seq(S), NEW at \in 1 .. Len(s) + 1, NEW e \in S
    PROVE  /\ InsertAt(s, at, e) \in Seq(S)
           /\ Len(InsertAt(s, at, e)) = Len(s) + 1
           /\ DOMAIN InsertAt(s, at, e) = 1 .. Len(s) + 1
           /\ \A k \in 1 .. Len(s) + 1 :
                 InsertAt(s, at, e)[k] =
                    IF k < at THEN s[k] ELSE IF k = at THEN e ELSE s[k - 1]
  <1>1. Len(s) \in Nat
    BY LenProperties
  <1>2. PICK n \in 0 .. Len(s) : n + 1 = at /\ n = at - 1
    BY <1>1
  <1>3. PICK front :
           /\ front \in Seq(S)
           /\ front = SubSeq(s, 1, n)
           /\ Len(front) = n
           /\ \A k \in 1 .. n : front[k] = s[k]
    <2>1. /\ SubSeq(s, 1, n) \in Seq(S)
          /\ Len(SubSeq(s, 1, n)) = n
          /\ \A k \in 1 .. n : SubSeq(s, 1, n)[k] = s[k]
      BY FirstPart
    <2>. QED  BY <2>1
  <1>4. PICK back :
           /\ back \in Seq(S)
           /\ back = SubSeq(s, n + 1, Len(s))
           /\ Len(back) = Len(s) - n
           /\ \A k \in 1 .. Len(s) - n : back[k] = s[n + k]
    <2>1. /\ SubSeq(s, n + 1, Len(s)) \in Seq(S)
          /\ Len(SubSeq(s, n + 1, Len(s))) = Len(s) - n
          /\ \A k \in 1 .. Len(s) - n : SubSeq(s, n + 1, Len(s))[k] = s[n + k]
      BY LastPart
    <2>. QED  BY <2>1
  <1>5. PICK one : one \in Seq(S) /\ one = <<e>> /\ Len(one) = 1 /\ one[1] = e
    <2>1. <<e>> \in Seq(S) /\ Len(<<e>>) = 1 /\ <<e>>[1] = e
      OBVIOUS
    <2>. QED  BY <2>1
  <1>6. PICK upTo :
           /\ upTo \in Seq(S)
           /\ upTo = front \o one
           /\ Len(upTo) = at
           /\ \A k \in 1 .. at : upTo[k] = IF k <= n THEN front[k] ELSE one[k - n]
    <2>1. at \in Nat /\ n \in Nat /\ n + 1 = at
      BY <1>1, <1>2
    <2>2. Len(front) = n /\ Len(front) + Len(one) = at
      BY <1>3, <1>5, <2>1
    <2>3. /\ front \o one \in Seq(S)
          /\ Len(front \o one) = at
          /\ \A k \in 1 .. at :
                (front \o one)[k] = IF k <= n THEN front[k] ELSE one[k - n]
      BY <1>3, <1>5, <2>1, <2>2, Joined
    <2>. QED  BY <2>2, <2>3
  <1>7. PICK whole :
           /\ whole \in Seq(S)
           /\ whole = upTo \o back
           /\ Len(whole) = Len(s) + 1
           /\ \A k \in 1 .. Len(s) + 1 :
                 whole[k] = IF k <= at THEN upTo[k] ELSE back[k - at]
    <2>1. /\ at \in Nat /\ Len(s) + 1 \in Nat /\ Len(upTo) = at
          /\ Len(back) = Len(s) - n /\ upTo \in Seq(S) /\ back \in Seq(S)
      BY <1>1, <1>4, <1>6
    <2>2. PICK n1 \in Nat : n1 = Len(s) + 1 /\ Len(upTo) + Len(back) = n1
      BY <1>1, <1>2, <2>1
    <2>3. /\ upTo \o back \in Seq(S)
          /\ Len(upTo \o back) = n1
          /\ \A k \in 1 .. n1 :
                (upTo \o back)[k] = IF k <= at THEN upTo[k] ELSE back[k - at]
      BY <2>1, <2>2, Joined
    <2>. QED  BY <2>2, <2>3
  <1>8. InsertAt(s, at, e) = whole
    BY <1>2, <1>3, <1>4, <1>5, <1>6, <1>7 DEF InsertAt
  <1>9. ASSUME NEW k \in 1 .. Len(s) + 1
        PROVE  whole[k] = IF k < at THEN s[k] ELSE IF k = at THEN e ELSE s[k - 1]
    <2>1. k \in Int /\ at \in Int
      BY <1>1
    <2>2. CASE k < at
      <3>1. k \in 1 .. n /\ k <= at /\ k \in 1 .. at
        BY <1>1, <1>2, <2>1, <2>2
      <3>. QED  BY <1>3, <1>6, <1>7, <2>2, <3>1
    <2>3. CASE k = at
      <3>1. k \in 1 .. at /\ ~ (k <= n) /\ k - n = 1 /\ k <= at
        BY <1>1, <1>2, <2>1, <2>3
      <3>2. whole[k] = upTo[k]
        BY <1>7, <3>1
      <3>3. upTo[k] = one[k - n]
        BY <1>6, <3>1
      <3>4. one[k - n] = e
        BY <1>5, <3>1
      <3>5. ~ (k < at)
        BY <2>1, <2>3
      <3>. QED  BY <2>3, <3>2, <3>3, <3>4, <3>5
    <2>4. CASE k > at
      <3>1. k - at \in 1 .. Len(s) - n /\ n + (k - at) = k - 1
        BY <1>1, <1>2, <2>1, <2>4
      <3>2. ~ (k <= at) /\ ~ (k < at) /\ k # at
        BY <2>1, <2>4
      <3>. QED  BY <1>4, <1>7, <3>1, <3>2
    <2>5. k < at \/ k = at \/ k > at
      BY <2>1
    <2>. QED  BY <2>2, <2>3, <2>4, <2>5
  <1>10. DOMAIN whole = 1 .. Len(s) + 1
    BY <1>7, LenProperties
  <1>. QED  BY <1>7, <1>8, <1>9, <1>10

LEMMA Removed ==
    ASSUME NEW S, NEW s \in Seq(S), NEW at \in 1 .. Len(s)
    PROVE  /\ RemoveAt(s, at) \in Seq(S)
           /\ Len(RemoveAt(s, at)) = Len(s) - 1
           /\ DOMAIN RemoveAt(s, at) = 1 .. Len(s) - 1
           /\ \A k \in 1 .. Len(s) - 1 :
                 RemoveAt(s, at)[k] = IF k < at THEN s[k] ELSE s[k + 1]
  <1>1. Len(s) \in Nat
    BY LenProperties
  <1>2. PICK n \in 0 .. Len(s) : n = at - 1
    BY <1>1
  <1>3. PICK front :
           /\ front \in Seq(S)
           /\ front = SubSeq(s, 1, n)
           /\ Len(front) = n
           /\ \A k \in 1 .. n : front[k] = s[k]
    <2>1. /\ SubSeq(s, 1, n) \in Seq(S)
          /\ Len(SubSeq(s, 1, n)) = n
          /\ \A k \in 1 .. n : SubSeq(s, 1, n)[k] = s[k]
      BY FirstPart
    <2>. QED  BY <2>1
  <1>4. PICK back :
           /\ back \in Seq(S)
           /\ back = SubSeq(s, at + 1, Len(s))
           /\ Len(back) = Len(s) - at
           /\ \A k \in 1 .. Len(s) - at : back[k] = s[at + k]
    <2>1. at \in 0 .. Len(s)
      BY <1>1
    <2>2. /\ SubSeq(s, at + 1, Len(s)) \in Seq(S)
          /\ Len(SubSeq(s, at + 1, Len(s))) = Len(s) - at
          /\ \A k \in 1 .. Len(s) - at : SubSeq(s, at + 1, Len(s))[k] = s[at + k]
      BY <2>1, LastPart
    <2>. QED  BY <2>2
  <1>5. PICK whole :
           /\ whole \in Seq(S)
           /\ whole = front \o back
           /\ Len(whole) = Len(s) - 1
           /\ \A k \in 1 .. Len(s) - 1 :
                 whole[k] = IF k <= n THEN front[k] ELSE back[k - n]
    <2>1. /\ n \in Nat /\ Len(s) - 1 \in Nat /\ Len(front) = n
          /\ Len(back) = Len(s) - at /\ front \in Seq(S) /\ back \in Seq(S)
      BY <1>1, <1>3, <1>4
    <2>2. PICK n1 \in Nat : n1 = Len(s) - 1 /\ Len(front) + Len(back) = n1
      <3>1. at \in Nat /\ n + 1 = at
        BY <1>1, <1>2
      <3>2. n + (Len(s) - at) = Len(s) - 1
        BY <1>1, <2>1, <3>1
      <3>. QED  BY <2>1, <3>2
    <2>3. /\ front \o back \in Seq(S)
          /\ Len(front \o back) = n1
          /\ \A k \in 1 .. n1 :
                (front \o back)[k] = IF k <= n THEN front[k] ELSE back[k - n]
      BY <2>1, <2>2, Joined
    <2>. QED  BY <2>2, <2>3
  <1>6. RemoveAt(s, at) = whole
    BY <1>2, <1>3, <1>4, <1>5 DEF RemoveAt
  <1>7. ASSUME NEW k \in 1 .. Len(s) - 1
        PROVE  whole[k] = IF k < at THEN s[k] ELSE s[k + 1]
    <2>1. k \in Int /\ at \in Int
      BY <1>1
    <2>2. CASE k < at
      <3>1. k \in 1 .. n /\ k <= n
        BY <1>1, <1>2, <2>1, <2>2
      <3>. QED  BY <1>3, <1>5, <2>2, <3>1
    <2>3. CASE k >= at
      <3>1. k - n \in 1 .. Len(s) - at /\ at + (k - n) = k + 1
        BY <1>1, <1>2, <2>1, <2>3
      <3>2. ~ (k <= n) /\ ~ (k < at)
        BY <1>1, <1>2, <2>1, <2>3
      <3>. QED  BY <1>4, <1>5, <3>1, <3>2
    <2>4. k < at \/ k >= at
      BY <2>1
    <2>. QED  BY <2>2, <2>3, <2>4
  <1>8. DOMAIN whole = 1 .. Len(s) - 1
    BY <1>5, LenProperties
  <1>. QED  BY <1>5, <1>6, <1>7, <1>8
-----------------------------------------------------------------------------
(* The order of a command's life.                                          *)
LEMMA Ranks ==
    ASSUME NEW e \in Events
    PROVE  LifecycleRank(e.kind) \in 0 .. 3
  BY DEF Events, Kinds, LifecycleRank

LEMMA BeforeIsStrict ==
    ASSUME NEW e \in Events, NEW f \in Events, NEW g \in Events
    PROVE  /\ ~ (Before(e, f) /\ Before(f, e))
           /\ Before(e, f) /\ Before(f, g) => Before(e, g)
  BY Ranks DEF Before

(* What holds of every queue: statuses, each once, in their order.         *)
Single(s) == \A j, k \in DOMAIN s : s[j] = s[k] => j = k

Ordered(s) == \A j, k \in DOMAIN s : j < k => ~ Before(s[k], s[j])

Sound(s) == s \in Seq(Events) /\ Single(s) /\ Ordered(s)

Members(s) == {s[k] : k \in DOMAIN s}

LEMMA RemovedSound ==
    ASSUME NEW s \in Seq(Events), Sound(s), NEW at \in 1 .. Len(s)
    PROVE  Sound(RemoveAt(s, at))
  <1>1. PICK n \in Nat : n = Len(s) /\ DOMAIN s = 1 .. n /\ at \in 1 .. n
    BY LenProperties
  <1>2. PICK r : r = RemoveAt(s, at)
    OBVIOUS
  <1>3. r \in Seq(Events) /\ DOMAIN r = 1 .. n - 1
    BY <1>1, <1>2, Removed
  <1>4. PICK old \in [1 .. n - 1 -> 1 .. n] :
           \A k \in 1 .. n - 1 : old[k] = IF k < at THEN k ELSE k + 1
    <2>. DEFINE old == [k \in 1 .. n - 1 |-> IF k < at THEN k ELSE k + 1]
    <2>1. old \in [1 .. n - 1 -> 1 .. n]
      BY <1>1
    <2>2. \A k \in 1 .. n - 1 : old[k] = IF k < at THEN k ELSE k + 1
      OBVIOUS
    <2>. QED  BY <2>1, <2>2
  <1>5. \A k \in 1 .. n - 1 : r[k] = s[old[k]]
    <2>1. \A k \in 1 .. n - 1 : r[k] = IF k < at THEN s[k] ELSE s[k + 1]
      BY <1>1, <1>2, Removed
    <2>. QED  BY <1>4, <2>1
  <1>6. \A j, k \in 1 .. n - 1 :
           (j < k => old[j] < old[k]) /\ (old[j] = old[k] => j = k)
    BY <1>1, <1>4
  <1>7. Single(r)
    BY <1>1, <1>3, <1>4, <1>5, <1>6 DEF Single, Sound
  <1>8. Ordered(r)
    <2>1. \A j, k \in 1 .. n : j < k => ~ Before(s[k], s[j])
      BY <1>1 DEF Sound, Ordered
    <2>2. ASSUME NEW j \in 1 .. n - 1, NEW k \in 1 .. n - 1, j < k
          PROVE  ~ Before(r[k], r[j])
      <3>1. old[j] \in 1 .. n /\ old[k] \in 1 .. n /\ old[j] < old[k]
        BY <1>4, <1>6, <2>2
      <3>2. r[j] = s[old[j]] /\ r[k] = s[old[k]]
        BY <1>5
      <3>. QED  BY <2>1, <3>1, <3>2
    <2>. QED  BY <1>3, <2>2 DEF Ordered
  <1>. QED  BY <1>2, <1>3, <1>7, <1>8 DEF Sound

LEMMA InsertedSound ==
    ASSUME NEW s \in Seq(Events), Sound(s), NEW e \in Events,
           NEW at \in 1 .. Len(s) + 1,
           \A k \in 1 .. Len(s) : s[k] # e,
           \A k \in 1 .. Len(s) : k < at => ~ Before(e, s[k]),
           \A k \in 1 .. Len(s) : k >= at => ~ Before(s[k], e)
    PROVE  Sound(InsertAt(s, at, e))
  <1>1. PICK n \in Nat : n = Len(s) /\ DOMAIN s = 1 .. n /\ at \in 1 .. n + 1
    BY LenProperties
  <1>2. PICK r : r = InsertAt(s, at, e)
    OBVIOUS
  <1>3. r \in Seq(Events) /\ DOMAIN r = 1 .. n + 1
    BY <1>1, <1>2, Inserted
  <1>4. \A k \in 1 .. n + 1 :
           r[k] = IF k < at THEN s[k] ELSE IF k = at THEN e ELSE s[k - 1]
    BY <1>1, <1>2, Inserted
  <1>5. r[at] = e
    BY <1>1, <1>4
  <1>6. \A k \in 1 .. n + 1 : k < at => k \in 1 .. n /\ r[k] = s[k]
    BY <1>1, <1>4
  <1>7. \A k \in 1 .. n + 1 : k > at => k - 1 \in 1 .. n /\ k - 1 >= at /\ r[k] = s[k - 1]
    BY <1>1, <1>4
  <1>8. \A j, k \in 1 .. n : s[j] = s[k] => j = k
    BY <1>1 DEF Sound, Single
  <1>9. \A j, k \in 1 .. n : j < k => ~ Before(s[k], s[j])
    BY <1>1 DEF Sound, Ordered
  <1>10. ASSUME NEW j \in 1 .. n + 1, NEW k \in 1 .. n + 1, j < k
         PROVE  r[j] # r[k] /\ ~ Before(r[k], r[j])
    <2>1. j \in Int /\ k \in Int /\ at \in Int
      BY <1>1
    <2>2. CASE k < at
      <3>1. j < at
        BY <1>10, <2>1, <2>2
      <3>. QED  BY <1>6, <1>8, <1>9, <1>10, <2>1, <2>2, <3>1
    <2>3. CASE k = at
      <3>1. j < at
        BY <1>10, <2>3
      <3>. QED  BY <1>1, <1>5, <1>6, <2>3, <3>1
    <2>4. CASE k > at /\ j < at
      <3>1. j < k - 1
        BY <2>1, <2>4
      <3>2. j # k - 1
        BY <2>1, <3>1
      <3>. QED  BY <1>6, <1>7, <1>8, <1>9, <2>4, <3>1, <3>2
    <2>5. CASE k > at /\ j = at
      BY <1>1, <1>5, <1>7, <2>5
    <2>6. CASE k > at /\ j > at
      <3>1. j - 1 < k - 1 /\ j - 1 # k - 1
        BY <1>10, <2>1
      <3>. QED  BY <1>7, <1>8, <1>9, <2>6, <3>1
    <2>7. k < at \/ k = at \/ (k > at /\ (j < at \/ j = at \/ j > at))
      BY <2>1
    <2>. QED  BY <2>2, <2>3, <2>4, <2>5, <2>6, <2>7
  <1>11. \A j, k \in 1 .. n + 1 : j < k \/ k < j \/ j = k
    BY <1>1
  <1>12. Single(r)
    BY <1>3, <1>10, <1>11 DEF Single
  <1>13. Ordered(r)
    BY <1>3, <1>10 DEF Ordered
  <1>. QED  BY <1>2, <1>3, <1>12, <1>13 DEF Sound

(* The place enqueue_ picks keeps the order: every status behind it of the *)
(* same command belongs later.                                             *)
LEMMA InsertionFits ==
    ASSUME Sound(events), NEW event \in Events,
           NEW at \in 1 .. Len(events) + 1, IsInsertion(event, at),
           NEW k \in 1 .. Len(events), k >= at
    PROVE  ~ Before(events[k], event)
  <1>1. Len(events) \in Nat /\ DOMAIN events = 1 .. Len(events)
    BY LenProperties DEF Sound
  <1>2. at \in 1 .. Len(events) /\ Before(event, events[at])
    BY <1>1 DEF IsInsertion
  <1>3. events[at] \in Events /\ events[k] \in Events
    BY <1>2, ElementOfSeq DEF Sound
  <1>4. CASE k = at
    BY <1>2, <1>3, <1>4, BeforeIsStrict
  <1>5. CASE k > at
    <2>1. ~ Before(events[k], events[at])
      BY <1>1, <1>2, <1>5 DEF Sound, Ordered
    <2>. QED  BY <1>2, <1>3, <2>1, BeforeIsStrict
  <1>6. k = at \/ k > at
    BY <1>1, <1>2
  <1>. QED  BY <1>4, <1>5, <1>6
-----------------------------------------------------------------------------
(* The queue as the set of statuses that wait.                             *)
LEMMA MembersCount ==
    ASSUME NEW s \in Seq(Events), Single(s)
    PROVE  IsFiniteSet(Members(s)) /\ Cardinality(Members(s)) = Len(s)
  <1>1. Len(s) \in Nat /\ s \in [1 .. Len(s) -> Events] /\ DOMAIN s = 1 .. Len(s)
    BY LenProperties
  <1>2. s \in Surjection(1 .. Len(s), Members(s)) /\ s \in Injection(1 .. Len(s), Members(s))
    <2>1. s \in [1 .. Len(s) -> Members(s)]
      BY <1>1 DEF Members
    <2>2. \A x \in Members(s) : \E k \in 1 .. Len(s) : s[k] = x
      BY <1>1 DEF Members
    <2>3. \A j, k \in 1 .. Len(s) : s[j] = s[k] => j = k
      BY <1>1 DEF Single
    <2>. QED  BY <1>1, <2>1, <2>2, <2>3 DEF Surjection, Injection, IsInjective
  <1>3. IsFiniteSet(1 .. Len(s)) /\ Cardinality(1 .. Len(s)) = Len(s)
    BY <1>1, FS_Interval
  <1>. QED  BY <1>2, <1>3, FS_Surjection

LEMMA InsertedMembers ==
    ASSUME NEW s \in Seq(Events), NEW e \in Events, NEW at \in 1 .. Len(s) + 1
    PROVE  Members(InsertAt(s, at, e)) = Members(s) \cup {e}
  <1>1. PICK n \in Nat : n = Len(s) /\ DOMAIN s = 1 .. n /\ at \in 1 .. n + 1
    BY LenProperties
  <1>2. PICK r : r = InsertAt(s, at, e)
    OBVIOUS
  <1>3. /\ DOMAIN r = 1 .. n + 1
        /\ \A k \in 1 .. n + 1 :
              r[k] = IF k < at THEN s[k] ELSE IF k = at THEN e ELSE s[k - 1]
    <2>1. DOMAIN r = 1 .. n + 1
      BY <1>1, <1>2, Inserted
    <2>2. \A k \in 1 .. n + 1 :
             r[k] = IF k < at THEN s[k] ELSE IF k = at THEN e ELSE s[k - 1]
      BY <1>1, <1>2, Inserted
    <2>. QED  BY <2>1, <2>2
  <1>4. r[at] = e
    BY <1>1, <1>3
  <1>5. ASSUME NEW k \in 1 .. n + 1
        PROVE  r[k] = e \/ \E j \in 1 .. n : r[k] = s[j]
    <2>1. k < at => k \in 1 .. n /\ r[k] = s[k]
      BY <1>1, <1>3
    <2>2. k > at => k - 1 \in 1 .. n /\ r[k] = s[k - 1]
      BY <1>1, <1>3
    <2>3. k < at \/ k = at \/ k > at
      BY <1>1
    <2>. QED  BY <1>4, <2>1, <2>2, <2>3
  <1>6. ASSUME NEW j \in 1 .. n
        PROVE  \E k \in 1 .. n + 1 : r[k] = s[j]
    <2>1. j < at => j \in 1 .. n + 1 /\ r[j] = s[j]
      BY <1>1, <1>3
    <2>2. ~ (j < at) => j + 1 \in 1 .. n + 1 /\ r[j + 1] = s[j]
      <3>1. ASSUME ~ (j < at)
            PROVE  /\ j + 1 \in 1 .. n + 1 /\ (j + 1) - 1 = j
                   /\ ~ (j + 1 < at) /\ j + 1 # at
        BY <1>1, <3>1
      <3>2. ASSUME NEW k \in 1 .. n + 1, ~ (k < at), k # at
            PROVE  r[k] = s[k - 1]
        BY <1>3, <3>2
      <3>. QED  BY <3>1, <3>2
    <2>. QED  BY <2>1, <2>2
  <1>7. Members(s) = {s[k] : k \in 1 .. n} /\ Members(r) = {r[k] : k \in 1 .. n + 1}
    BY <1>1, <1>3 DEF Members
  <1>8. at \in 1 .. n + 1
    BY <1>1
  <1>9. ASSUME NEW x
        PROVE  x \in Members(r) <=> x \in Members(s) \cup {e}
    BY <1>4, <1>5, <1>6, <1>7, <1>8
  <1>. QED  BY <1>2, <1>9

LEMMA RemovedMembers ==
    ASSUME NEW s \in Seq(Events), Single(s), NEW at \in 1 .. Len(s)
    PROVE  Members(RemoveAt(s, at)) = Members(s) \ {s[at]}
  <1>1. PICK n \in Nat : n = Len(s) /\ DOMAIN s = 1 .. n /\ at \in 1 .. n
    BY LenProperties
  <1>2. PICK r : r = RemoveAt(s, at)
    OBVIOUS
  <1>3. /\ DOMAIN r = 1 .. n - 1
        /\ \A k \in 1 .. n - 1 : r[k] = IF k < at THEN s[k] ELSE s[k + 1]
    <2>1. DOMAIN r = 1 .. n - 1
      BY <1>1, <1>2, Removed
    <2>2. \A k \in 1 .. n - 1 : r[k] = IF k < at THEN s[k] ELSE s[k + 1]
      BY <1>1, <1>2, Removed
    <2>. QED  BY <2>1, <2>2
  <1>4. ASSUME NEW k \in 1 .. n - 1
        PROVE  \E j \in 1 .. n : j # at /\ r[k] = s[j]
    <2>1. k < at => k \in 1 .. n /\ k # at /\ r[k] = s[k]
      BY <1>1, <1>3
    <2>2. ~ (k < at) => k + 1 \in 1 .. n /\ k + 1 # at /\ r[k] = s[k + 1]
      BY <1>1, <1>3
    <2>. QED  BY <2>1, <2>2
  <1>5. ASSUME NEW j \in 1 .. n, j # at
        PROVE  \E k \in 1 .. n - 1 : r[k] = s[j]
    <2>1. j < at => j \in 1 .. n - 1 /\ r[j] = s[j]
      BY <1>1, <1>3
    <2>2. ~ (j < at) => j - 1 \in 1 .. n - 1 /\ r[j - 1] = s[j]
      <3>1. ASSUME ~ (j < at)
            PROVE  j - 1 \in 1 .. n - 1 /\ (j - 1) + 1 = j /\ ~ (j - 1 < at)
        BY <1>1, <1>5, <3>1
      <3>2. ASSUME NEW k \in 1 .. n - 1, ~ (k < at)
            PROVE  r[k] = s[k + 1]
        BY <1>3, <3>2
      <3>. QED  BY <3>1, <3>2
    <2>. QED  BY <2>1, <2>2
  <1>6. \A j \in 1 .. n : s[j] = s[at] => j = at
    BY <1>1 DEF Single
  <1>7. Members(s) = {s[k] : k \in 1 .. n} /\ Members(r) = {r[k] : k \in 1 .. n - 1}
    BY <1>1, <1>3 DEF Members
  <1>8. ASSUME NEW x
        PROVE  x \in Members(r) <=> x \in Members(s) \ {s[at]}
    <2>1. ASSUME x \in Members(r)
          PROVE  x \in Members(s) \ {s[at]}
      <3>1. PICK k \in 1 .. n - 1 : x = r[k]
        BY <1>7, <2>1
      <3>2. PICK j \in 1 .. n : j # at /\ x = s[j]
        BY <1>4, <3>1
      <3>. QED  BY <1>6, <1>7, <3>2
    <2>2. ASSUME x \in Members(s) \ {s[at]}
          PROVE  x \in Members(r)
      <3>1. PICK j \in 1 .. n : x = s[j]
        BY <1>7, <2>2
      <3>2. PICK k \in 1 .. n - 1 : r[k] = x
        BY <1>5, <2>2, <3>1
      <3>. QED  BY <1>7, <3>2
    <2>. QED  BY <2>1, <2>2
  <1>. QED  BY <1>2, <1>8
-----------------------------------------------------------------------------
(* What each call does to the queue.                                       *)
IInv == TypeOK /\ RankOrdered

LEMMA QueueFacts ==
    ASSUME IInv
    PROVE  /\ Sound(events)
           /\ Len(events) \in 0 .. Capacity
           /\ DOMAIN events = 1 .. Len(events)
           /\ Capacity \in Nat \ {0}
  BY OutboxAssumption, LenProperties
  DEF IInv, TypeOK, RankOrdered, Sound, Single, Ordered

LEMMA InsertKeeps ==
    ASSUME IInv, NEW event \in Events, Insert(event)
    PROVE  /\ Sound(events')
           /\ Len(events') = Len(events) + 1
           /\ Members(events') = Members(events) \cup {event}
  <1>1. PICK at \in 1 .. Len(events) + 1 :
           IsInsertion(event, at) /\ events' = InsertAt(events, at, event)
    BY DEF Insert, Insertions
  <1>2. \A k \in 1 .. Len(events) : events[k] # event
    BY QueueFacts DEF Insert, Queued
  <1>3. \A k \in 1 .. Len(events) : k < at => ~ Before(event, events[k])
    BY <1>1, QueueFacts DEF IsInsertion
  <1>4. \A k \in 1 .. Len(events) : k >= at => ~ Before(events[k], event)
    BY <1>1, QueueFacts, InsertionFits
  <1>5. events \in Seq(Events) /\ Sound(events)
    BY QueueFacts DEF Sound
  <1>6. Sound(InsertAt(events, at, event))
    BY <1>2, <1>3, <1>4, <1>5, InsertedSound
  <1>7. Len(InsertAt(events, at, event)) = Len(events) + 1
    BY <1>5, Inserted
  <1>8. Members(InsertAt(events, at, event)) = Members(events) \cup {event}
    BY <1>5, InsertedMembers
  <1>. QED  BY <1>1, <1>6, <1>7, <1>8

(* Evicting shifts what stood behind the victim and the place alike.       *)
LEMMA EvictingKeeps ==
    ASSUME IInv, NEW event \in Events, InsertEvicting(event)
    PROVE  /\ Sound(events')
           /\ Len(events') = Len(events)
           /\ \E victim \in DOMAIN events :
                 /\ IsVictim(victim)
                 /\ Members(events')
                       = (Members(events) \ {events[victim]}) \cup {event}
  <1>1. PICK at \in 1 .. Len(events) + 1, victim \in 1 .. Len(events) :
           /\ IsInsertion(event, at)
           /\ IsVictim(victim)
           /\ events' = InsertAt(Erased(victim), IF at > victim THEN at - 1 ELSE at, event)
    BY QueueFacts DEF InsertEvicting, Insertions
  <1>2. events \in Seq(Events) /\ Sound(events)
    BY QueueFacts DEF Sound
  <1>3. PICK n \in Nat : n = Len(events) /\ DOMAIN events = 1 .. n
    <2>1. Len(events) \in Nat
      BY QueueFacts
    <2>. QED  BY <2>1, QueueFacts
  <1>4. PICK r : r = RemoveAt(events, victim)
    OBVIOUS
  <1>5. r \in Seq(Events) /\ Sound(r) /\ Len(r) = n - 1
    BY <1>1, <1>2, <1>3, <1>4, RemovedSound, Removed DEF Sound
  <1>6. \A k \in 1 .. n - 1 : r[k] = IF k < victim THEN events[k] ELSE events[k + 1]
    BY <1>1, <1>2, <1>3, <1>4, Removed
  <1>7. PICK a \in 1 .. n : a = IF at > victim THEN at - 1 ELSE at
    BY <1>1, <1>3
  <1>8. events' = InsertAt(r, a, event)
    BY <1>1, <1>4, <1>7 DEF Erased
  <1>9. \A k \in 1 .. n : events[k] # event
    BY <1>3 DEF InsertEvicting, Queued
  <1>10. \A k \in 1 .. n : k < at => ~ Before(event, events[k])
    BY <1>1, <1>3 DEF IsInsertion
  <1>11. \A k \in 1 .. n : k >= at => ~ Before(events[k], event)
    BY <1>1, <1>2, <1>3, InsertionFits
  <1>12. ASSUME NEW k \in 1 .. n - 1
         PROVE  /\ r[k] # event
                /\ k < a => ~ Before(event, r[k])
                /\ k >= a => ~ Before(r[k], event)
    <2>1. PICK j \in 1 .. n : /\ j = IF k < victim THEN k ELSE k + 1
                              /\ r[k] = events[j]
      <3>1. k < victim => k \in 1 .. n
        BY <1>3
      <3>2. ~ (k < victim) => k + 1 \in 1 .. n
        BY <1>3
      <3>. QED  BY <1>6, <3>1, <3>2
    <2>2. k < a => j < at
      BY <1>1, <1>3, <1>7, <2>1
    <2>3. k >= a => j >= at
      BY <1>1, <1>3, <1>7, <2>1
    <2>. QED  BY <1>9, <1>10, <1>11, <2>1, <2>2, <2>3
  <1>13. PICK m \in Nat : m = Len(r) /\ m = n - 1 /\ a \in 1 .. m + 1
    BY <1>3, <1>5, <1>7, LenProperties
  <1>14. Sound(InsertAt(r, a, event))
    BY <1>5, <1>12, <1>13, InsertedSound
  <1>15. Len(InsertAt(r, a, event)) = n
    BY <1>5, <1>3, <1>13, Inserted
  <1>16. Members(InsertAt(r, a, event)) = Members(r) \cup {event}
    BY <1>5, <1>13, InsertedMembers
  <1>17. Members(r) = Members(events) \ {events[victim]}
    BY <1>1, <1>2, <1>4, RemovedMembers DEF Sound
  <1>. QED  BY <1>1, <1>3, <1>8, <1>14, <1>15, <1>16, <1>17

LEMMA FlushKeeps ==
    ASSUME IInv, NEW published \in 1 .. Len(events),
           sent' = SubSeq(events, 1, published),
           events' = SubSeq(events, published + 1, Len(events))
    PROVE  /\ Sound(events') /\ Len(events') \in 0 .. Capacity
           /\ sent' \in Seq(Events)
           /\ \A x : x \in Members(events') <=> x \in Members(events) \ Members(sent')
           /\ Members(sent') \subseteq Members(events)
           /\ \A d \in Members(sent'), p \in Members(events) \ Members(sent') :
                 ~ Before(p, d)
  <1>1. events \in Seq(Events) /\ Single(events) /\ Ordered(events)
    BY QueueFacts DEF Sound
  <1>2. PICK n \in Nat : n = Len(events) /\ DOMAIN events = 1 .. n /\ n <= Capacity
    <2>1. Len(events) \in Nat /\ Len(events) <= Capacity
      BY QueueFacts
    <2>. QED  BY <2>1, QueueFacts
  <1>3. published \in 1 .. n /\ published \in 0 .. Len(events)
    BY <1>2
  <1>4. PICK f : /\ f = sent' /\ f \in Seq(Events) /\ Len(f) = published
                 /\ \A k \in 1 .. published : f[k] = events[k]
    <2>1. /\ SubSeq(events, 1, published) \in Seq(Events)
          /\ Len(SubSeq(events, 1, published)) = published
          /\ \A k \in 1 .. published : SubSeq(events, 1, published)[k] = events[k]
      BY <1>1, <1>3, FirstPart
    <2>. QED  BY <2>1
  <1>5. PICK b : /\ b = events' /\ b \in Seq(Events) /\ Len(b) = n - published
                 /\ \A k \in 1 .. n - published : b[k] = events[published + k]
    <2>1. /\ SubSeq(events, published + 1, Len(events)) \in Seq(Events)
          /\ Len(SubSeq(events, published + 1, Len(events))) = Len(events) - published
          /\ \A k \in 1 .. Len(events) - published :
                SubSeq(events, published + 1, Len(events))[k] = events[published + k]
      BY <1>1, <1>3, LastPart
    <2>. QED  BY <1>2, <2>1
  <1>6. DOMAIN f = 1 .. published /\ DOMAIN b = 1 .. n - published
    BY <1>4, <1>5, LenProperties
  <1>7. \A j, k \in 1 .. n : (events[j] = events[k] => j = k)
    BY <1>1, <1>2 DEF Single
  <1>8. \A j, k \in 1 .. n : j < k => ~ Before(events[k], events[j])
    BY <1>1, <1>2 DEF Ordered
  <1>9. \A k \in 1 .. n - published : published + k \in 1 .. n
    BY <1>2, <1>3
  <1>10. Single(b)
    <2>1. ASSUME NEW j \in 1 .. n - published, NEW k \in 1 .. n - published, b[j] = b[k]
          PROVE  j = k
      <3>1. events[published + j] = events[published + k]
        BY <1>5, <2>1
      <3>2. published + j = published + k
        BY <1>7, <1>9, <3>1
      <3>. QED  BY <1>2, <1>3, <3>2
    <2>. QED  BY <1>6, <2>1 DEF Single
  <1>11. Ordered(b)
    <2>1. ASSUME NEW j \in 1 .. n - published, NEW k \in 1 .. n - published, j < k
          PROVE  ~ Before(b[k], b[j])
      <3>1. published + j < published + k
        BY <1>2, <1>3, <2>1
      <3>. QED  BY <1>5, <1>8, <1>9, <3>1
    <2>. QED  BY <1>6, <2>1 DEF Ordered
  <1>12. Members(f) = {f[k] : k \in 1 .. published}
    BY <1>6 DEF Members
  <1>13. Members(b) = {b[k] : k \in 1 .. n - published}
    BY <1>6 DEF Members
  <1>14. Members(events) = {events[k] : k \in 1 .. n}
    BY <1>2 DEF Members
  <1>15. \A k \in 1 .. n : events[k] \in Members(f) <=> k <= published
    <2>1. ASSUME NEW k \in 1 .. n, k <= published
          PROVE  events[k] \in Members(f)
      <3>1. k \in 1 .. published
        BY <1>3, <2>1
      <3>. QED  BY <1>4, <1>12, <3>1
    <2>2. ASSUME NEW k \in 1 .. n, events[k] \in Members(f)
          PROVE  k <= published
      <3>1. PICK j \in 1 .. published : events[k] = f[j]
        BY <1>12, <2>2
      <3>2. j \in 1 .. n /\ events[j] = events[k]
        BY <1>2, <1>3, <1>4, <3>1
      <3>3. j = k
        BY <1>7, <3>2
      <3>. QED  BY <3>3
    <2>. QED  BY <2>1, <2>2
  <1>16. Members(f) \subseteq Members(events)
    <2>1. \A k \in 1 .. published : k \in 1 .. n
      BY <1>2, <1>3
    <2>. QED  BY <1>4, <1>12, <1>14, <2>1
  <1>17. ASSUME NEW x
         PROVE  x \in Members(b) <=> x \in Members(events) \ Members(f)
    <2>1. ASSUME x \in Members(b)
          PROVE  x \in Members(events) \ Members(f)
      <3>1. PICK k \in 1 .. n - published : x = events[published + k]
        BY <1>5, <1>13, <2>1
      <3>2. ~ (published + k <= published)
        BY <1>2, <1>3
      <3>. QED  BY <1>9, <1>14, <1>15, <3>1, <3>2
    <2>2. ASSUME x \in Members(events) \ Members(f)
          PROVE  x \in Members(b)
      <3>1. PICK k \in 1 .. n : x = events[k]
        BY <1>14, <2>2
      <3>2. ~ (k <= published)
        BY <1>15, <2>2, <3>1
      <3>3. k - published \in 1 .. n - published /\ published + (k - published) = k
        BY <1>2, <1>3, <3>2
      <3>. QED  BY <1>5, <1>13, <3>1, <3>3
    <2>. QED  BY <2>1, <2>2
  <1>18. ASSUME NEW d \in Members(f), NEW p \in Members(events) \ Members(f)
         PROVE  ~ Before(p, d)
    <2>1. PICK j \in 1 .. published : d = events[j]
      BY <1>4, <1>12
    <2>2. PICK k \in 1 .. n : p = events[k]
      BY <1>14
    <2>3. ~ (k <= published)
      BY <1>15, <2>2
    <2>4. j \in 1 .. n /\ j < k
      BY <1>2, <1>3, <2>3
    <2>. QED  BY <1>8, <2>1, <2>2, <2>4
  <1>19. n - published \in 0 .. Capacity
    BY <1>2, <1>3, OutboxAssumption
  <1>. QED  BY <1>4, <1>5, <1>10, <1>11, <1>16, <1>17, <1>18, <1>19 DEF Sound
-----------------------------------------------------------------------------
(* The invariant.                                                          *)
LEMMA SoundIsInvariant ==
    ASSUME Sound(events'), Len(events') \in 0 .. Capacity,
           droppedCount' \in 0 .. MaxDropped, sent' \in Seq(Events)
    PROVE  IInv'
  <1>1. Len(events') <= Capacity
    BY OutboxAssumption
  <1>. QED  BY <1>1 DEF IInv, TypeOK, RankOrdered, Sound, Single, Ordered

LEMMA InitInv == Init => IInv
  <1>1. SUFFICES ASSUME Init PROVE IInv
    OBVIOUS
  <1>2. events \in Seq(Events) /\ Len(events) = 0 /\ sent \in Seq(Events)
    BY <1>1, EmptySeq DEF Init
  <1>3. DOMAIN events = {}
    BY <1>1 DEF Init
  <1>4. droppedCount \in 0 .. MaxDropped /\ 0 <= Capacity
    BY <1>1, OutboxAssumption DEF Init
  <1>. QED  BY <1>2, <1>3, <1>4 DEF IInv, TypeOK, RankOrdered

LEMMA NextInv == IInv /\ [Next]_outboxVars => IInv'
  <1>1. SUFFICES ASSUME IInv, [Next]_outboxVars PROVE IInv'
    OBVIOUS
  <1>2. /\ Sound(events) /\ Len(events) \in 0 .. Capacity
        /\ droppedCount \in 0 .. MaxDropped /\ sent \in Seq(Events)
    BY <1>1, QueueFacts DEF IInv, TypeOK
  <1>3. << >> \in Seq(Events)
    BY EmptySeq
  <1>4. ASSUME NEW event \in Events, PublishNow(event)
        PROVE  IInv'
    <2>1. events' = events /\ droppedCount' = droppedCount
      BY <1>4 DEF PublishNow
    <2>2. sent' \in Seq(Events)
      BY <1>4 DEF PublishNow
    <2>. QED  BY <1>2, <2>1, <2>2, SoundIsInvariant
  <1>5. ASSUME NEW event \in Events, sent' = << >>, Coalesce(event) \/ DiscardCompletion(event)
        PROVE  IInv'
    <2>1. events' = events /\ droppedCount' = droppedCount
      BY <1>5 DEF Coalesce, DiscardCompletion
    <2>. QED  BY <1>2, <1>3, <1>5, <2>1, SoundIsInvariant
  <1>6. ASSUME NEW event \in Events, sent' = << >>, Insert(event)
        PROVE  IInv'
    <2>1. Len(events) < Capacity /\ droppedCount' = droppedCount
      BY <1>6 DEF Insert
    <2>2. Sound(events') /\ Len(events') = Len(events) + 1
      BY <1>1, <1>6, InsertKeeps
    <2>3. Len(events') \in 0 .. Capacity
      BY <1>2, <2>1, <2>2, OutboxAssumption
    <2>. QED  BY <1>2, <1>3, <1>6, <2>1, <2>2, <2>3, SoundIsInvariant
  <1>7. ASSUME NEW event \in Events, sent' = << >>, InsertEvicting(event)
        PROVE  IInv'
    <2>1. Sound(events') /\ Len(events') = Len(events)
      BY <1>1, <1>7, EvictingKeeps
    <2>2. droppedCount' \in 0 .. MaxDropped
      BY <1>2, <1>7, OutboxAssumption DEF InsertEvicting
    <2>. QED  BY <1>2, <1>3, <1>7, <2>1, <2>2, SoundIsInvariant
  <1>8. CASE Flush
    <2>1. PICK published \in 1 .. Len(events) :
             /\ sent' = SubSeq(events, 1, published)
             /\ events' = SubSeq(events, published + 1, Len(events))
             /\ droppedCount' = droppedCount
      BY <1>8 DEF Flush
    <2>2. Sound(events') /\ Len(events') \in 0 .. Capacity /\ sent' \in Seq(Events)
      BY <1>1, <2>1, FlushKeeps
    <2>. QED  BY <1>2, <2>1, <2>2, SoundIsInvariant
  <1>9. CASE UNCHANGED outboxVars
    BY <1>2, <1>9, SoundIsInvariant DEF outboxVars
  <1>. QED  BY <1>1, <1>4, <1>5, <1>6, <1>7, <1>8, <1>9 DEF Next, Enqueue

LEMMA OutboxInv == Spec => []IInv
  BY InitInv, NextInv, PTL DEF Spec

(* TypeOK: the array is never overrun and a status waits once only.        *)
THEOREM OutboxTypes == Spec => []TypeOK
  <1>1. IInv => TypeOK
    BY DEF IInv
  <1>. QED  BY <1>1, OutboxInv, PTL

(* RankOrdered: through coalescing, eviction and flushing the statuses of  *)
(* a command wait in the order of its life (enqueue_).                     *)
THEOREM StatusesInOrder == Spec => []RankOrdered
  <1>1. IInv => RankOrdered
    BY DEF IInv
  <1>. QED  BY <1>1, OutboxInv, PTL
-----------------------------------------------------------------------------
(* The refinement of StatusBuffer.                                         *)
Pending == {events[k] : k \in DOMAIN events}
Delivered == {sent[k] : k \in DOMAIN sent}

(* StatusBuffer counts with the FiniteSets it extends.                     *)
LEMMA SameCount == \A S : Buffer!Cardinality(S) = Cardinality(S)
  BY Zenon DEF Cardinality, Buffer!Cardinality

LEMMA PendingFacts ==
    ASSUME IInv
    PROVE  /\ Pending = Members(events)
           /\ \A event : Queued(event) <=> event \in Pending
           /\ Buffer!Cardinality(Pending) = Len(events)
  <1>1. Pending = Members(events)
    BY DEF Pending, Members
  <1>2. \A event : Queued(event) <=> event \in Pending
    BY DEF Pending, Queued
  <1>3. Cardinality(Members(events)) = Len(events)
    BY QueueFacts, MembersCount DEF Sound
  <1>. QED  BY <1>1, <1>2, <1>3, SameCount

LEMMA InitRefines == Init => Buffer!Init
  <1>1. SUFFICES ASSUME Init PROVE Buffer!Init
    OBVIOUS
  <1>2. DOMAIN events = {} /\ DOMAIN sent = {}
    BY <1>1 DEF Init
  <1>. QED  BY <1>1, <1>2 DEF Init, Buffer!Init

LEMMA NextRefines == IInv /\ [Next]_outboxVars => [Buffer!Next]_Buffer!buffer
  <1>1. SUFFICES ASSUME IInv, [Next]_outboxVars
                 PROVE  [Buffer!Next]_Buffer!buffer
    OBVIOUS
  <1>2. /\ Pending = Members(events)
        /\ \A event : Queued(event) <=> event \in Pending
        /\ Buffer!Cardinality(Pending) = Len(events)
    BY <1>1, PendingFacts
  <1>3. Pending' = Members(events') /\ Delivered' = Members(sent')
    BY DEF Pending, Delivered, Members
  <1>4. sent' = << >> => Delivered' = {}
    BY DEF Delivered
  <1>5. events' = events => Pending' = Pending
    BY DEF Pending
  <1>. USE DEF Pending, Delivered
  <1>6. ASSUME NEW event \in Events, PublishNow(event)
        PROVE  Buffer!PassThrough(event)
    <2>1. DOMAIN events = {} /\ sent' = <<event>>
      BY <1>6 DEF PublishNow
    <2>2. {sent'[k] : k \in DOMAIN sent'} = {event}
      BY <2>1
    <2>. QED  BY <1>5, <1>6, <2>1, <2>2 DEF PublishNow, Buffer!PassThrough
  <1>7. ASSUME NEW event \in Events, sent' = << >>, Coalesce(event)
        PROVE  Buffer!Keep(event)
    <2>1. event \in Pending /\ Pending' = Pending
      BY <1>2, <1>5, <1>7 DEF Coalesce
    <2>. QED  BY <1>4, <1>7, <2>1 DEF Coalesce, Buffer!Keep
  <1>8. ASSUME NEW event \in Events, sent' = << >>, Insert(event)
        PROVE  Buffer!Keep(event)
    <2>1. Pending' = Pending \cup {event}
      BY <1>1, <1>2, <1>3, <1>8, InsertKeeps
    <2>2. Buffer!Cardinality(Pending) < Capacity
      BY <1>2, <1>8 DEF Insert
    <2>. QED  BY <1>4, <1>8, <2>1, <2>2 DEF Insert, Buffer!Keep
  <1>9. ASSUME NEW event \in Events, sent' = << >>, DiscardCompletion(event)
        PROVE  Buffer!TurnAway(event)
    <2>1. event \notin Pending /\ Buffer!Cardinality(Pending) = Capacity
      BY <1>2, <1>9 DEF DiscardCompletion
    <2>2. Pending' = Pending
      BY <1>5, <1>9 DEF DiscardCompletion
    <2>. QED  BY <1>4, <1>9, <2>1, <2>2 DEF DiscardCompletion, Buffer!TurnAway, Buffer!NoRoom
  <1>10. ASSUME NEW event \in Events, sent' = << >>, InsertEvicting(event)
         PROVE  Buffer!SacrificeBest(event) \/ Buffer!LoseOne(event)
    <2>1. PICK victim \in DOMAIN events :
             /\ IsVictim(victim)
             /\ Members(events') = (Members(events) \ {events[victim]}) \cup {event}
      BY <1>1, <1>10, EvictingKeeps
    <2>2. Pending' = (Pending \ {events[victim]}) \cup {event} /\ events[victim] \in Pending
      BY <1>2, <1>3, <2>1
    <2>3. event \notin Pending /\ Buffer!Cardinality(Pending) = Capacity
      BY <1>2, <1>10 DEF InsertEvicting
    <2>4. event \notin {e \in Events : e.kind = "COMPLETED"}
      BY <1>10 DEF InsertEvicting
    <2>5. CASE Completions # {}
      <3>1. events[victim] \in Events /\ events[victim].kind = "COMPLETED"
        <4>1. events[victim].kind = "COMPLETED"
          BY <2>1, <2>5 DEF IsVictim, Completions
        <4>2. events[victim] \in Events
          BY <1>1, <2>1, QueueFacts, ElementOfSeq DEF Sound
        <4>. QED  BY <4>1, <4>2
      <3>2. droppedCount' = droppedCount
        BY <1>10, <2>5 DEF InsertEvicting
      <3>. QED  BY <1>4, <1>10, <2>2, <2>3, <2>4, <3>1, <3>2
                DEF Buffer!SacrificeBest, Buffer!NoRoom
    <2>6. CASE Completions = {}
      <3>1. Pending \cap {e \in Events : e.kind = "COMPLETED"} = {}
        BY <2>6 DEF Completions
      <3>2. droppedCount' = droppedCount + 1
        BY <1>10, <2>6 DEF InsertEvicting
      <3>. QED  BY <1>4, <1>10, <2>2, <2>3, <2>4, <3>1, <3>2
                DEF Buffer!LoseOne, Buffer!NoRoom
    <2>. QED  BY <2>5, <2>6
  <1>11. ASSUME Flush
         PROVE  Buffer!Deliver
    <2>1. PICK published \in 1 .. Len(events) :
             /\ sent' = SubSeq(events, 1, published)
             /\ events' = SubSeq(events, published + 1, Len(events))
             /\ droppedCount' = droppedCount
      BY <1>11 DEF Flush
    <2>2. /\ Pending' = Pending \ Delivered'
          /\ Delivered' \in SUBSET Pending
          /\ \A d \in Delivered', p \in Pending \ Delivered' : ~ Before(p, d)
      BY <1>1, <1>2, <1>3, <2>1, FlushKeeps
    <2>. QED  BY <2>1, <2>2 DEF Buffer!Deliver
  <1>12. CASE UNCHANGED outboxVars
    BY <1>12 DEF outboxVars, Buffer!buffer
  <1>13. CASE Next
    BY <1>6, <1>7, <1>8, <1>9, <1>10, <1>11, <1>13 DEF Next, Enqueue, Buffer!Next
  <1>. QED  BY <1>1, <1>12, <1>13

(* BuffersStatuses: the array of events_ is a StatusBuffer: no status      *)
(* vanishes uncounted, completions go first, and none reaches the broker   *)
(* while an earlier one of its command waits (enqueue_, flush).            *)
THEOREM OutboxBuffersStatuses == Spec => BuffersStatuses
  <1>1. Init => Buffer!Init
    BY InitRefines
  <1>2. IInv /\ [Next]_outboxVars => [Buffer!Next]_Buffer!buffer
    BY NextRefines
  <1>. QED  BY <1>1, <1>2, OutboxInv, PTL DEF Spec, BuffersStatuses, Buffer!Safety
=============================================================================
