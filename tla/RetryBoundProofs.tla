--------------------------- MODULE RetryBoundProofs ---------------------------
(***************************************************************************)
(* What MemoryQueue's retry counts guarantee where items share hash codes: *)
(* how often ConsumeAction is called with items of one hash code, and the  *)
(* delivery it implements then.                                            *)
(***************************************************************************)
EXTENDS MemoryQueueProofs, FiniteSetTheorems

\* The items of S that share the hash code h.
Alike(S, h) == {i \in S : HashOf[i] = h}

\* Items that wait for a call of ConsumeAction: those held for error handling do not.
Awaiting ==
  entering \cup ElementsOf(queue)
    \cup UNION {Held(c) : c \in {d \in Consumers : pc[d] = "consume"}}

\* Every item offered brings three calls for its hash code.  While items of the code are
\* live, those not used up cover the calls they wait for and two more for each of them, less
\* the retries counted since the last item was dropped for its third failure.
CreditLeft(h) ==
  Alike(Live, h) # {} =>
    Cardinality(Attempts(h)) + Cardinality(Alike(Awaiting, h)) + 2 * Cardinality(Alike(Live, h))
      <= 3 * Cardinality(Alike(offered, h)) + retryCount[h]

WithinCredit(h) == Cardinality(Attempts(h)) <= 3 * Cardinality(Alike(offered, h))

Credit(h) == IsFiniteSet(Attempts(h)) /\ WithinCredit(h) /\ CreditLeft(h)

CreditInv == IsFiniteSet(offered) /\ \A h \in Hashes : Credit(h)

----------------------------------------------------------------------------
\* Sizes.

\* A part of a finite set is finite and no larger.
LEMMA PartSize ==
  ASSUME NEW S, IsFiniteSet(S), NEW T, T \subseteq S
  PROVE  IsFiniteSet(T) /\ Cardinality(T) \in Nat /\ Cardinality(T) <= Cardinality(S)
<1>1. T \in SUBSET S
  OBVIOUS
<1>2. IsFiniteSet(T) /\ Cardinality(T) <= Cardinality(S)
  BY <1>1, FS_Subset
<1> QED BY <1>2, FS_CardinalityType

\* One element more.
LEMMA OneMore ==
  ASSUME NEW S, IsFiniteSet(S), NEW x, x \notin S
  PROVE  IsFiniteSet(S \cup {x}) /\ Cardinality(S \cup {x}) = Cardinality(S) + 1
BY FS_AddElement

\* One element less.
LEMMA OneLess ==
  ASSUME NEW S, IsFiniteSet(S), NEW x \in S
  PROVE  IsFiniteSet(S \ {x}) /\ Cardinality(S \ {x}) = Cardinality(S) - 1
BY FS_RemoveElement

\* A part with at most one element more.
LEMMA PartAndOne ==
  ASSUME NEW S, IsFiniteSet(S), NEW x, NEW T, T \subseteq S \cup {x}
  PROVE  IsFiniteSet(T) /\ Cardinality(T) \in Nat /\ Cardinality(T) <= Cardinality(S) + 1
<1> DEFINE U == S \cup {x}
<1>1. Cardinality(S) \in Nat
  BY FS_CardinalityType
<1>2. IsFiniteSet(U) /\ Cardinality(U) <= Cardinality(S) + 1
  <2>1. CASE x \in S
    <3>1. U = S
      BY <2>1
    <3> QED BY <3>1, <1>1
  <2>2. CASE x \notin S
    BY <1>1, <2>2, OneMore
  <2> QED BY <2>1, <2>2
<1>3. Cardinality(U) \in Nat
  BY <1>2, FS_CardinalityType
<1>4. T \subseteq U
  OBVIOUS
<1> HIDE DEF U
<1>5. IsFiniteSet(T) /\ Cardinality(T) \in Nat /\ Cardinality(T) <= Cardinality(U)
  BY <1>2, <1>4, PartSize
<1> QED BY <1>1, <1>2, <1>3, <1>5

\* What is left without a part.
LEMMA WithoutPart ==
  ASSUME NEW S, IsFiniteSet(S), NEW B, B \subseteq S
  PROVE  /\ IsFiniteSet(S \ B)
         /\ Cardinality(S \ B) = Cardinality(S) - Cardinality(B)
<1>1. S \cap B = B
  OBVIOUS
<1> QED BY <1>1, FS_Difference

\* Numbering the elements of a set gives as many pairs.
LEMMA NumberedSize ==
  ASSUME NEW B, IsFiniteSet(B), NEW f
  PROVE  /\ IsFiniteSet({<<i, f[i]>> : i \in B})
         /\ Cardinality({<<i, f[i]>> : i \in B}) = Cardinality(B)
<1> DEFINE N == {<<i, f[i]>> : i \in B}
           g == [i \in B |-> <<i, f[i]>>]
<1>1. g \in Bijection(B, N)
  <2>1. g \in [B -> N]
    OBVIOUS
  <2>2. \A i, j \in B : g[i] = g[j] => i = j
    OBVIOUS
  <2>3. \A n \in N : \E i \in B : g[i] = n
    OBVIOUS
  <2> QED BY <2>1, <2>2, <2>3 DEF Bijection, Injection, Surjection, IsInjective
<1>2. ExistsBijection(B, N)
  BY <1>1 DEF ExistsBijection
<1> QED BY <1>2, FS_Bijection

----------------------------------------------------------------------------
\* How the steps of the queue move credit, for one hash code.

LEMMA AwaitingParts ==
  \A i : i \in Awaiting <=> \/ i \in entering \/ i \in ElementsOf(queue)
                            \/ \E c \in Consumers : pc[c] = "consume" /\ i \in Held(c)
BY DEF Awaiting

LEMMA AwaitingPartsNext ==
  \A i : i \in Awaiting' <=> \/ i \in entering' \/ i \in ElementsOf(queue)'
                             \/ \E c \in Consumers : pc'[c] = "consume" /\ i \in Held(c)'
BY DEF Awaiting

\* What waits for a call is live, what is live was offered, and all of it is finite.
LEMMA ClassSizes ==
  ASSUME ItemInOnePlace, IsFiniteSet(offered), NEW h \in Hashes
  PROVE  /\ Alike(Awaiting, h) \subseteq Alike(Live, h)
         /\ IsFiniteSet(Alike(Awaiting, h)) /\ Cardinality(Alike(Awaiting, h)) \in Nat
         /\ IsFiniteSet(Alike(Live, h)) /\ Cardinality(Alike(Live, h)) \in Nat
         /\ IsFiniteSet(Alike(offered, h)) /\ Cardinality(Alike(offered, h)) \in Nat
         /\ Cardinality(Alike(Awaiting, h)) <= Cardinality(Alike(Live, h))
         /\ Alike(Live, h) # {} => Cardinality(Alike(Live, h)) >= 1
<1>1. /\ Alike(Awaiting, h) \subseteq Alike(Live, h)
      /\ Alike(Live, h) \subseteq offered
      /\ Alike(offered, h) \subseteq offered
  BY AwaitingParts, LiveParts DEF Alike, ItemInOnePlace
<1>2. /\ IsFiniteSet(Alike(Live, h)) /\ Cardinality(Alike(Live, h)) \in Nat
      /\ IsFiniteSet(Alike(offered, h)) /\ Cardinality(Alike(offered, h)) \in Nat
  BY <1>1, PartSize
<1>3. /\ IsFiniteSet(Alike(Awaiting, h)) /\ Cardinality(Alike(Awaiting, h)) \in Nat
      /\ Cardinality(Alike(Awaiting, h)) <= Cardinality(Alike(Live, h))
  BY <1>1, <1>2, PartSize
<1>4. Alike(Live, h) # {} => Cardinality(Alike(Live, h)) # 0
  BY <1>2, FS_EmptySet
<1> QED BY <1>1, <1>2, <1>3, <1>4

\* A step that calls nothing, offers nothing and at most drops items or counts a retry.
LEMMA CreditKept ==
  ASSUME ItemInOnePlace, IsFiniteSet(offered), NEW h \in Hashes, Credit(h),
         retryCount[h] \in Nat, retryCount'[h] \in Nat, retryCount[h] <= retryCount'[h],
         Attempts(h)' = Attempts(h), Alike(offered', h) = Alike(offered, h),
         Alike(Awaiting', h) \subseteq Alike(Awaiting, h),
         Alike(Live', h) \subseteq Alike(Live, h)
  PROVE  Credit(h)'
<1> DEFINE a == Cardinality(Attempts(h))
           w == Cardinality(Alike(Awaiting, h))
           l == Cardinality(Alike(Live, h))
           o == Cardinality(Alike(offered, h))
           w2 == Cardinality(Alike(Awaiting', h))
           l2 == Cardinality(Alike(Live', h))
<1>1. w \in Nat /\ l \in Nat /\ o \in Nat
  BY ClassSizes
<1>2. w2 \in Nat /\ l2 \in Nat /\ w2 <= w /\ l2 <= l
  BY ClassSizes, PartSize
<1>3. a \in Nat
  BY FS_CardinalityType DEF Credit
<1>4. a <= 3 * o /\ (Alike(Live, h) # {} => a + w + 2 * l <= 3 * o + retryCount[h])
  BY DEF Credit, WithinCredit, CreditLeft
<1>5. Alike(Live', h) # {} => Alike(Live, h) # {}
  OBVIOUS
<1> HIDE DEF a, w, l, o, w2, l2
<1>6. a <= 3 * o /\ (Alike(Live', h) # {} => a + w2 + 2 * l2 <= 3 * o + retryCount'[h])
  BY <1>1, <1>2, <1>3, <1>4, <1>5
<1>7. WithinCredit(h)' /\ CreditLeft(h)'
  BY <1>6 DEF a, w2, l2, o, WithinCredit, CreditLeft
<1>8. IsFiniteSet(Attempts(h))'
  BY DEF Credit
<1> QED BY <1>7, <1>8 DEF Credit

\* An item of this hash code is offered: three calls more.
LEMMA CreditRaised ==
  ASSUME ItemInOnePlace, IsFiniteSet(offered), NEW h \in Hashes, Credit(h),
         retryCount[h] \in 0..RetryLimit, retryCount'[h] = retryCount[h],
         Attempts(h)' = Attempts(h), NEW i, i \notin offered,
         Alike(offered', h) = Alike(offered, h) \cup {i},
         Alike(Awaiting', h) \subseteq Alike(Awaiting, h) \cup {i},
         Alike(Live', h) \subseteq Alike(Live, h) \cup {i}
  PROVE  Credit(h)'
<1> DEFINE a == Cardinality(Attempts(h))
           w == Cardinality(Alike(Awaiting, h))
           l == Cardinality(Alike(Live, h))
           o == Cardinality(Alike(offered, h))
           w2 == Cardinality(Alike(Awaiting', h))
           l2 == Cardinality(Alike(Live', h))
           o2 == Cardinality(Alike(offered', h))
<1>1. w \in Nat /\ l \in Nat /\ o \in Nat /\ w <= l
  BY ClassSizes
<1>2. w2 \in Nat /\ l2 \in Nat /\ w2 <= w + 1 /\ l2 <= l + 1
  BY ClassSizes, PartAndOne
<1>3. o2 = o + 1
  BY ClassSizes, OneMore DEF Alike
<1>4. a \in Nat
  BY FS_CardinalityType DEF Credit
<1>5. a <= 3 * o /\ (Alike(Live, h) # {} => a + w + 2 * l <= 3 * o + retryCount[h])
  BY DEF Credit, WithinCredit, CreditLeft
<1>6. Alike(Live, h) = {} => l = 0
  BY FS_EmptySet
<1>7. retryCount[h] \in Nat
  BY DEF RetryLimit
<1> HIDE DEF a, w, l, o, w2, l2, o2
<1>8. a <= 3 * o2 /\ a + w2 + 2 * l2 <= 3 * o2 + retryCount'[h]
  <2>1. CASE Alike(Live, h) = {}
    BY <1>1, <1>2, <1>3, <1>4, <1>5, <1>6, <1>7, <2>1
  <2>2. CASE Alike(Live, h) # {}
    BY <1>1, <1>2, <1>3, <1>4, <1>5, <1>7, <2>2
  <2> QED BY <2>1, <2>2
<1>9. WithinCredit(h)' /\ CreditLeft(h)'
  BY <1>8 DEF a, w2, l2, o2, WithinCredit, CreditLeft
<1>10. IsFiniteSet(Attempts(h))'
  BY DEF Credit
<1> QED BY <1>9, <1>10 DEF Credit

\* ConsumeAction is called with the items B of this hash code, which waited for it.
LEMMA CreditSpent ==
  ASSUME ItemInOnePlace, IsFiniteSet(offered), NEW h \in Hashes, Credit(h),
         retryCount[h] \in 0..RetryLimit, retryCount'[h] = retryCount[h],
         NEW B, B \subseteq Alike(Awaiting, h),
         Attempts(h)' = Attempts(h) \cup {<<i, delivered[i] + 1>> : i \in B},
         Alike(offered', h) = Alike(offered, h),
         Alike(Awaiting', h) \subseteq Alike(Awaiting, h) \ B,
         Alike(Live', h) \subseteq Alike(Live, h)
  PROVE  Credit(h)'
<1> DEFINE N == {<<i, delivered[i] + 1>> : i \in B}
           a == Cardinality(Attempts(h))
           w == Cardinality(Alike(Awaiting, h))
           l == Cardinality(Alike(Live, h))
           o == Cardinality(Alike(offered, h))
           b == Cardinality(B)
           a2 == Cardinality(Attempts(h)')
           w2 == Cardinality(Alike(Awaiting', h))
           l2 == Cardinality(Alike(Live', h))
<1>1. w \in Nat /\ l \in Nat /\ o \in Nat /\ w <= l
  BY ClassSizes
<1>2. IsFiniteSet(B) /\ b \in Nat /\ b <= w
  BY ClassSizes, PartSize
<1>3. w2 \in Nat /\ w2 <= w - b
  <2>1. IsFiniteSet(Alike(Awaiting, h) \ B) /\ Cardinality(Alike(Awaiting, h) \ B) = w - b
    BY ClassSizes, WithoutPart
  <2> QED BY <2>1, PartSize
<1>4. l2 \in Nat /\ l2 <= l
  BY ClassSizes, PartSize
<1>5. IsFiniteSet(N) /\ Cardinality(N) = b
  <2> DEFINE f == [i \in B |-> delivered[i] + 1]
  <2>1. {<<i, f[i]>> : i \in B} = N
    OBVIOUS
  <2> HIDE DEF f, N
  <2> QED BY <1>2, <2>1, NumberedSize
<1>6. IsFiniteSet(Attempts(h)) /\ a \in Nat
  BY FS_CardinalityType DEF Credit
<1>7. IsFiniteSet(Attempts(h)') /\ a2 \in Nat /\ a2 <= a + b
  <2>1. Attempts(h)' = Attempts(h) \cup N
    OBVIOUS
  <2> HIDE DEF N
  <2>2. /\ IsFiniteSet(Attempts(h) \cup N)
        /\ a2 = a + b - Cardinality(Attempts(h) \cap N)
    BY <1>5, <1>6, <2>1, FS_Union
  <2>3. Cardinality(Attempts(h) \cap N) \in Nat
    BY <1>5, PartSize
  <2>4. a2 \in Nat
    BY <2>1, <2>2, FS_CardinalityType
  <2>5. IsFiniteSet(Attempts(h)')
    BY <2>1, <2>2
  <2> HIDE DEF a2, a, b
  <2>6. a2 <= a + b
    BY <1>2, <1>6, <2>2, <2>3, <2>4
  <2> QED BY <1>6, <2>4, <2>5, <2>6
<1>8. a <= 3 * o /\ (Alike(Live, h) # {} => a + w + 2 * l <= 3 * o + retryCount[h])
  BY DEF Credit, WithinCredit, CreditLeft
<1>9. Alike(Live', h) # {} => Alike(Live, h) # {}
  OBVIOUS
<1>10. Alike(Live, h) = {} => b = 0
  BY ClassSizes, FS_EmptySet
<1>11. Alike(Live, h) # {} => l >= 1
  BY ClassSizes
<1>12. retryCount[h] \in Nat /\ retryCount[h] <= 2
  BY DEF RetryLimit
<1> HIDE DEF a, w, l, o, b, a2, w2, l2
<1>13. a2 <= 3 * o
  <2>1. CASE Alike(Live, h) = {}
    BY <1>1, <1>6, <1>7, <1>8, <1>10, <2>1
  <2>2. CASE Alike(Live, h) # {}
    BY <1>1, <1>2, <1>6, <1>7, <1>8, <1>11, <1>12, <2>2
  <2> QED BY <2>1, <2>2
<1>14. Alike(Live', h) # {} => a2 + w2 + 2 * l2 <= 3 * o + retryCount'[h]
  BY <1>1, <1>2, <1>3, <1>4, <1>6, <1>7, <1>8, <1>9, <1>12
<1>15. WithinCredit(h)' /\ CreditLeft(h)'
  BY <1>13, <1>14 DEF a2, w2, l2, o, WithinCredit, CreditLeft
<1> QED BY <1>7, <1>15 DEF Credit

\* The third failure: the count begins again, and the item is gone for good.
LEMMA CreditReset ==
  ASSUME ItemInOnePlace, IsFiniteSet(offered), NEW h \in Hashes, Credit(h),
         retryCount[h] = RetryLimit, retryCount'[h] = 0,
         Attempts(h)' = Attempts(h), Alike(offered', h) = Alike(offered, h),
         NEW i \in Alike(Live, h),
         Alike(Awaiting', h) \subseteq Alike(Awaiting, h),
         Alike(Live', h) \subseteq Alike(Live, h) \ {i}
  PROVE  Credit(h)'
<1> DEFINE a == Cardinality(Attempts(h))
           w == Cardinality(Alike(Awaiting, h))
           l == Cardinality(Alike(Live, h))
           o == Cardinality(Alike(offered, h))
           w2 == Cardinality(Alike(Awaiting', h))
           l2 == Cardinality(Alike(Live', h))
<1>1. w \in Nat /\ l \in Nat /\ o \in Nat
  BY ClassSizes
<1>2. w2 \in Nat /\ w2 <= w
  BY ClassSizes, PartSize
<1>3. l2 \in Nat /\ l2 <= l - 1
  <2>1. IsFiniteSet(Alike(Live, h) \ {i}) /\ Cardinality(Alike(Live, h) \ {i}) = l - 1
    BY ClassSizes, OneLess
  <2> QED BY <2>1, PartSize
<1>4. a \in Nat
  BY FS_CardinalityType DEF Credit
<1>5. a <= 3 * o /\ a + w + 2 * l <= 3 * o + 2
  BY DEF Credit, WithinCredit, CreditLeft, RetryLimit
<1> HIDE DEF a, w, l, o, w2, l2
<1>6. a <= 3 * o /\ a + w2 + 2 * l2 <= 3 * o + retryCount'[h]
  BY <1>1, <1>2, <1>3, <1>4, <1>5
<1>7. WithinCredit(h)' /\ CreditLeft(h)'
  BY <1>6 DEF a, w2, l2, o, WithinCredit, CreditLeft
<1>8. IsFiniteSet(Attempts(h))'
  BY DEF Credit
<1> QED BY <1>7, <1>8 DEF Credit

\* A failed item goes back to the queue, and is counted.
LEMMA CreditRenewed ==
  ASSUME ItemInOnePlace, IsFiniteSet(offered), NEW h \in Hashes, Credit(h),
         retryCount[h] \in Nat, retryCount'[h] = retryCount[h] + 1,
         Attempts(h)' = Attempts(h), Alike(offered', h) = Alike(offered, h),
         NEW i, Alike(Awaiting', h) \subseteq Alike(Awaiting, h) \cup {i},
         Alike(Live', h) \subseteq Alike(Live, h)
  PROVE  Credit(h)'
<1> DEFINE a == Cardinality(Attempts(h))
           w == Cardinality(Alike(Awaiting, h))
           l == Cardinality(Alike(Live, h))
           o == Cardinality(Alike(offered, h))
           w2 == Cardinality(Alike(Awaiting', h))
           l2 == Cardinality(Alike(Live', h))
<1>1. w \in Nat /\ l \in Nat /\ o \in Nat
  BY ClassSizes
<1>2. w2 \in Nat /\ w2 <= w + 1
  BY ClassSizes, PartAndOne
<1>3. l2 \in Nat /\ l2 <= l
  BY ClassSizes, PartSize
<1>4. a \in Nat
  BY FS_CardinalityType DEF Credit
<1>5. a <= 3 * o /\ (Alike(Live, h) # {} => a + w + 2 * l <= 3 * o + retryCount[h])
  BY DEF Credit, WithinCredit, CreditLeft
<1>6. Alike(Live', h) # {} => Alike(Live, h) # {}
  OBVIOUS
<1> HIDE DEF a, w, l, o, w2, l2
<1>7. a <= 3 * o /\ (Alike(Live', h) # {} => a + w2 + 2 * l2 <= 3 * o + retryCount'[h])
  BY <1>1, <1>2, <1>3, <1>4, <1>5, <1>6
<1>8. WithinCredit(h)' /\ CreditLeft(h)'
  BY <1>7 DEF a, w2, l2, o, WithinCredit, CreditLeft
<1>9. IsFiniteSet(Attempts(h))'
  BY DEF Credit
<1> QED BY <1>8, <1>9 DEF Credit

----------------------------------------------------------------------------
\* Every step keeps within the credit.

\* A step that brings nobody to a call of ConsumeAction and nothing to the queue.
LEMMA AwaitingShrinks ==
  ASSUME entering' \subseteq entering, ElementsOf(queue') \subseteq ElementsOf(queue),
         \A c \in Consumers : pc'[c] = "consume" => pc[c] = "consume" /\ items'[c] = items[c]
  PROVE  Awaiting' \subseteq Awaiting
<1>1. \A c \in Consumers : pc'[c] = "consume" => pc[c] = "consume" /\ Held(c)' = Held(c)
  BY DEF Held
<1> QED BY <1>1, AwaitingParts, AwaitingPartsNext

\* One turn of the retry loop takes the head of the list away, and no other consumer's.
LEMMA NextItemFacts ==
  ASSUME QueueInv, ItemInOnePlace, NEW c \in Consumers, NextItem(c),
         pc[c] \in {"retry", "requeue"}
  PROVE  /\ Head(items[c]) \in Items \cap Held(c)
         /\ Held(c)' \subseteq Held(c) \ {Head(items[c])}
         /\ \A d \in Consumers \ {c} : items'[d] = items[d] /\ pc'[d] = pc[d]
         /\ pc'[c] # "consume"
<1>1. items[c] \in Seq(Items) /\ items[c] # <<>> /\ NoRepeats(items[c])
  BY OnePlaceElim DEF QueueInv, TypeOK
<1>2. items'[c] = Tail(items[c]) /\ pc'[c] # "consume"
      /\ \A d \in Consumers \ {c} : items'[d] = items[d] /\ pc'[d] = pc[d]
  BY DEF NextItem, QueueInv, TypeOK
<1>3. /\ Head(items[c]) \in Items
      /\ Head(items[c]) \in ElementsOf(items[c])
      /\ ElementsOf(Tail(items[c])) \subseteq ElementsOf(items[c]) \ {Head(items[c])}
  BY <1>1, TailFacts
<1> QED BY <1>2, <1>3 DEF Held

\* The calls a consumer makes: one for each item of its batch, numbered as the item's next.
LEMMA AttemptsGrow ==
  ASSUME TypeOK, NEW c \in Consumers, NEW h \in Hashes, CountDelivery(c)
  PROVE  Attempts(h)'
           = Attempts(h) \cup {<<i, delivered[i] + 1>> : i \in Alike(Held(c) \cap Items, h)}
<1> DEFINE N == {<<i, delivered[i] + 1>> : i \in Alike(Held(c) \cap Items, h)}
<1>1. \A i \in Items : delivered[i] \in Nat
  BY DEF TypeOK
<1>2. \A i \in Items : delivered'[i] = IF i \in Held(c) THEN delivered[i] + 1 ELSE delivered[i]
  BY DEF CountDelivery, Held
<1>3. ASSUME NEW i \in Items, HashOf[i] = h
      PROVE  {i} \X (1..delivered'[i])
               = ({i} \X (1..delivered[i])) \cup {p \in {<<i, delivered[i] + 1>>} : i \in Held(c)}
  <2>1. CASE i \in Held(c)
    <3>1. 1..delivered'[i] = 1..delivered[i] \cup {delivered[i] + 1}
      BY <1>1, <1>2, <2>1
    <3> QED BY <2>1, <3>1
  <2>2. CASE i \notin Held(c)
    BY <1>2, <2>2
  <2> QED BY <2>1, <2>2
<1>4. ASSUME NEW p
      PROVE  p \in Attempts(h)' <=> p \in Attempts(h) \cup N
  <2>1. p \in Attempts(h)' <=> \E i \in Items : HashOf[i] = h /\ p \in {i} \X (1..delivered'[i])
    BY DEF Attempts
  <2>2. p \in Attempts(h) <=> \E i \in Items : HashOf[i] = h /\ p \in {i} \X (1..delivered[i])
    BY DEF Attempts
  <2>3. p \in N <=> \E i \in Items : HashOf[i] = h /\ i \in Held(c) /\ p = <<i, delivered[i] + 1>>
    BY DEF Alike
  <2>4. \A i \in Items : HashOf[i] = h =>
          (p \in {i} \X (1..delivered'[i])
             <=> \/ p \in {i} \X (1..delivered[i])
                 \/ i \in Held(c) /\ p = <<i, delivered[i] + 1>>)
    BY <1>3
  <2> QED BY <2>1, <2>2, <2>3, <2>4
<1> QED BY <1>4

LEMMA CreditStep ==
  ASSUME QueueInv, ItemInOnePlace, CreditInv, [Next]_vars, NEW h \in Hashes
  PROVE  Credit(h)'
<1> USE ConstantsAssumption
<1>0. /\ Credit(h) /\ IsFiniteSet(offered)
      /\ retryCount[h] \in 0..RetryLimit /\ retryCount[h] \in Nat
  BY DEF CreditInv, QueueInv, TypeOK, RetryLimit
<1>1. UNCHANGED delivered => Attempts(h)' = Attempts(h)
  BY DEF Attempts
<1>2. UNCHANGED history => Alike(Live', h) \subseteq Alike(Live, h)
  BY NothingNew DEF Alike
<1>3. Awaiting' \subseteq Awaiting => Alike(Awaiting', h) \subseteq Alike(Awaiting, h)
  BY DEF Alike
<1>4. ASSUME UNCHANGED <<offered, consumed, delivered, given>>, Awaiting' \subseteq Awaiting,
             retryCount'[h] \in Nat, retryCount[h] <= retryCount'[h]
      PROVE  Credit(h)'
  BY <1>0, <1>1, <1>2, <1>3, <1>4, CreditKept DEF history
<1>5. CASE FrameworkStart \/ FrameworkEnd \/ Dispose \/ UNCHANGED vars
  <2>1. UNCHANGED <<entering, queue, pc, items, retryCount, offered, consumed, delivered, given>>
    BY <1>5 DEF FrameworkStart, FrameworkEnd, Dispose, vars, service, threads, history
  <2> QED BY <1>0, <1>4, <2>1, AwaitingShrinks
<1>6. ASSUME NEW i \in Items, EnqueueChecksStatus(i)
      PROVE  Credit(h)'
  <2>1. /\ i \notin offered /\ offered' = offered \cup {i}
        /\ entering' \subseteq entering \cup {i}
        /\ UNCHANGED <<queue, pc, items, retryCount, consumed, delivered>>
    BY <1>6 DEF EnqueueChecksStatus, threads
  <2>2. /\ \A c \in Consumers : Held(c)' = Held(c)
        /\ ElementsOf(queue)' = ElementsOf(queue)
    BY <2>1 DEF Held
  <2>3. Live' \subseteq Live \cup {i} /\ Awaiting' \subseteq Awaiting \cup {i}
    BY <2>1, <2>2, LiveParts, LivePartsNext, AwaitingParts, AwaitingPartsNext
  <2>4. CASE HashOf[i] = h
    <3>1. /\ Alike(offered', h) = Alike(offered, h) \cup {i}
          /\ Alike(Awaiting', h) \subseteq Alike(Awaiting, h) \cup {i}
          /\ Alike(Live', h) \subseteq Alike(Live, h) \cup {i}
      BY <2>1, <2>3, <2>4 DEF Alike
    <3> QED BY <1>0, <1>1, <2>1, <3>1, CreditRaised
  <2>5. CASE HashOf[i] # h
    <3>1. /\ Alike(offered', h) = Alike(offered, h)
          /\ Alike(Awaiting', h) \subseteq Alike(Awaiting, h)
          /\ Alike(Live', h) \subseteq Alike(Live, h)
      BY <2>1, <2>3, <2>5 DEF Alike
    <3> QED BY <1>0, <1>1, <2>1, <3>1, CreditKept
  <2> QED BY <2>4, <2>5
<1>7. ASSUME NEW i \in Items, EnqueuePuts(i)
      PROVE  Credit(h)'
  <2>1. /\ i \in entering /\ entering' = entering \ {i} /\ PutUnderLock(i)
        /\ UNCHANGED <<pc, items, retryCount, offered, consumed, delivered, given>>
    BY <1>7 DEF EnqueuePuts, threads, history
  <2>2. ElementsOf(queue)' \subseteq ElementsOf(queue) \cup {i}
    BY <2>1, PutFacts DEF QueueInv, TypeOK, BoundedQueue
  <2>3. \A c \in Consumers : Held(c)' = Held(c)
    BY <2>1 DEF Held
  <2>4. Awaiting' \subseteq Awaiting
    BY <2>1, <2>2, <2>3, AwaitingParts, AwaitingPartsNext
  <2> QED BY <1>0, <1>4, <2>1, <2>4
<1>8. ASSUME NEW c \in Consumers, BeginRound(c)
      PROVE  Credit(h)'
  <2>1. /\ \A d \in Consumers : pc'[d] = "consume" => pc[d] = "consume"
        /\ UNCHANGED <<entering, queue, items, retryCount, offered, consumed, delivered, given>>
    BY <1>8 DEF BeginRound, service, history, QueueInv, TypeOK
  <2> QED BY <1>0, <1>4, <2>1, AwaitingShrinks
<1>9. ASSUME NEW c \in Consumers, Take(c)
      PROVE  Credit(h)'
  <2> DEFINE p == SubSeq(queue, 1, TakeCount)
             t == SubSeq(queue, TakeCount + 1, Len(queue))
  <2>1. /\ items' = [items EXCEPT ![c] = p] /\ queue' = t
        /\ pc' = [pc EXCEPT ![c] = IF TakeCount > 0 THEN "consume" ELSE "idle"]
        /\ UNCHANGED <<entering, retryCount, offered, consumed, delivered, given>>
    BY <1>9 DEF Take, QueueAfterTake, history
  <2>2. TakeCount \in 0..Len(queue) /\ TakeCount + 1 \in 1..(Len(queue) + 1)
    BY LenProperties DEF TakeCount, QueueInv, TypeOK
  <2>3. ElementsOf(p) \subseteq ElementsOf(queue) /\ ElementsOf(t) \subseteq ElementsOf(queue)
    BY <2>2, PrefixFacts, SuffixFacts DEF QueueInv, TypeOK
  <2> HIDE DEF p, t
  <2>4. items'[c] = p /\ \A d \in Consumers \ {c} : items'[d] = items[d] /\ pc'[d] = pc[d]
    BY <2>1 DEF QueueInv, TypeOK
  <2>5. Held(c)' \subseteq ElementsOf(queue) /\ \A d \in Consumers \ {c} : Held(d)' = Held(d)
    BY <2>3, <2>4 DEF Held
  <2>6. ElementsOf(queue)' \subseteq ElementsOf(queue)
    BY <2>1, <2>3
  <2>7. Awaiting' \subseteq Awaiting
    BY <2>1, <2>4, <2>5, <2>6, AwaitingParts, AwaitingPartsNext
  <2> QED BY <1>0, <1>4, <2>1, <2>7
<1>10. ASSUME NEW c \in Consumers, ConsumeSucceeds(c) \/ ConsumeFails(c)
       PROVE  Credit(h)'
  <2> DEFINE B == Alike(Held(c) \cap Items, h)
  <2>1. /\ pc[c] = "consume" /\ pc'[c] # "consume" /\ CountDelivery(c)
        /\ items'[c] = <<>> \/ items'[c] = items[c]
        /\ \A d \in Consumers \ {c} : items'[d] = items[d] /\ pc'[d] = pc[d]
        /\ UNCHANGED <<entering, queue, retryCount, offered>>
    BY <1>10 DEF ConsumeSucceeds, ConsumeFails, service, QueueInv, TypeOK
  <2>2. ElementsOf(<<>>) = {}
    BY DEF ElementsOf
  <2>3. /\ Held(c)' \subseteq Held(c) /\ \A d \in Consumers \ {c} : Held(d)' = Held(d)
        /\ ElementsOf(queue)' = ElementsOf(queue)
    BY <2>1, <2>2 DEF Held
  <2>4. /\ Held(c) \cap (entering \cup ElementsOf(queue)) = {}
        /\ \A d \in Consumers \ {c} : Held(d) \cap Held(c) = {}
    BY OnePlaceElim
  <2>5. Held(c) \subseteq Awaiting /\ Awaiting' \subseteq Awaiting \ Held(c)
    BY <2>1, <2>3, <2>4, AwaitingParts, AwaitingPartsNext
  <2>6. Live' \subseteq Live
    BY <2>1, <2>3, LiveParts, LivePartsNext
  <2>7. /\ B \subseteq Alike(Awaiting, h)
        /\ Alike(Awaiting', h) \subseteq Alike(Awaiting, h) \ B
        /\ Alike(Live', h) \subseteq Alike(Live, h)
    BY <2>5, <2>6 DEF Alike
  <2>8. Attempts(h)' = Attempts(h) \cup {<<i, delivered[i] + 1>> : i \in B}
    BY <2>1, AttemptsGrow DEF QueueInv
  <2> HIDE DEF B
  <2> QED BY <1>0, <2>1, <2>7, <2>8, CreditSpent
<1>11. ASSUME NEW c \in Consumers, HandleError(c)
       PROVE  Credit(h)'
  <2>1. /\ \A d \in Consumers : pc'[d] = "consume" => pc[d] = "consume" /\ items'[d] = items[d]
        /\ UNCHANGED <<entering, queue, retryCount, offered, consumed, delivered, given>>
    BY <1>11 DEF HandleError, service, history, QueueInv, TypeOK
  <2> QED BY <1>0, <1>4, <2>1, AwaitingShrinks
<1>12. ASSUME NEW c \in Consumers, RetryItem(c)
       PROVE  Credit(h)'
  <2> DEFINE j == Head(items[c])
  <2>1. pc[c] = "retry" /\ UNCHANGED <<entering, queue, offered, consumed, delivered, given>>
    BY <1>12 DEF RetryItem, service, history
  <2>2. ASSUME NextItem(c)
        PROVE  /\ j \in Items \cap Held(c)
               /\ \A d \in Consumers : pc'[d] = "consume" => pc[d] = "consume" /\ items'[d] = items[d]
               /\ Alike(Live', h) \subseteq Alike(Live, h) \ {j}
    <3>1. /\ j \in Items \cap Held(c) /\ Held(c)' \subseteq Held(c) \ {j} /\ pc'[c] # "consume"
          /\ \A d \in Consumers \ {c} : items'[d] = items[d] /\ pc'[d] = pc[d]
      BY <2>1, <2>2, NextItemFacts
    <3> HIDE DEF j
    <3>2. /\ \A d \in Consumers \ {c} : Held(d)' = Held(d) /\ j \notin Held(d)
          /\ j \notin entering \cup ElementsOf(queue) /\ ElementsOf(queue)' = ElementsOf(queue)
      BY <2>1, <3>1, OnePlaceElim DEF Held
    <3>3. Live' \subseteq Live \ {j}
      BY <2>1, <3>1, <3>2, LiveParts, LivePartsNext
    <3> QED BY <3>1, <3>3 DEF Alike
  <2>3. CASE /\ retryCount[HashOf[j]] >= RetryLimit
             /\ retryCount' = [retryCount EXCEPT ![HashOf[j]] = 0]
             /\ NextItem(c)
    <3>1. Awaiting' \subseteq Awaiting
      BY <2>1, <2>2, <2>3, AwaitingShrinks
    <3>2. CASE HashOf[j] = h
      <4>1. retryCount[h] = RetryLimit /\ retryCount'[h] = 0
        BY <1>0, <2>3, <3>2 DEF QueueInv, TypeOK, RetryLimit
      <4>2. j \in Alike(Live, h) /\ Alike(Live', h) \subseteq Alike(Live, h) \ {j}
        BY <2>2, <2>3, <3>2, LiveParts DEF Alike
      <4> HIDE DEF j
      <4> QED BY <1>0, <1>1, <1>3, <2>1, <3>1, <4>1, <4>2, CreditReset
    <3>3. CASE HashOf[j] # h
      <4>1. retryCount'[h] = retryCount[h]
        BY <2>3, <3>3 DEF QueueInv, TypeOK
      <4> QED BY <1>0, <1>4, <2>1, <3>1, <4>1
    <3> QED BY <3>2, <3>3
  <2>4. CASE NextItem(c) /\ retryCount' = RetryCounted(HashOf[j])
    <3>1. Awaiting' \subseteq Awaiting
      BY <2>1, <2>2, <2>4, AwaitingShrinks
    <3>2. retryCount'[h] = retryCount[h] \/ retryCount'[h] = retryCount[h] + 1
      BY <1>0, <2>4 DEF RetryCounted, QueueInv, TypeOK
    <3>3. retryCount'[h] \in Nat /\ retryCount[h] <= retryCount'[h]
      BY <1>0, <3>2
    <3> QED BY <1>4, <2>1, <3>1, <3>3
  <2>5. CASE pc' = [pc EXCEPT ![c] = "requeue"] /\ UNCHANGED <<items, retryCount>>
    <3>1. \A d \in Consumers : pc'[d] = "consume" => pc[d] = "consume" /\ items'[d] = items[d]
      BY <2>5 DEF QueueInv, TypeOK
    <3> QED BY <1>0, <1>4, <2>1, <2>5, <3>1, AwaitingShrinks
  <2> QED BY <1>12, <2>3, <2>4, <2>5 DEF RetryItem
<1>13. ASSUME NEW c \in Consumers, Requeue(c)
       PROVE  Credit(h)'
  <2> DEFINE j == Head(items[c])
  <2>1. /\ pc[c] = "requeue" /\ NextItem(c) /\ PutUnderLock(j)
        /\ retryCount' = RetryCounted(HashOf[j])
        /\ UNCHANGED <<entering, offered, consumed, delivered, given>>
    BY <1>13 DEF Requeue, history
  <2>2. /\ j \in Items \cap Held(c) /\ Held(c)' \subseteq Held(c) \ {j} /\ pc'[c] # "consume"
        /\ \A d \in Consumers \ {c} : items'[d] = items[d] /\ pc'[d] = pc[d]
    BY <2>1, NextItemFacts
  <2> HIDE DEF j
  <2>3. ElementsOf(queue)' \subseteq ElementsOf(queue) \cup {j}
    BY <2>1, <2>2, PutFacts DEF QueueInv, TypeOK, BoundedQueue
  <2>4. \A d \in Consumers \ {c} : Held(d)' = Held(d)
    BY <2>2 DEF Held
  <2>5. Awaiting' \subseteq Awaiting \cup {j}
    BY <2>1, <2>2, <2>3, <2>4, AwaitingParts, AwaitingPartsNext
  <2>6. Alike(Live', h) \subseteq Alike(Live, h)
    BY <1>2, <2>1 DEF history
  <2>7. CASE HashOf[j] = h
    <3>1. retryCount'[h] = retryCount[h] + 1
      BY <2>1, <2>7 DEF RetryCounted, QueueInv, TypeOK
    <3>2. Alike(Awaiting', h) \subseteq Alike(Awaiting, h) \cup {j}
      BY <2>5 DEF Alike
    <3> QED BY <1>0, <1>1, <2>1, <2>6, <3>1, <3>2, CreditRenewed
  <2>8. CASE HashOf[j] # h
    <3>1. retryCount'[h] = retryCount[h]
      BY <2>1, <2>8 DEF RetryCounted, QueueInv, TypeOK
    <3>2. Alike(Awaiting', h) \subseteq Alike(Awaiting, h)
      BY <2>5, <2>8 DEF Alike
    <3> QED BY <1>0, <1>1, <2>1, <2>6, <3>1, <3>2, CreditKept
  <2> QED BY <2>7, <2>8
<1> QED
  BY <1>5, <1>6, <1>7, <1>8, <1>9, <1>10, <1>11, <1>12, <1>13 DEF Next, Consume

\* What has been offered stays finite: Enqueue brings one item at a time.
LEMMA OfferedStep ==
  ASSUME IsFiniteSet(offered), [Next]_vars
  PROVE  IsFiniteSet(offered')
<1>1. UNCHANGED offered \/ \E i \in Items : offered' = offered \cup {i}
  BY DEF Next, Consume, vars, history, FrameworkStart, FrameworkEnd, Dispose, EnqueueChecksStatus,
         EnqueuePuts, BeginRound, Take, ConsumeSucceeds, ConsumeFails, HandleError, RetryItem,
         Requeue
<1> QED BY <1>1, FS_AddElement

LEMMA CreditInit == Init => CreditInv
<1> SUFFICES ASSUME Init, NEW h \in Hashes PROVE IsFiniteSet(offered) /\ Credit(h)
  BY FS_EmptySet DEF CreditInv, Init
<1>1. Attempts(h) = {}
  <2>1. \A i \in Items : 1..delivered[i] = {}
    BY DEF Init
  <2> QED BY <2>1 DEF Attempts
<1>2. Alike(offered, h) = {} /\ Live = {} /\ offered = {}
  BY DEF Init, Alike, Live, Held, ElementsOf
<1>3. Alike(Live, h) = {}
  BY <1>2 DEF Alike
<1>4. Cardinality(Attempts(h)) = 0 /\ Cardinality(Alike(offered, h)) = 0 /\ IsFiniteSet(Attempts(h))
  BY <1>1, <1>2, FS_EmptySet
<1> QED BY <1>2, <1>3, <1>4, FS_EmptySet DEF Credit, WithinCredit, CreditLeft

LEMMA CreditHolds == Spec => []CreditInv
<1>1. QueueInv /\ ItemInOnePlace /\ CreditInv /\ [Next]_vars => CreditInv'
  <2> SUFFICES ASSUME QueueInv, ItemInOnePlace, CreditInv, [Next]_vars PROVE CreditInv'
    OBVIOUS
  <2>1. IsFiniteSet(offered)'
    BY OfferedStep DEF CreditInv
  <2>2. \A h \in Hashes : Credit(h)'
    BY CreditStep
  <2> QED BY <2>1, <2>2 DEF CreditInv
<1> QED BY <1>1, CreditInit, QueueInvariant, ItemsStayInOnePlace, PTL DEF Spec

\* However many items share a hash code and however the failures of several threads
\* interleave, ConsumeAction is called three times at most for each of them offered.
THEOREM RetriesAreBounded == Spec => []RetriesBoundedPerHash
<1>1. CreditInv => RetriesBoundedPerHash
  BY DEF CreditInv, Credit, WithinCredit, RetriesBoundedPerHash, Alike
<1> QED BY <1>1, CreditHolds, PTL

----------------------------------------------------------------------------
\* The delivery of items whose hash codes may collide.

\* An ItemDelivery that tries an item as often as M items of one hash code may be tried.
Shared(M) == INSTANCE ItemDelivery WITH
  MaxAttempts <- 3 * M,
  attempts <- delivered,
  fate <- [i \in Items |-> Fate(i)]

\* An item that waits for a call of ConsumeAction has not used up its hash code's calls.
LEMMA AwaitingHasCredit ==
  ASSUME QueueInv, ItemInOnePlace, CreditInv, NEW i \in Items, i \in Awaiting
  PROVE  delivered[i] < 3 * Cardinality(Alike(offered, HashOf[i]))
<1> DEFINE h == HashOf[i]
           d == delivered[i]
           E == {i} \X (1..d)
           a == Cardinality(Attempts(h))
           w == Cardinality(Alike(Awaiting, h))
           l == Cardinality(Alike(Live, h))
           o == Cardinality(Alike(offered, h))
<1>1. h \in Hashes /\ d \in Nat /\ retryCount[h] \in 0..2
  BY ConstantsAssumption DEF QueueInv, TypeOK, RetryLimit
<1>2. i \in Alike(Awaiting, h) /\ Alike(Live, h) # {}
  BY AwaitingParts, LiveParts DEF Alike
<1>3. Credit(h) /\ IsFiniteSet(offered)
  BY <1>1 DEF CreditInv
<1>4. Cardinality(E) = d
  <2> DEFINE g == [n \in 1..d |-> <<i, n>>]
  <2>1. g \in Bijection(1..d, E)
    <3>1. g \in [1..d -> E]
      OBVIOUS
    <3>2. \A m, n \in 1..d : g[m] = g[n] => m = n
      OBVIOUS
    <3>3. \A e \in E : \E n \in 1..d : g[n] = e
      OBVIOUS
    <3> QED BY <3>1, <3>2, <3>3 DEF Bijection, Injection, Surjection, IsInjective
  <2>2. ExistsBijection(1..d, E)
    BY <2>1 DEF ExistsBijection
  <2> HIDE DEF d, E
  <2>3. 1 \in Int /\ d \in Int
    BY <1>1
  <2>4. IsFiniteSet(1..d) /\ Cardinality(1..d) = IF 1 > d THEN 0 ELSE d - 1 + 1
    BY <2>3, FS_Interval
  <2>5. Cardinality(1..d) = d
    BY <1>1, <2>4
  <2> QED BY <2>2, <2>4, <2>5, FS_Bijection
<1>5. E \subseteq Attempts(h)
  BY DEF Attempts
<1>6. a \in Nat /\ d <= a
  <2>1. IsFiniteSet(Attempts(h))
    BY <1>3 DEF Credit
  <2>2. a \in Nat
    BY <2>1, FS_CardinalityType
  <2>3. Cardinality(E) <= a
    BY <2>1, <1>5, PartSize
  <2> QED BY <1>4, <2>2, <2>3
<1> HIDE DEF d
<1>7. w \in Nat /\ l \in Nat /\ o \in Nat /\ l >= 1
  BY <1>1, <1>2, <1>3, ClassSizes
<1>8. w # 0
  BY <1>1, <1>2, <1>3, ClassSizes, FS_EmptySet
<1>9. a + w + 2 * l <= 3 * o + retryCount[h]
  BY <1>2, <1>3 DEF Credit, CreditLeft
<1> HIDE DEF a, w, l, o
<1>10. d < 3 * o
  BY <1>1, <1>6, <1>7, <1>8, <1>9
<1> QED BY <1>10 DEF d, o

\* Where M items at most share a hash code, the queue is an ItemDelivery with 3 * M attempts
\* for each item; its threads, retries and adjustments break no other promise of it.
THEOREM SharedHashesDeliver ==
  ASSUME NEW M \in Nat,
         \A h \in Hashes : IsFiniteSet(Alike(Items, h)) /\ Cardinality(Alike(Items, h)) <= M
  PROVE  Spec => Shared(M)!Spec
<1>1. Init => Shared(M)!Init
  <2> SUFFICES ASSUME Init PROVE Shared(M)!Init
    OBVIOUS
  <2> QED BY DeliveryInit DEF Delivery!Init, Shared!Init
<1>2. ASSUME QueueInv, ItemInOnePlace, CreditInv, [Next]_vars
      PROVE  Shared(M)!Next
  <2>1. ASSUME UNCHANGED history
        PROVE  Shared(M)!Next
    <3>1. PICK S \in SUBSET Items : Delivery!Lose(S)
      BY <1>2, <2>1, NothingNew, LosesSome
    <3>2. Shared(M)!Lose(S)
      BY <3>1 DEF Delivery!Lose, Delivery!Pending, Delivery!Become,
                  Shared!Lose, Shared!Pending, Shared!Become
    <3> QED BY <3>2 DEF Shared!Next
  <2>2. ASSUME NEW i \in Items, EnqueueChecksStatus(i)
        PROVE  Shared(M)!Next
    <3>1. Delivery!Offer(i)
      BY <1>2, <2>2, OfferStep
    <3>2. Shared(M)!Offer(i)
      BY <3>1 DEF Delivery!Offer, Delivery!Become, Shared!Offer, Shared!Become
    <3> QED BY <3>2 DEF Shared!Next
  <2>3. ASSUME NEW c \in Consumers, ConsumeSucceeds(c) \/ ConsumeFails(c)
        PROVE  Shared(M)!Next
    <3> DEFINE S == Held(c)
    <3>1. /\ S \in SUBSET Items /\ Delivery!Pending(S)
          /\ delivered' = [i \in Items |-> IF i \in S THEN delivered[i] + 1 ELSE delivered[i]]
          /\ Delivery!Become(S, "consumed") \/ UNCHANGED fates
      BY <1>2, <2>3, BatchIsTried
    <3>2. S \subseteq Awaiting
      BY <2>3, AwaitingParts DEF ConsumeSucceeds, ConsumeFails
    <3>3. ASSUME NEW i \in S
          PROVE  delivered[i] < 3 * M
      <4> DEFINE o == Cardinality(Alike(offered, HashOf[i]))
                 n == Cardinality(Alike(Items, HashOf[i]))
      <4>1. i \in Items /\ HashOf[i] \in Hashes /\ delivered[i] \in Nat
        BY <1>2, <3>1, ConstantsAssumption DEF QueueInv, TypeOK
      <4>2. delivered[i] < 3 * o
        BY <1>2, <3>2, <4>1, AwaitingHasCredit
      <4>3. Alike(offered, HashOf[i]) \subseteq Alike(Items, HashOf[i])
        BY <1>2 DEF Alike, QueueInv, TypeOK
      <4>4. IsFiniteSet(Alike(Items, HashOf[i])) /\ n <= M
        BY <4>1
      <4>5. n \in Nat /\ o \in Nat /\ o <= n
        BY <4>3, <4>4, PartSize, FS_CardinalityType
      <4> HIDE DEF o, n
      <4> QED BY <4>1, <4>2, <4>4, <4>5
    <3>4. Shared(M)!Pending(S)
      BY <3>1 DEF Delivery!Pending, Shared!Pending
    <3>5. Shared(M)!Become(S, "consumed") \/ UNCHANGED fates
      BY <3>1 DEF Delivery!Become, Shared!Become
    <3>6. Shared(M)!Attempt(S)
      BY <3>1, <3>3, <3>4, <3>5 DEF Shared!Attempt, fates
    <3> QED BY <3>1, <3>6 DEF Shared!Next
  <2> QED BY <1>2, <2>1, <2>2, <2>3, HistorySteps
<1>3. QueueInv /\ ItemInOnePlace /\ CreditInv /\ [Next]_vars
      => [Shared(M)!Next]_<<[i \in Items |-> Fate(i)], delivered>>
  BY <1>2
<1> QED
  BY <1>1, <1>3, QueueInvariant, ItemsStayInOnePlace, CreditHolds, PTL DEF Spec, Shared!Spec
=============================================================================
