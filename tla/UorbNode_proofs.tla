-------------------------- MODULE UorbNode_proofs ---------------------------
(***************************************************************************)
(* Proofs about a uORB topic, for every number of publishers and           *)
(* subscriptions, every queue size and every width of the generation.      *)
(***************************************************************************)
EXTENDS UorbNode, TLAPS

-----------------------------------------------------------------------------
(* Arithmetic of generations.                                              *)

(* Division with remainder.                                                *)
LEMMA ModDef ==
  ASSUME NEW a \in Int, NEW z \in Nat \ {0}
  PROVE  a \div z \in Int /\ a % z \in 0 .. z - 1 /\ a = z * (a \div z) + (a % z)
OBVIOUS

(* A quotient and a remainder in range are the ones.                       *)
LEMMA ModUnique ==
  ASSUME NEW z \in Nat \ {0}, NEW d \in Int, NEW r \in 0 .. z - 1
  PROVE  (z * d + r) % z = r
<1>. DEFINE a == z * d + r
            e == a \div z
            t == a % z
<1>1. e \in Int /\ t \in 0 .. z - 1 /\ a = z * e + t
  BY ModDef
<1>. HIDE DEF e, t
<1>2. z * (d - e) = t - r
  BY <1>1
<1>3. d - e \in Int /\ t - r \in -(z - 1) .. z - 1
  BY <1>1
<1>4. ASSUME NEW m \in Int, m >= 1  PROVE  z * m >= z
  BY <1>4
<1>5. ~(d - e >= 1)
  BY <1>2, <1>3, <1>4
<1>6. ~(e - d >= 1)
  <2>1. z * (e - d) = r - t
    BY <1>1
  <2>. QED  BY <1>1, <1>3, <1>4, <2>1
<1>7. d = e
  BY <1>1, <1>5, <1>6
<1>. QED
  BY <1>1, <1>7 DEF t

(* A size that divides the number of generations does not see the wrap.    *)
LEMMA ModMod ==
  ASSUME NEW a \in Int, NEW k \in Int, NEW z \in Nat \ {0}, NEW w \in Nat \ {0}, w % z = 0
  PROVE  ((a % w) - k) % z = (a - k) % z
<1>. DEFINE c == w \div z
            d == a \div w
            e == ((a % w) - k) \div z
            r == ((a % w) - k) % z
<1>1. c \in Int /\ w = z * c
  BY ModDef
<1>2. d \in Int /\ a % w \in Int /\ a = w * d + (a % w)
  BY ModDef
<1>3. e \in Int /\ r \in 0 .. z - 1 /\ (a % w) - k = z * e + r
  BY <1>2, ModDef
<1>. HIDE DEF c, d, e, r
<1>4. a - k = w * d + (z * e + r)
  BY <1>2, <1>3
<1>5. w * d = z * (c * d)
  BY <1>1, <1>2
<1>6. c * d \in Int /\ c * d + e \in Int
  BY <1>1, <1>2, <1>3
<1>7. a - k = z * (c * d + e) + r
  BY <1>3, <1>4, <1>5, <1>6
<1>8. (a - k) % z = r
  BY <1>3, <1>6, <1>7, ModUnique
<1>. QED
  BY <1>8 DEF r

(* Numbers less than a round apart have different remainders.              *)
LEMMA ModDistinct ==
  ASSUME NEW z \in Nat \ {0}, NEW a \in Int, NEW b \in Int, a < b, b < a + z
  PROVE  a % z # b % z
<1>. SUFFICES ASSUME a % z = b % z  PROVE  FALSE
  OBVIOUS
<1>. DEFINE d == a \div z
            e == b \div z
<1>1. d \in Int /\ e \in Int /\ a % z \in Int /\ a = z * d + (a % z) /\ b = z * e + (a % z)
  BY ModDef
<1>. HIDE DEF d, e
<1>2. z * (e - d) = b - a /\ e - d \in Int
  BY <1>1
<1>3. ASSUME NEW m \in Int, m >= 1  PROVE  z * m >= z
  BY <1>3
<1>4. ASSUME NEW m \in Int, m <= 0  PROVE  z * m <= 0
  BY <1>4
<1>. QED
  BY <1>2, <1>3, <1>4

(* A number that is less than a round from zero, or from a multiple.       *)
LEMMA ModSmall ==
  ASSUME NEW w \in Nat \ {0}, NEW a \in Int
  PROVE  /\ a \in 0 .. w - 1 => a % w = a
         /\ a \in -w .. -1 => a % w = a + w
         /\ \A j \in Int : (w * j + a) % w = a % w
         /\ \A b \in Int : ((a % w) + b) % w = (a + b) % w
<1>1. a \in 0 .. w - 1 => a % w = a
  <2>1. a = w * 0 + a
    OBVIOUS
  <2>. QED  BY <2>1, ModUnique
<1>2. a \in -w .. -1 => a % w = a + w
  <2>1. a = w * (-1) + (a + w)
    OBVIOUS
  <2>2. a \in -w .. -1 => a + w \in 0 .. w - 1
    OBVIOUS
  <2>. QED  BY <2>1, <2>2, ModUnique
<1>3. ASSUME NEW j \in Int  PROVE  (w * j + a) % w = a % w
  <2>. DEFINE d == a \div w
              r == a % w
  <2>1. d \in Int /\ r \in 0 .. w - 1 /\ a = w * d + r
    BY ModDef
  <2>. HIDE DEF d, r
  <2>2. w * j + a = w * (j + d) + r /\ j + d \in Int
    BY <2>1
  <2>3. (w * j + a) % w = r
    BY <2>1, <2>2, ModUnique
  <2>. QED  BY <2>3 DEF r
<1>4. ASSUME NEW b \in Int  PROVE  ((a % w) + b) % w = (a + b) % w
  <2>. DEFINE d == a \div w
              r == a % w
              e == (r + b) \div w
              t == (r + b) % w
  <2>1. d \in Int /\ r \in 0 .. w - 1 /\ a = w * d + r
    BY ModDef
  <2>. HIDE DEF d, r
  <2>2. e \in Int /\ t \in 0 .. w - 1 /\ r + b = w * e + t
    <3>1. r + b \in Int
      BY <2>1
    <3>. QED  BY <3>1, ModDef
  <2>. HIDE DEF e, t
  <2>3. a + b = w * (d + e) + t /\ d + e \in Int
    BY <2>1, <2>2
  <2>4. (a + b) % w = t
    BY <2>2, <2>3, ModUnique
  <2>. QED  BY <2>4 DEF r, t
<1>. QED
  BY <1>1, <1>2, <1>3, <1>4

(* A size of which twice divides the number of generations divides it, and *)
(* is at most half of it.                                                  *)
LEMMA SizeDivides ==
  ASSUME NEW z \in Nat \ {0}, NEW w \in Nat \ {0}, w % (2 * z) = 0
  PROVE  w % z = 0 /\ 2 * z <= w /\ z \in 1 .. w \div 2
<1>. DEFINE y == 2 * z
            d == w \div y
<1>1. d \in Int /\ w = (2 * z) * d
  <2>1. y \in Nat \ {0} /\ w % y = 0
    OBVIOUS
  <2>. HIDE DEF y
  <2>2. w \div y \in Int /\ w = y * (w \div y) + 0
    BY <2>1, ModDef
  <2>. QED  BY <2>1, <2>2 DEF y
<1>. HIDE DEF y, d
<1>2. d >= 1
  <2>1. ASSUME NEW m \in Int, m <= 0  PROVE  (2 * z) * m <= 0
    BY <2>1
  <2>. QED  BY <1>1, <2>1
<1>3. w = z * (2 * d) + 0
  BY <1>1
<1>4. w % z = 0
  BY <1>1, <1>3, ModUnique
<1>5. ASSUME NEW m \in Int, m >= 1  PROVE  (2 * z) * m >= 2 * z
  BY <1>5
<1>6. 2 * z <= w
  BY <1>1, <1>2, <1>5
<1>. QED
  BY <1>4, <1>6

(* IsInRange on generations that wrap: of the numbers before m, it accepts *)
(* those not before the left end.                                          *)
LEMMA InRange ==
  ASSUME NEW w \in Nat \ {0}, NEW m \in Int, NEW u \in 0 .. w - 2, NEW v \in 1 .. w - 1
  PROVE  IsInRange((m - v) % w, (m - u) % w, m % w) <=> u <= v
<1>. DEFINE r == m % w
            j == m \div w
<1>1. r \in 0 .. w - 1 /\ j \in Int /\ m = w * j + r
  BY ModDef
<1>. HIDE DEF j, r
<1>2. ASSUME NEW x \in 0 .. w - 1
      PROVE  (m - x) % w = IF x <= r THEN r - x ELSE r - x + w
  <2>1. m - x = w * j + (r - x) /\ r - x \in Int
    BY <1>1
  <2>2. (m - x) % w = (r - x) % w
    <3>1. \A a, i \in Int : (w * i + a) % w = a % w
      BY ModSmall
    <3>2. (w * j + (r - x)) % w = (r - x) % w
      BY <1>1, <2>1, <3>1
    <3>. QED  BY <2>1, <3>2
  <2>3. IF x <= r THEN r - x \in 0 .. w - 1 ELSE r - x \in -w .. -1
    BY <1>1
  <2>. QED  BY <2>1, <2>2, <2>3, ModSmall
<1>3. u \in 0 .. w - 1 /\ v \in 0 .. w - 1
  OBVIOUS
<1>4. /\ (m - u) % w = IF u <= r THEN r - u ELSE r - u + w
      /\ (m - v) % w = IF v <= r THEN r - v ELSE r - v + w
  BY <1>2, <1>3
<1>5. m % w = r
  BY DEF r
<1>. QED
  BY <1>1, <1>4, <1>5 DEF IsInRange

-----------------------------------------------------------------------------
TopicInv == TypeOK /\ NodeInv /\ SubInv

(* The message a copy delivers: the next one, the oldest one kept if the   *)
(* reader is further behind, or once more the latest one.                  *)
Wanted(s) ==
  IF hist.pos[s] = hist.count THEN hist.count
  ELSE IF hist.count > hist.pos[s] + node.size THEN hist.count - node.size + 1
  ELSE hist.pos[s] + 1

(* The queue size divides the range of the generation.                     *)
LEMMA SizeFacts ==
  ASSUME TopicInv
  PROVE  /\ WORD \in Nat \ {0} /\ node.size \in Nat \ {0} /\ hist.count \in Nat
         /\ WORD % node.size = 0 /\ WORD % WORD = 0 /\ 2 * node.size <= WORD
         /\ \A a \in Int : a % node.size \in Slots /\ a % WORD \in 0 .. WORD - 1
<1>1. WORD \in Nat \ {0} /\ node.size \in Nat \ {0} /\ hist.count \in Nat
  BY UorbAssumption DEF TopicInv, TypeOK
<1>2. WORD % node.size = 0 /\ 2 * node.size <= WORD /\ node.size \in 1 .. WORD \div 2
  BY <1>1, SizeDivides DEF TopicInv, NodeInv
<1>3. WORD % WORD = 0
  <2>1. WORD = WORD * 1 + 0
    BY <1>1
  <2>. QED  BY <1>1, <2>1, ModUnique
<1>4. ASSUME NEW a \in Int  PROVE  a % node.size \in 0 .. node.size - 1 /\ a % WORD \in 0 .. WORD - 1
  BY <1>1, ModDef
<1>5. WORD \div 2 \in Nat
  BY <1>1, ModDef
<1>6. 0 .. node.size - 1 \subseteq Slots
  BY <1>1, <1>2, <1>5 DEF Slots
<1>. QED
  BY <1>1, <1>2, <1>3, <1>4, <1>6

(* The wrap of the generation changes neither differences modulo the range *)
(* nor slots.                                                              *)
LEMMA WrapFacts ==
  ASSUME TopicInv, NEW a \in Int, NEW k \in Int
  PROVE  /\ ((a % WORD) - k) % WORD = (a - k) % WORD
         /\ ((a % WORD) - k) % node.size = (a - k) % node.size
         /\ (a % WORD) % node.size = a % node.size
         /\ ((a % WORD) + k) % WORD = (a + k) % WORD
<1>. DEFINE w == WORD
            z == node.size
<1>1. w \in Nat \ {0} /\ z \in Nat \ {0} /\ w % z = 0 /\ w % w = 0
  BY SizeFacts
<1>. HIDE DEF w, z
<1>2. ((a % w) - k) % w = (a - k) % w
  BY <1>1, ModMod
<1>3. \A i \in Int : ((a % w) - i) % z = (a - i) % z
  BY <1>1, ModMod
<1>4. (a % w) % z = a % z
  <2>1. ((a % w) - 0) % z = (a - 0) % z
    BY <1>3
  <2>2. a % w \in Int
    BY <1>1, ModDef
  <2>. QED  BY <2>1, <2>2
<1>5. ((a % w) + k) % w = (a + k) % w
  BY <1>1, ModSmall
<1>. QED
  BY <1>2, <1>3, <1>4, <1>5 DEF w, z

(* DeviceNode::copy chooses the generation of that message, although it    *)
(* compares generations that wrap.                                         *)
LEMMA ChosenIsWanted ==
  ASSUME TopicInv, NEW s \in Subs, sub[s].valid, node.size > 1
  PROVE  Chosen(sub[s].gen) = (Wanted(s) - 1) % WORD
<1>. DEFINE c == hist.count
            p == hist.pos[s]
            z == node.size
            now == node.generation
<1>1. WORD \in Nat \ {0} /\ z \in Nat /\ z > 1 /\ c \in Nat /\ WORD % WORD = 0 /\ 2 * z <= WORD
  BY SizeFacts
<1>2. p \in Nat /\ p <= c /\ c - p < WORD /\ sub[s].gen = p % WORD /\ now = c % WORD
  BY DEF TopicInv, TypeOK, NodeInv, SubInv
<1>. HIDE DEF c, p, z, now
<1>3. ASSUME NEW k \in Int  PROVE  (now - k) % WORD = (c - k) % WORD
  <2>1. ((c % WORD) - k) % WORD = (c - k) % WORD
    <3>1. \A a \in Int : ((a % WORD) - k) % WORD = (a - k) % WORD
      BY WrapFacts
    <3>. QED  BY <1>1, <3>1
  <2>. QED  BY <1>2, <2>1
<1>4. (now - 1) % WORD = (c - 1) % WORD /\ (now - z) % WORD = ((c - 1) - (z - 1)) % WORD
  <2>1. c - z = (c - 1) - (z - 1)
    BY <1>1
  <2>. QED  BY <1>1, <1>3, <2>1
<1>5. c - 1 \in Int /\ z - 1 \in 1 .. WORD - 1
  BY <1>1
<1>6. CASE p = c
  <2>1. sub[s].gen = now /\ (sub[s].gen - 1) % WORD = (c - 1) % WORD
    BY <1>2, <1>4, <1>6
  <2>2. 0 \in 0 .. WORD - 2 /\ (c - 1) - 0 = c - 1 /\ 0 <= z - 1
    BY <1>1
  <2>3. IsInRange((now - z) % WORD, (c - 1) % WORD, (now - 1) % WORD)
    BY <1>1, <1>4, <1>5, <2>2, InRange
  <2>4. Wanted(s) = c
    BY <1>6 DEF Wanted, c, p
  <2>. QED  BY <1>4, <2>1, <2>3, <2>4 DEF Chosen, now, z
<1>7. CASE p # c
  <2>1. sub[s].gen # now
    <3>1. p \in Int /\ c \in Int /\ p < c /\ c < p + WORD
      BY <1>1, <1>2, <1>7
    <3>2. p % WORD # c % WORD
      BY <1>1, <3>1, ModDistinct
    <3>. QED  BY <1>2, <3>2
  <2>2. (c - 1) - p \in 0 .. WORD - 2 /\ (c - 1) - ((c - 1) - p) = p
    BY <1>1, <1>2, <1>7
  <2>3. IsInRange((now - z) % WORD, sub[s].gen, (now - 1) % WORD) <=> (c - 1) - p <= z - 1
    <3>. DEFINE u == (c - 1) - p
    <3>1. u \in 0 .. WORD - 2 /\ (c - 1) - u = p
      BY <2>2
    <3>. HIDE DEF u
    <3>2. IsInRange(((c - 1) - (z - 1)) % WORD, ((c - 1) - u) % WORD, (c - 1) % WORD) <=> u <= z - 1
      BY <1>1, <1>5, <3>1, InRange
    <3>. QED  BY <1>2, <1>4, <3>1, <3>2 DEF u
  <2>4. CASE c <= p + z
    <3>1. Chosen(sub[s].gen) = sub[s].gen
      BY <1>1, <1>2, <2>1, <2>3, <2>4 DEF Chosen, now, z
    <3>2. Wanted(s) - 1 = p
      BY <1>1, <1>2, <1>7, <2>4 DEF Wanted, c, p, z
    <3>. QED  BY <1>2, <3>1, <3>2
  <2>5. CASE c > p + z
    <3>1. Chosen(sub[s].gen) = (now - z) % WORD
      BY <1>1, <1>2, <2>1, <2>3, <2>5 DEF Chosen, now, z
    <3>2. Wanted(s) - 1 = c - z
      BY <1>1, <1>2, <1>7, <2>5 DEF Wanted, c, p, z
    <3>. QED  BY <1>1, <1>3, <3>1, <3>2
  <2>. QED  BY <1>1, <1>2, <2>4, <2>5
<1>. QED
  BY <1>6, <1>7

(* So it copies the message wanted, and the subscription's generation is   *)
(* the message's afterwards.                                               *)
LEMMA CopyFacts ==
  ASSUME TopicInv, NEW s \in Subs, sub[s].valid,
         NEW slot, slot = IF node.size = 1 THEN 0 ELSE Chosen(sub[s].gen) % node.size,
         NEW gen, gen = IF node.size = 1 THEN node.generation ELSE (Chosen(sub[s].gen) + 1) % WORD
  PROVE  /\ Wanted(s) \in 0 .. hist.count
         /\ hist.count - Wanted(s) < WORD
         /\ node.data[slot] = Wanted(s)
         /\ gen = Wanted(s) % WORD /\ gen \in 0 .. WORD - 1
<1>. DEFINE c == hist.count
            p == hist.pos[s]
            z == node.size
            n == Wanted(s)
<1>1. WORD \in Nat \ {0} /\ z \in Nat \ {0} /\ c \in Nat /\ 2 * z <= WORD
  BY SizeFacts
<1>2. p \in Nat /\ p <= c /\ c - p < WORD
  BY DEF TopicInv, TypeOK, SubInv
<1>3. n \in 0 .. c /\ (c # 0 => n \in 1 .. c /\ n > c - z) /\ c - n < WORD
  BY <1>1, <1>2 DEF Wanted
<1>4. slot = (n - 1) % z /\ slot \in Slots
  <2>1. CASE z = 1
    <3>1. \A a \in Int : a % 1 \in 0 .. 0
      BY ModDef
    <3>2. n - 1 \in Int
      BY <1>3
    <3>3. (n - 1) % z \in Slots
      BY <3>2, SizeFacts
    <3>. QED  BY <2>1, <3>1, <3>2, <3>3
  <2>2. CASE z # 1
    <3>1. Chosen(sub[s].gen) = (n - 1) % WORD
      BY <1>1, <2>2, ChosenIsWanted
    <3>2. n - 1 \in Int
      BY <1>3
    <3>3. \A a \in Int : (a % WORD) % z = a % z
      BY WrapFacts
    <3>4. \A a \in Int : a % z \in Slots
      BY SizeFacts
    <3>. QED  BY <2>2, <3>1, <3>2, <3>3, <3>4
  <2>. QED  BY <2>1, <2>2
<1>5. node.data[slot] = n
  <2>1. CASE c = 0
    <3>1. node.data[slot] = 0
      BY <1>4, <2>1 DEF TopicInv, NodeInv
    <3>. QED  BY <1>3, <2>1, <3>1
  <2>2. CASE c # 0
    BY <1>3, <1>4, <2>2 DEF TopicInv, NodeInv
  <2>. QED  BY <2>1, <2>2
<1>6. gen = n % WORD
  <2>1. CASE z = 1
    <3>1. n = c
      BY <1>1, <1>2, <2>1 DEF Wanted
    <3>. QED  BY <2>1, <3>1 DEF TopicInv, NodeInv
  <2>2. CASE z # 1
    <3>1. gen = (((n - 1) % WORD) + 1) % WORD
      BY <1>1, <2>2, ChosenIsWanted
    <3>2. \A a \in Int : ((a % WORD) + 1) % WORD = (a + 1) % WORD
      BY WrapFacts
    <3>3. n - 1 \in Int /\ (n - 1) + 1 = n
      BY <1>3
    <3>4. (((n - 1) % WORD) + 1) % WORD = ((n - 1) + 1) % WORD
      BY <3>2, <3>3
    <3>. QED  BY <3>1, <3>3, <3>4
  <2>. QED  BY <2>1, <2>2
<1>7. n % WORD \in 0 .. WORD - 1
  BY <1>3, SizeFacts
<1>. QED
  BY <1>3, <1>5, <1>6, <1>7

(* round_pow_of_two_8 yields a size that divides the number of             *)
(* generations, not smaller than what was asked for if a byte can hold it. *)
LEMMA RoundFacts ==
  ASSUME NEW p \in Publishers
  PROVE  /\ RoundPowOfTwo(REQUESTED[p]) \in Powers
         /\ WORD % (2 * RoundPowOfTwo(REQUESTED[p])) = 0
         /\ RoundPowOfTwo(REQUESTED[p]) >= REQUESTED[p] \/ RoundPowOfTwo(REQUESTED[p]) = 128
<1>. DEFINE n == REQUESTED[p]
            m == RoundPowOfTwo(n)
<1>1. n \in 0 .. 255
  BY UorbAssumption
<1>. HIDE DEF n
<1>2. m \in Powers /\ (m < 2 * n \/ m = 1) /\ (m >= n \/ m = 128)
  <2>1. CASE n > 128
    BY <1>1, <2>1 DEF RoundPowOfTwo, Powers
  <2>2. CASE n <= 128
    <3>1. \E k \in Powers : k >= n /\ (k < 2 * n \/ k = 1)
      BY <1>1, <2>2 DEF Powers
    <3>2. m = CHOOSE k \in Powers : k >= n /\ (k < 2 * n \/ k = 1)
      BY <1>1, <2>2 DEF RoundPowOfTwo
    <3>. QED  BY <3>1, <3>2
  <2>. QED  BY <1>1, <2>1, <2>2
<1>3. WORD % (2 * m) = 0
  <2>1. CASE m = 1
    BY <2>1, UorbAssumption
  <2>2. CASE m < 2 * n
    BY <1>2, <2>2, UorbAssumption DEF n
  <2>. QED  BY <1>2, <2>1, <2>2
<1>. QED
  BY <1>2, <1>3 DEF n

-----------------------------------------------------------------------------
(* Steps of the publishers.                                                *)

(* A publication puts the message in its slot and takes the place of the   *)
(* oldest.                                                                 *)
LEMMA WriteStep ==
  ASSUME TopicInv, NEW p \in Publishers, Write(p)
  PROVE  TopicInv'
<1>. DEFINE c == hist.count
            z == node.size
<1>1. WORD \in Nat \ {0} /\ z \in Nat \ {0} /\ c \in Nat /\ c + 1 <= MaxMessages
  BY SizeFacts, UorbAssumption DEF Write
<1>2. node.generation = c % WORD
  BY DEF TopicInv, NodeInv
<1>3. node.generation % z = c % z /\ node.generation % z \in Slots
  <2>1. \A a \in Int : (a % WORD) % z = a % z /\ a % z \in Slots
    BY SizeFacts, WrapFacts
  <2>. QED  BY <1>1, <1>2, <2>1
<1>4. (node.generation + 1) % WORD = (c + 1) % WORD /\ (c + 1) % WORD \in 0 .. WORD - 1
  <2>1. \A a \in Int : ((a % WORD) + 1) % WORD = (a + 1) % WORD
    BY WrapFacts
  <2>2. \A a \in Int : a % WORD \in 0 .. WORD - 1
    BY SizeFacts
  <2>3. c \in Int /\ c + 1 \in Int
    BY <1>1
  <2>. QED  BY <1>2, <2>1, <2>2, <2>3
<1>5. hist'.count = c + 1 /\ hist'.pos = hist.pos
  BY DEF Write, TopicInv, TypeOK
<1>6. /\ node'.size = z /\ node'.exists = node.exists /\ node'.allocated = node.allocated
      /\ node'.data = [node.data EXCEPT ![c % z] = c + 1]
      /\ node'.generation = (c + 1) % WORD /\ node'.data_valid = TRUE
  BY <1>3, <1>4 DEF Write, TopicInv, TypeOK
<1>7. \A s \in Subs : /\ sub'[s].valid = sub[s].valid /\ sub'[s].gen = sub[s].gen
                      /\ sub'[s].step = sub[s].step
  BY DEF Write, TopicInv, TypeOK
<1>8. pub' = [pub EXCEPT ![p] = "ready"] /\ pub[p] = "writing"
  BY DEF Write
<1>9. TypeOK'
  <2>1. node' \in [exists : BOOLEAN, advertised : BOOLEAN, size : 1 .. WORD \div 2,
               data : [Slots -> 0 .. MaxMessages], allocated : BOOLEAN, data_valid : BOOLEAN,
               generation : 0 .. WORD - 1, callbacks : SUBSET Subs]
    <3>1. c + 1 \in 0 .. MaxMessages
      BY <1>1, UorbAssumption
    <3>. QED  BY <1>3, <1>4, <3>1 DEF Write, TopicInv, TypeOK
  <2>2. sub' \in [Subs -> [valid : BOOLEAN, gen : 0 .. WORD - 1,
                           step : {"idle", "copying", "registering"},
                           scheduled : BOOLEAN, running : BOOLEAN]]
    <3>1. ASSUME NEW s \in Subs, NEW b \in BOOLEAN
          PROVE  [sub[s] EXCEPT !.scheduled = @ \/ b] \in
                   [valid : BOOLEAN, gen : 0 .. WORD - 1, step : {"idle", "copying", "registering"},
                    scheduled : BOOLEAN, running : BOOLEAN]
      BY DEF TopicInv, TypeOK
    <3>2. \A s \in Subs : Called(s, (node.generation + 1) % WORD) \in BOOLEAN
      BY DEF Called, TopicInv, TypeOK
    <3>. QED  BY <3>1, <3>2 DEF Write
  <2>3. hist' \in [count : 0 .. MaxMessages, pos : [Subs -> 0 .. MaxMessages],
                   due : [Subs -> 0 .. MaxMessages]]
    <3>. DEFINE due == [s \in Subs |-> IF s \in node.callbacks /\ node.advertised
                                      THEN c + 1 ELSE hist.due[s]]
    <3>1. c + 1 \in 0 .. MaxMessages
      BY <1>1, UorbAssumption
    <3>2. due \in [Subs -> 0 .. MaxMessages]
      BY <3>1 DEF TopicInv, TypeOK
    <3>3. hist' = [hist EXCEPT !.count = c + 1, !.due = due]
      BY DEF Write
    <3>. HIDE DEF due
    <3>. QED  BY <3>1, <3>2, <3>3 DEF TopicInv, TypeOK
  <2>4. pub' \in [Publishers -> {"none", "opened", "ready", "writing", "leaving"}]
    BY <1>8 DEF TopicInv, TypeOK
  <2>. QED  BY <2>1, <2>2, <2>3, <2>4 DEF TypeOK
<1>10. ASSUME NEW n \in 1 .. c + 1, n > c + 1 - z
       PROVE  node'.data[(n - 1) % z] = n
  <2>1. c % z \in Slots /\ node.data \in [Slots -> 0 .. MaxMessages]
    BY <1>3 DEF TopicInv, TypeOK
  <2>2. CASE n = c + 1
    <3>1. n - 1 = c
      BY <1>1, <2>2
    <3>. QED  BY <1>6, <2>1, <2>2, <3>1
  <2>3. CASE n # c + 1
    <3>1. n \in 1 .. c /\ n > c - z /\ n - 1 \in Int /\ c \in Int /\ n - 1 < c /\ c < (n - 1) + z
      BY <1>1, <1>10, <2>3
    <3>2. (n - 1) % z # c % z
      BY <1>1, <3>1, ModDistinct
    <3>3. (n - 1) % z \in Slots
      BY <3>1, SizeFacts
    <3>4. node.data[(n - 1) % z] = n
      BY <3>1 DEF TopicInv, NodeInv
    <3>. QED  BY <1>6, <2>1, <3>2, <3>3, <3>4
  <2>. QED  BY <2>2, <2>3
<1>11. NodeInv'
  <2>1. \A o \in Publishers : /\ pub'[o] # "none" => node'.exists
                              /\ pub'[o] = "writing" => node'.allocated
    BY <1>6, <1>8 DEF TopicInv, NodeInv, TypeOK
  <2>2. node'.allocated
    BY <1>6, <1>8 DEF TopicInv, NodeInv
  <2>3. c + 1 # 0 /\ c + 1 > 0
    BY <1>1
  <2>4. \A n \in 1 .. hist'.count : n > hist'.count - node'.size =>
           node'.data[(n - 1) % node'.size] = n
    <3>1. \A n \in 1 .. c + 1 : n > c + 1 - z => node'.data[(n - 1) % z] = n
      BY <1>10
    <3>. QED  BY <1>1, <1>5, <1>6, <3>1
  <2>5. node'.size \in Powers /\ WORD % (2 * node'.size) = 0
    BY <1>6 DEF TopicInv, NodeInv
  <2>. QED  BY <1>5, <1>6, <2>1, <2>2, <2>3, <2>4, <2>5 DEF NodeInv
<1>12. SubInv'
  <2>1. node'.exists
    BY <1>6, <1>8 DEF TopicInv, NodeInv
  <2>2. ASSUME NEW s \in Subs
        PROVE  /\ hist.pos[s] <= c + 1
               /\ sub[s].valid => c + 1 - hist.pos[s] < WORD
    <3>1. hist.pos[s] \in Nat
      BY DEF TopicInv, TypeOK
    <3>. QED  BY <1>1, <3>1 DEF Write, LagBound, TopicInv, SubInv
  <2>3. ASSUME NEW s \in Subs
        PROVE  /\ hist'.pos[s] <= hist'.count
               /\ sub'[s].valid => /\ sub'[s].gen = hist'.pos[s] % WORD
                                   /\ hist'.count - hist'.pos[s] < WORD
               /\ sub'[s].step = "copying" => sub'[s].valid
    <3>1. hist.pos[s] \in Nat
      BY DEF TopicInv, TypeOK
    <3>2. /\ sub[s].valid => sub[s].gen = hist.pos[s] % WORD
          /\ sub[s].step = "copying" => sub[s].valid
      BY DEF TopicInv, SubInv
    <3>. QED  BY <1>1, <1>5, <1>7, <2>2, <3>1, <3>2
  <2>. QED  BY <2>1, <2>3 DEF SubInv
<1>. QED
  BY <1>9, <1>11, <1>12 DEF TopicInv

(* A step that leaves the messages and every subscription alone.           *)
LEMMA PublisherChange ==
  ASSUME TopicInv, TypeOK', hist'.count = hist.count, hist'.pos = hist.pos, sub' = sub,
         node.exists => node'.exists,
         node'.generation = node.generation /\ node'.data = node.data,
         node'.data_valid = node.data_valid,
         node.allocated => node'.allocated,
         node'.size \in Powers /\ WORD % (2 * node'.size) = 0,
         node'.size = node.size \/ hist.count = 0,
         \A p \in Publishers : /\ pub'[p] # "none" => node'.exists
                               /\ pub'[p] = "writing" => node'.allocated
  PROVE  TopicInv'
<1>1. \A n \in 1 .. hist'.count : n > hist'.count - node'.size =>
        node'.data[(n - 1) % node'.size] = n
  <2>1. CASE hist.count = 0
    BY <2>1
  <2>2. CASE node'.size = node.size
    BY <2>2 DEF TopicInv, NodeInv
  <2>. QED  BY <2>1, <2>2
<1>2. NodeInv'
  BY <1>1 DEF TopicInv, NodeInv
<1>3. SubInv'
  BY DEF TopicInv, SubInv
<1>. QED
  BY <1>2, <1>3 DEF TopicInv

(* Advertising, sizing and unadvertising move no message.                  *)
LEMMA PublisherStep ==
  ASSUME TopicInv, NEW p \in Publishers,
         Advertise(p) \/ UpdateQueueSize(p) \/ Allocate(p) \/ Destroy(p) \/ Unadvertise(p)
  PROVE  TopicInv'
<1>. USE DEF TopicInv, TypeOK
<1>1. CASE Advertise(p)
  BY <1>1, PublisherChange DEF Advertise, NodeInv
<1>2. CASE UpdateQueueSize(p)
  <2>1. CASE node.allocated \/ node.size >= REQUESTED[p]
    BY <1>2, <2>1, PublisherChange DEF UpdateQueueSize, NodeInv
  <2>2. CASE ~(node.allocated \/ node.size >= REQUESTED[p])
    <3>. DEFINE z == RoundPowOfTwo(REQUESTED[p])
    <3>1. z \in Powers /\ z \in Nat \ {0} /\ WORD % (2 * z) = 0
      BY RoundFacts DEF Powers
    <3>2. z \in 1 .. WORD \div 2
      BY <3>1, SizeDivides, UorbAssumption
    <3>. HIDE DEF z
    <3>3. node' = [node EXCEPT !.size = z]
      BY <1>2, <2>2 DEF UpdateQueueSize, z
    <3>4. hist.count = 0
      BY <2>2 DEF NodeInv
    <3>5. TypeOK'
      BY <1>2, <3>2, <3>3 DEF UpdateQueueSize
    <3>6. \A o \in Publishers : /\ pub'[o] # "none" => node'.exists
                                /\ pub'[o] = "writing" => node'.allocated
      BY <1>2, <3>3 DEF UpdateQueueSize, NodeInv
    <3>. QED
      BY <1>2, <3>1, <3>3, <3>4, <3>5, <3>6, PublisherChange DEF UpdateQueueSize
  <2>. QED  BY <2>1, <2>2
<1>3. CASE Allocate(p)
  BY <1>3, PublisherChange DEF Allocate, NodeInv
<1>4. CASE Destroy(p)
  BY <1>4, PublisherChange DEF Destroy, NodeInv
<1>5. CASE Unadvertise(p)
  <2>1. TypeOK'
    <3>. DEFINE due == [s \in Subs |-> 0]
    <3>1. due \in [Subs -> 0 .. MaxMessages] /\ hist' = [hist EXCEPT !.due = due]
      BY <1>5, UorbAssumption DEF Unadvertise
    <3>. HIDE DEF due
    <3>. QED  BY <1>5, <3>1 DEF Unadvertise
  <2>. QED  BY <1>5, <2>1, PublisherChange DEF Unadvertise, NodeInv
<1>. QED
  BY <1>1, <1>2, <1>3, <1>4, <1>5

-----------------------------------------------------------------------------
(* Steps of the subscriptions.                                             *)

(* A step that changes one subscription, as far as its generation is that  *)
(* of the message it has read last.                                        *)
LEMMA SubscriptionChange ==
  ASSUME TopicInv, TypeOK', NEW s \in Subs, pub' = pub, hist'.count = hist.count,
         node.exists => node'.exists,
         node'.size = node.size /\ node'.generation = node.generation /\ node'.data = node.data,
         node'.data_valid = node.data_valid /\ node'.allocated = node.allocated,
         \A r \in Subs \ {s} : sub'[r] = sub[r] /\ hist'.pos[r] = hist.pos[r],
         ~node'.exists => ~sub'[s].valid /\ sub'[s].gen = 0,
         hist'.pos[s] <= hist.count,
         sub'[s].valid => sub'[s].gen = hist'.pos[s] % WORD /\ hist.count - hist'.pos[s] < WORD,
         sub'[s].step = "copying" => sub'[s].valid
  PROVE  TopicInv'
<1>1. NodeInv'
  BY DEF TopicInv, NodeInv
<1>2. ~node'.exists => hist'.count = 0 /\ \A r \in Subs : ~sub'[r].valid /\ sub'[r].gen = 0
  BY DEF TopicInv, SubInv
<1>3. ASSUME NEW r \in Subs
      PROVE  /\ hist'.pos[r] <= hist'.count
             /\ sub'[r].valid => /\ sub'[r].gen = hist'.pos[r] % WORD
                                 /\ hist'.count - hist'.pos[r] < WORD
             /\ sub'[r].step = "copying" => sub'[r].valid
  BY DEF TopicInv, SubInv
<1>4. SubInv'
  BY <1>2, <1>3 DEF SubInv
<1>. QED
  BY <1>1, <1>4 DEF TopicInv

SubType ==
  [valid : BOOLEAN, gen : 0 .. WORD - 1, step : {"idle", "copying", "registering"},
   scheduled : BOOLEAN, running : BOOLEAN]

(* A subscription with another generation is a subscription.               *)
LEMMA SubTyped ==
  ASSUME TopicInv
  PROVE  /\ sub \in [Subs -> SubType] /\ WORD \in Nat \ {0}
         /\ \A s \in Subs, g \in 0 .. WORD - 1, v \in BOOLEAN :
              [sub[s] EXCEPT !.valid = v, !.gen = g] \in SubType
<1>1. sub \in [Subs -> SubType] /\ WORD \in Nat \ {0}
  BY UorbAssumption DEF TopicInv, TypeOK, SubType
<1>. QED
  BY <1>1 DEF SubType

(* A subscription that joins is placed before the latest message.          *)
LEMMA SubscribedFacts ==
  ASSUME TopicInv, NEW s \in Subs
  PROVE  /\ Subscribed(s) \in SubType
         /\ Joined(s) \in [Subs -> 0 .. MaxMessages]
         /\ \A r \in Subs \ {s} : Joined(s)[r] = hist.pos[r]
         /\ Joined(s)[s] <= hist.count
         /\ Subscribed(s).step = sub[s].step
         /\ ~node.exists => ~Subscribed(s).valid /\ Subscribed(s).gen = 0 /\ hist.count = 0
         /\ Subscribed(s).valid \/ ~node.exists =>
              /\ Subscribed(s).gen = Joined(s)[s] % WORD
              /\ hist.count - Joined(s)[s] < WORD
<1>1. WORD \in Nat \ {0} /\ hist.count \in 0 .. MaxMessages /\ hist.pos[s] \in 0 .. MaxMessages
      /\ hist.pos \in [Subs -> 0 .. MaxMessages] /\ MaxMessages \in Nat
  BY UorbAssumption DEF TopicInv, TypeOK
<1>2. CASE sub[s].valid \/ ~node.exists
  <2>1. Subscribed(s) = sub[s] /\ Joined(s) = hist.pos
    BY <1>2 DEF Subscribed, Joined
  <2>2. CASE ~node.exists
    <3>1. hist.count = 0 /\ ~sub[s].valid /\ sub[s].gen = 0 /\ hist.pos[s] = 0
      BY <1>1, <2>2 DEF TopicInv, SubInv
    <3>2. 0 % WORD = 0
      <4>1. 0 = WORD * 0 + 0
        BY <1>1
      <4>. QED  BY <1>1, <4>1, ModUnique
    <3>. QED  BY <1>1, <2>1, <3>1, <3>2 DEF TopicInv, TypeOK, SubType
  <2>3. CASE node.exists
    BY <1>1, <1>2, <2>1, <2>3 DEF TopicInv, TypeOK, SubInv, SubType
  <2>. QED  BY <2>2, <2>3
<1>3. CASE ~(sub[s].valid \/ ~node.exists)
  <2>. DEFINE k == IF node.data_valid THEN 1 ELSE 0
              g == (node.generation - k) % WORD
              x == hist.count - k
  <2>1. k \in Int /\ x \in 0 .. hist.count /\ hist.count - x < WORD
    <3>1. node.data_valid => hist.count > 0
      BY DEF TopicInv, NodeInv
    <3>2. WORD > 1
      BY UorbAssumption
    <3>. QED  BY <1>1, <3>1, <3>2
  <2>2. g = x % WORD /\ g \in 0 .. WORD - 1
    <3>1. \A a \in Int : ((a % WORD) - k) % WORD = (a - k) % WORD
      BY <2>1, WrapFacts
    <3>2. g = x % WORD
      <4>1. node.generation = hist.count % WORD /\ hist.count \in Int
        BY <1>1 DEF TopicInv, NodeInv
      <4>2. ((hist.count % WORD) - k) % WORD = (hist.count - k) % WORD
        BY <3>1, <4>1
      <4>. QED  BY <4>1, <4>2
    <3>3. x % WORD \in 0 .. WORD - 1
      BY <2>1, SizeFacts
    <3>. QED  BY <3>2, <3>3
  <2>3. Subscribed(s) = [sub[s] EXCEPT !.valid = TRUE, !.gen = g]
        /\ Joined(s) = [hist.pos EXCEPT ![s] = x]
    BY <1>3 DEF Subscribed, Joined
  <2>. HIDE DEF k, g, x
  <2>4. x \in 0 .. MaxMessages
    BY <1>1, <2>1
  <2>5. /\ Subscribed(s) \in SubType /\ Subscribed(s).gen = g
        /\ Subscribed(s).step = sub[s].step
    <3>1. sub[s] \in SubType
      BY SubTyped
    <3>. QED  BY <2>2, <2>3, <3>1 DEF SubType
  <2>6. /\ Joined(s) \in [Subs -> 0 .. MaxMessages] /\ Joined(s)[s] = x
        /\ \A r \in Subs \ {s} : Joined(s)[r] = hist.pos[r]
    BY <1>1, <2>3, <2>4
  <2>7. x <= hist.count
    BY <1>1, <2>1
  <2>. QED  BY <1>3, <2>1, <2>2, <2>5, <2>6, <2>7
<1>. QED
  BY <1>2, <1>3

(* A call that subscribes and then begins to copy, or does not.            *)
LEMMA CallStep ==
  ASSUME TopicInv, NEW s \in Subs, NEW me \in SubType,
         sub[s].step = "idle",
         me.valid = Subscribed(s).valid /\ me.gen = Subscribed(s).gen,
         me.step \in {"idle", "copying"}, me.step = "copying" => me.valid,
         sub' = [sub EXCEPT ![s] = me], hist' = [hist EXCEPT !.pos = Joined(s)],
         UNCHANGED <<node, pub>>
  PROVE  TopicInv'
<1>1. TypeOK'
  BY SubscribedFacts DEF TopicInv, TypeOK, SubType
<1>2. sub'[s] = me /\ hist'.pos = Joined(s) /\ hist'.count = hist.count
  BY DEF TopicInv, TypeOK
<1>3. \A r \in Subs \ {s} : sub'[r] = sub[r] /\ hist'.pos[r] = hist.pos[r]
  BY <1>2, SubscribedFacts DEF TopicInv, TypeOK
<1>. QED
  BY <1>1, <1>2, <1>3, SubscribedFacts, SubscriptionChange

(* A subscription joins at the last message and reads in order.            *)
LEMMA SubscriptionStep ==
  ASSUME TopicInv, NEW s \in Subs, Subscribes(s)
  PROVE  TopicInv'
<1>. DEFINE Known(me) == me \in SubType /\ me.valid = Subscribed(s).valid
                        /\ me.gen = Subscribed(s).gen
                        /\ me.step \in {"idle", "copying"} /\ (me.step = "copying" => me.valid)
<1>1. ASSUME sub[s].step = "idle", NEW me,
             me = Subscribed(s)
               \/ (Subscribed(s).valid /\ me = [Subscribed(s) EXCEPT !.step = "copying"])
      PROVE  Known(me)
  BY <1>1, SubscribedFacts DEF SubType
<1>2. CASE Poll(s)
  <2>1. PICK b \in BOOLEAN : sub' = [sub EXCEPT ![s] = Begun(Subscribed(s), b)]
    BY <1>2 DEF Poll
  <2>. DEFINE me == Begun(Subscribed(s), b)
  <2>2. sub[s].step = "idle" /\ hist' = [hist EXCEPT !.pos = Joined(s)] /\ UNCHANGED <<node, pub>>
    BY <1>2 DEF Poll, Idle
  <2>3. Known(me)
    <3>1. me = Subscribed(s)
            \/ (Subscribed(s).valid /\ me = [Subscribed(s) EXCEPT !.step = "copying"])
      BY DEF Begun
    <3>. QED  BY <1>1, <2>2, <3>1
  <2>. HIDE DEF me
  <2>4. sub' = [sub EXCEPT ![s] = me]
    BY <2>1 DEF me
  <2>. QED  BY <2>2, <2>3, <2>4, CallStep
<1>3. CASE RunItem(s)
  <2>. DEFINE b == Begun(Subscribed(s), TRUE)
              me == [b EXCEPT !.scheduled = @ /\ sub[s].running, !.running = b.step = "copying"]
  <2>1. /\ sub' = [sub EXCEPT ![s] = me] /\ sub[s].step = "idle"
        /\ hist' = [hist EXCEPT !.pos = Joined(s)] /\ UNCHANGED <<node, pub>>
    BY <1>3 DEF RunItem
  <2>2. Known(b)
    <3>1. b = Subscribed(s)
            \/ (Subscribed(s).valid /\ b = [Subscribed(s) EXCEPT !.step = "copying"])
      BY DEF Begun
    <3>. QED  BY <1>1, <2>1, <3>1
  <2>3. sub[s].running \in BOOLEAN
    BY DEF TopicInv, TypeOK
  <2>. HIDE DEF b
  <2>4. Known(me)
    BY <2>2, <2>3 DEF SubType
  <2>. HIDE DEF me
  <2>. QED  BY <2>1, <2>4, CallStep
<1>4. CASE Copy(s)
  <2>. DEFINE slot == IF node.size = 1 THEN 0 ELSE Chosen(sub[s].gen) % node.size
              gen == IF node.size = 1 THEN node.generation ELSE (Chosen(sub[s].gen) + 1) % WORD
  <2>1. sub[s].valid
    BY <1>4 DEF Copy, TopicInv, SubInv
  <2>2. /\ Wanted(s) \in 0 .. hist.count /\ hist.count - Wanted(s) < WORD
        /\ node.data[slot] = Wanted(s)
        /\ gen = Wanted(s) % WORD /\ gen \in 0 .. WORD - 1
    BY <2>1, CopyFacts
  <2>3. /\ sub' = [sub EXCEPT ![s].step = "idle", ![s].gen = IF node.allocated THEN gen ELSE @]
        /\ hist' = IF node.allocated THEN [hist EXCEPT !.pos[s] = node.data[slot]] ELSE hist
    BY <1>4 DEF Copy
  <2>. HIDE DEF slot, gen
  <2>4. Wanted(s) \in 0 .. MaxMessages
    BY <2>2, UorbAssumption DEF TopicInv, TypeOK
  <2>5. TypeOK' /\ hist'.count = hist.count
    <3>1. sub' \in [Subs -> SubType]
      <4>. DEFINE g == IF node.allocated THEN gen ELSE sub[s].gen
      <4>1. g \in 0 .. WORD - 1 /\ sub \in [Subs -> SubType]
        BY <2>2, SubTyped DEF SubType
      <4>2. sub' = [sub EXCEPT ![s] = [sub[s] EXCEPT !.step = "idle", !.gen = g]]
        BY <2>3, <4>1 DEF SubType
      <4>. HIDE DEF g
      <4>. QED  BY <4>1, <4>2 DEF SubType
    <3>2. hist' \in [count : 0 .. MaxMessages, pos : [Subs -> 0 .. MaxMessages],
                     due : [Subs -> 0 .. MaxMessages]] /\ hist'.count = hist.count
      <4>1. CASE node.allocated
        <5>1. hist' = [hist EXCEPT !.pos = [hist.pos EXCEPT ![s] = Wanted(s)]]
          BY <2>2, <2>3, <4>1
        <5>. QED  BY <2>4, <5>1 DEF TopicInv, TypeOK
      <4>2. CASE ~node.allocated
        BY <2>3, <4>2 DEF TopicInv, TypeOK
      <4>. QED  BY <4>1, <4>2
    <3>. QED  BY <1>4, <3>1, <3>2 DEF Copy, TopicInv, TypeOK, SubType
  <2>6. \A r \in Subs \ {s} : sub'[r] = sub[r] /\ hist'.pos[r] = hist.pos[r]
    BY <2>3 DEF TopicInv, TypeOK
  <2>7. sub'[s].valid /\ sub'[s].step = "idle"
    BY <2>1, <2>3 DEF TopicInv, TypeOK
  <2>8. CASE node.allocated
    <3>1. sub'[s].gen = gen /\ hist'.pos[s] = Wanted(s)
      BY <2>2, <2>3, <2>8 DEF TopicInv, TypeOK
    <3>2. node.exists
      BY <2>1 DEF TopicInv, SubInv
    <3>3. hist'.pos[s] <= hist.count /\ hist.count - hist'.pos[s] < WORD
          /\ sub'[s].gen = hist'.pos[s] % WORD
      BY <2>2, <3>1, SizeFacts
    <3>4. node' = node /\ pub' = pub
      BY <1>4 DEF Copy
    <3>. QED  BY <2>5, <2>6, <2>7, <3>2, <3>3, <3>4, SubscriptionChange
  <2>9. CASE ~node.allocated
    <3>1. sub'[s].gen = sub[s].gen /\ hist' = hist
      BY <2>3, <2>9 DEF TopicInv, TypeOK
    <3>. QED  BY <1>4, <2>1, <2>5, <2>6, <2>7, <3>1, SubscriptionChange DEF Copy, TopicInv, SubInv
  <2>. QED  BY <2>8, <2>9
<1>5. CASE ForceTopic(s)
  <2>. DEFINE me == [Subscribed(s) EXCEPT !.valid = TRUE, !.step = "registering"]
  <2>1. me \in SubType /\ me.gen = Subscribed(s).gen
    BY SubscribedFacts DEF SubType
  <2>2. TypeOK'
    BY <1>5, <2>1, SubscribedFacts DEF ForceTopic, TopicInv, TypeOK, SubType
  <2>3. sub'[s] = me /\ me.step = "registering" /\ hist'.pos = Joined(s) /\ hist'.count = hist.count
    BY <1>5, SubscribedFacts DEF ForceTopic, TopicInv, TypeOK, SubType
  <2>4. \A r \in Subs \ {s} : sub'[r] = sub[r] /\ hist'.pos[r] = hist.pos[r]
    BY <1>5, <2>3, SubscribedFacts DEF ForceTopic, TopicInv, TypeOK
  <2>5. node.exists => Subscribed(s).valid
    BY <1>5 DEF ForceTopic, Subscribed, TopicInv, TypeOK
  <2>6. sub'[s].gen = hist'.pos[s] % WORD /\ hist.count - hist'.pos[s] < WORD
    BY <2>1, <2>3, <2>5, SubscribedFacts
  <2>. HIDE DEF me
  <2>7. /\ node'.exists /\ node'.size = node.size /\ node'.generation = node.generation
        /\ node'.data = node.data /\ node'.data_valid = node.data_valid
        /\ node'.allocated = node.allocated /\ pub' = pub
    BY <1>5 DEF ForceTopic, TopicInv, TypeOK
  <2>. QED
    BY <2>2, <2>3, <2>4, <2>6, <2>7, SubscribedFacts, SubscriptionChange
<1>6. CASE RegisterCallback(s)
  <2>1. TypeOK'
    BY <1>6 DEF RegisterCallback, TopicInv, TypeOK
  <2>2. /\ node'.exists = node.exists /\ node'.size = node.size
        /\ node'.generation = node.generation /\ node'.data = node.data
        /\ node'.data_valid = node.data_valid /\ node'.allocated = node.allocated
        /\ pub' = pub /\ hist' = hist
    BY <1>6 DEF RegisterCallback, TopicInv, TypeOK
  <2>3. /\ sub'[s].valid = sub[s].valid /\ sub'[s].gen = sub[s].gen /\ sub'[s].step = "idle"
        /\ \A r \in Subs \ {s} : sub'[r] = sub[r]
    BY <1>6 DEF RegisterCallback, TopicInv, TypeOK
  <2>4. /\ ~node.exists => ~sub[s].valid /\ sub[s].gen = 0
        /\ hist.pos[s] <= hist.count
        /\ sub[s].valid => sub[s].gen = hist.pos[s] % WORD /\ hist.count - hist.pos[s] < WORD
    BY DEF TopicInv, SubInv
  <2>. QED
    BY <2>1, <2>2, <2>3, <2>4, SubscriptionChange
<1>7. CASE UnregisterCallback(s)
  <2>1. 0 \in 0 .. WORD - 1 /\ 0 \in 0 .. MaxMessages
    BY UorbAssumption
  <2>2. sub' \in [Subs -> SubType]
    <3>1. sub' = sub \/ sub' = [sub EXCEPT ![s] = [sub[s] EXCEPT !.valid = FALSE, !.gen = 0]]
      BY <1>7, SubTyped DEF UnregisterCallback
    <3>2. [sub[s] EXCEPT !.valid = FALSE, !.gen = 0] \in SubType
      BY <2>1, SubTyped
    <3>. QED  BY <3>1, <3>2, SubTyped
  <2>3. hist' \in [count : 0 .. MaxMessages, pos : [Subs -> 0 .. MaxMessages],
                   due : [Subs -> 0 .. MaxMessages]]
        /\ hist'.count = hist.count /\ hist'.pos = hist.pos
    BY <1>7, <2>1 DEF UnregisterCallback, TopicInv, TypeOK
  <2>4. TypeOK'
    BY <1>7, <2>2, <2>3 DEF UnregisterCallback, TopicInv, TypeOK, SubType
  <2>5. /\ node'.exists = node.exists /\ node'.size = node.size
        /\ node'.generation = node.generation /\ node'.data = node.data
        /\ node'.data_valid = node.data_valid /\ node'.allocated = node.allocated /\ pub' = pub
    BY <1>7 DEF UnregisterCallback, TopicInv, TypeOK
  <2>6. CASE sub' = sub
    BY <2>3, <2>4, <2>5, <2>6, SubscriptionChange DEF TopicInv, SubInv
  <2>7. CASE sub' = [sub EXCEPT ![s].valid = FALSE, ![s].gen = 0]
    <3>1. ~sub'[s].valid /\ sub'[s].gen = 0 /\ sub'[s].step = "idle"
      BY <1>7, <2>7 DEF UnregisterCallback, Idle, TopicInv, TypeOK
    <3>2. \A r \in Subs \ {s} : sub'[r] = sub[r]
      BY <2>7 DEF TopicInv, TypeOK
    <3>. QED
      BY <2>3, <2>4, <2>5, <3>1, <3>2, SubscriptionChange DEF TopicInv, SubInv
  <2>. QED  BY <1>7, <2>6, <2>7 DEF UnregisterCallback
<1>. QED
  BY <1>2, <1>3, <1>4, <1>5, <1>6, <1>7 DEF Subscribes

-----------------------------------------------------------------------------
(* TopicInv is inductive.                                                  *)
LEMMA TopicInvInductive ==
  /\ Init => TopicInv
  /\ TopicInv /\ [Next]_vars => TopicInv'
<1>1. Init => TopicInv
  <2>. SUFFICES ASSUME Init  PROVE  TopicInv
    OBVIOUS
  <2>1. WORD \in Nat \ {0} /\ WORD % 2 = 0 /\ MaxMessages \in Nat
    BY UorbAssumption
  <2>2. 0 % WORD = 0
    <3>1. 0 = WORD * 0 + 0
      BY <2>1
    <3>. QED  BY <2>1, <3>1, ModUnique
  <2>3. 1 \in 1 .. WORD \div 2 /\ 0 \in 0 .. WORD - 1 /\ 0 \in 0 .. MaxMessages
    BY <2>1
  <2>4. TypeOK
    <3>1. [i \in Slots |-> 0] \in [Slots -> 0 .. MaxMessages]
          /\ [s \in Subs |-> 0] \in [Subs -> 0 .. MaxMessages]
      BY <2>3
    <3>. QED  BY <2>3, <3>1 DEF Init, TypeOK
  <2>5. NodeInv
    BY <2>1, <2>2 DEF Init, NodeInv, Powers
  <2>6. SubInv
    BY <2>1, <2>2 DEF Init, SubInv
  <2>. QED  BY <2>4, <2>5, <2>6 DEF TopicInv
<1>2. TopicInv /\ [Next]_vars => TopicInv'
  <2>. SUFFICES ASSUME TopicInv, [Next]_vars  PROVE  TopicInv'
    OBVIOUS
  <2>1. CASE \E p \in Publishers : Publishes(p)
    BY <2>1, WriteStep, PublisherStep DEF Publishes
  <2>2. CASE \E s \in Subs : Subscribes(s)
    BY <2>2, SubscriptionStep
  <2>3. CASE UNCHANGED vars
    BY <2>3 DEF vars, TopicInv, TypeOK, NodeInv, SubInv, Slots
  <2>. QED
    BY <2>1, <2>2, <2>3 DEF Next
<1>. QED
  BY <1>1, <1>2

(* For every queue size and every width of the generation, the slots of    *)
(* DeviceNode hold the last messages, each where its generation says.      *)
THEOREM SlotsTheorem == Spec => []SlotsHoldLatest
<1>1. Init => TopicInv
  BY TopicInvInductive
<1>2. TopicInv /\ [Next]_vars => TopicInv'
  BY TopicInvInductive
<1>3. TopicInv => SlotsHoldLatest
  <2>. SUFFICES ASSUME TopicInv, NEW k \in 1 .. node.size, k <= hist.count
                PROVE  node.data[(node.generation - k) % node.size] = hist.count - k + 1
    BY DEF SlotsHoldLatest
  <2>. DEFINE n == hist.count - k + 1
  <2>1. /\ hist.count \in Nat /\ node.size \in Nat \ {0} /\ k \in Int
        /\ n \in 1 .. hist.count /\ n > hist.count - node.size /\ n - 1 = hist.count - k
    BY SizeFacts
  <2>2. node.data[(n - 1) % node.size] = n
    BY <2>1 DEF TopicInv, NodeInv
  <2>3. \A a \in Int : ((a % WORD) - k) % node.size = (a - k) % node.size
    BY <2>1, WrapFacts
  <2>4. ((hist.count % WORD) - k) % node.size = (hist.count - k) % node.size
    BY <2>1, <2>3
  <2>5. node.generation = hist.count % WORD
    BY DEF TopicInv, NodeInv
  <2>. QED  BY <2>1, <2>2, <2>4, <2>5
<1>. QED
  BY <1>1, <1>2, <1>3, PTL DEF Spec

-----------------------------------------------------------------------------
(* A step of the topic is a step of what it promises, or changes neither   *)
(* the messages nor what a subscription has read.                          *)
LEMMA LogStep ==
  ASSUME TopicInv, [Next]_vars
  PROVE  [Log!Next]_(Log!vars)
<1>. USE DEF Log!vars
<1>1. ASSUME NEW p \in Publishers, Write(p)
      PROVE  Log!Publish
  BY <1>1 DEF Write, TopicInv, TypeOK, Log!Publish
<1>2. ASSUME NEW p \in Publishers, UpdateQueueSize(p)
      PROVE  Log!Deepen \/ UNCHANGED Log!vars
  <2>1. CASE node.allocated \/ node.size >= REQUESTED[p]
    BY <1>2, <2>1 DEF UpdateQueueSize
  <2>2. CASE ~(node.allocated \/ node.size >= REQUESTED[p])
    <3>. DEFINE z == RoundPowOfTwo(REQUESTED[p])
    <3>1. z \in Powers /\ (z >= REQUESTED[p] \/ z = 128)
      BY RoundFacts
    <3>. HIDE DEF z
    <3>2. node'.size = z /\ hist' = hist /\ hist.count = 0
      BY <1>2, <2>2 DEF UpdateQueueSize, z, TopicInv, TypeOK, NodeInv
    <3>3. z \in Nat /\ z <= 128 /\ node.size \in Nat /\ REQUESTED[p] \in Nat
      <4>1. z \in Nat /\ z <= 128
        BY <3>1 DEF Powers
      <4>2. REQUESTED[p] \in 0 .. 255
        BY UorbAssumption
      <4>3. node.size \in Nat
        BY SizeFacts
      <4>. QED  BY <4>1, <4>2, <4>3
    <3>4. node.size <= 128
      BY DEF TopicInv, NodeInv, Powers
    <3>5. z >= node.size
      BY <2>2, <3>1, <3>3, <3>4
    <3>. QED  BY <3>2, <3>3, <3>5 DEF Log!Deepen
  <2>. QED  BY <2>1, <2>2
<1>3. ASSUME NEW p \in Publishers, Advertise(p) \/ Allocate(p) \/ Destroy(p) \/ Unadvertise(p)
      PROVE  UNCHANGED Log!vars
  BY <1>3 DEF Advertise, Allocate, Destroy, Unadvertise, TopicInv, TypeOK
<1>4. ASSUME NEW s \in Subs, Poll(s) \/ RunItem(s) \/ ForceTopic(s)
      PROVE  Log!Join(s) \/ UNCHANGED Log!vars
  <2>1. hist' = [hist EXCEPT !.pos = Joined(s)] /\ node'.size = node.size
    BY <1>4 DEF Poll, RunItem, ForceTopic, TopicInv, TypeOK
  <2>2. hist'.pos = Joined(s) /\ hist'.count = hist.count
    BY <2>1 DEF TopicInv, TypeOK
  <2>3. Joined(s) = hist.pos
        \/ Joined(s) = [hist.pos EXCEPT ![s] = IF hist.count = 0 THEN 0 ELSE hist.count - 1]
    BY DEF Joined, TopicInv, TypeOK, NodeInv
  <2>. QED  BY <2>1, <2>2, <2>3 DEF Log!Join
<1>5. ASSUME NEW s \in Subs, Copy(s)
      PROVE  Log!Take(s) \/ UNCHANGED Log!vars
  <2>. DEFINE slot == IF node.size = 1 THEN 0 ELSE Chosen(sub[s].gen) % node.size
              gen == IF node.size = 1 THEN node.generation ELSE (Chosen(sub[s].gen) + 1) % WORD
  <2>1. sub[s].valid
    BY <1>5 DEF Copy, TopicInv, SubInv
  <2>2. node.data[slot] = Wanted(s)
    BY <2>1, CopyFacts
  <2>3. node' = node
        /\ hist' = IF node.allocated THEN [hist EXCEPT !.pos[s] = node.data[slot]] ELSE hist
    BY <1>5 DEF Copy
  <2>. HIDE DEF slot, gen
  <2>4. CASE ~node.allocated \/ hist.pos[s] = hist.count
    <3>1. hist'.count = hist.count /\ hist'.pos = hist.pos
      BY <2>2, <2>3, <2>4 DEF Wanted, TopicInv, TypeOK
    <3>. QED  BY <2>3, <3>1
  <2>5. CASE node.allocated /\ hist.pos[s] # hist.count
    <3>1. hist'.count = hist.count /\ hist'.pos = [hist.pos EXCEPT ![s] = Wanted(s)]
      BY <2>2, <2>3, <2>5 DEF TopicInv, TypeOK
    <3>2. hist.pos[s] < hist.count
      <4>1. hist.pos[s] \in Nat /\ hist.count \in Nat /\ hist.pos[s] <= hist.count
        BY SizeFacts DEF TopicInv, TypeOK, SubInv
      <4>. QED  BY <2>5, <4>1
    <3>. QED  BY <2>3, <2>5, <3>1, <3>2 DEF Wanted, Log!Take
  <2>. QED  BY <2>4, <2>5
<1>6. ASSUME NEW s \in Subs, RegisterCallback(s) \/ UnregisterCallback(s)
      PROVE  UNCHANGED Log!vars
  BY <1>6 DEF RegisterCallback, UnregisterCallback, TopicInv, TypeOK
<1>7. CASE UNCHANGED vars
  BY <1>7 DEF vars
<1>. QED
  BY <1>1, <1>2, <1>3, <1>4, <1>5, <1>6, <1>7
  DEF Next, Publishes, Subscribes, Log!Next

(* The topic implements its promise for any number of publishers and       *)
(* subscriptions, queue sizes and widths of the generation: every reader   *)
(* gets the messages in order and misses none that was still kept,         *)
(* although DeviceNode::copy compares two generations that wrap.           *)
THEOREM TopicTheorem == Spec => TopicImplemented
<1>1. Init => TopicInv
  BY TopicInvInductive
<1>2. TopicInv /\ [Next]_vars => TopicInv'
  BY TopicInvInductive
<1>3. Init => Log!Init
  BY DEF Init, Log!Init
<1>4. TopicInv /\ [Next]_vars => [Log!Next]_(Log!vars)
  BY LogStep
<1>. QED
  BY <1>1, <1>2, <1>3, <1>4, PTL DEF Spec, TopicImplemented, Log!Spec
=============================================================================
