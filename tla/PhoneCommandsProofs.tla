-------------------------- MODULE PhoneCommandsProofs --------------------------
(***************************************************************************)
(* Theorems about PhoneCommands, for any number of threads and clients,    *)
(* any lines and files, and any width of rand() and of a float.            *)
(*                                                                         *)
(* What a thread knows depends on which steps of its handler lie behind it *)
(* (behind): the invariants say what has been taken from a line once a     *)
(* step lies behind.  ClientInv and ValueInv hold for every thread,        *)
(* disturbed or not.  LineInv says that a thread nobody has disturbed      *)
(* follows the line it was given or the one randomKey composed from it.    *)
(***************************************************************************)
EXTENDS PhoneCommands, DataLemmas
-----------------------------------------------------------------------------
(* pow2 exists and doubles at every number. *)
Doubles(f, n) == f = [k \in 0 .. n |-> IF k = 0 THEN 1 ELSE 2 * f[k - 1]]

LEMMA DoublesExists == \A n \in Nat : \E f : Doubles(f, n)
<1> DEFINE P == {n \in Nat : \E f : Doubles(f, n)}
<1>1. 0 \in P
  <2> DEFINE f == [k \in 0 .. 0 |-> 1]
  <2>1. f = [k \in 0 .. 0 |-> IF k = 0 THEN 1 ELSE 2 * f[k - 1]]
    OBVIOUS
  <2> QED
    BY <2>1 DEF Doubles
<1>2. ASSUME NEW n \in Nat, n \in P PROVE n + 1 \in P
  <2>1. PICK f : Doubles(f, n)
    BY <1>2
  <2> DEFINE g == [k \in 0 .. n + 1 |-> IF k <= n THEN f[k] ELSE 2 * f[n]]
  <2>2. ASSUME NEW k \in 0 .. n + 1 PROVE g[k] = IF k = 0 THEN 1 ELSE 2 * g[k - 1]
    <3>1. CASE k <= n
      <4>1. k \in 0 .. n /\ (k # 0 => k - 1 \in 0 .. n)
        BY <3>1
      <4>2. f[k] = IF k = 0 THEN 1 ELSE 2 * f[k - 1]
        BY <2>1, <4>1 DEF Doubles
      <4> QED
        BY <3>1, <4>1, <4>2
    <3>2. CASE k = n + 1
      BY <3>2
    <3> QED
      BY <3>1, <3>2
  <2>3. g = [k \in 0 .. n + 1 |-> g[k]]
    OBVIOUS
  <2> HIDE DEF g
  <2>4. Doubles(g, n + 1)
    BY <2>2, <2>3 DEF Doubles
  <2> QED
    BY <2>4
<1> HIDE DEF P
<1>3. \A n \in Nat : n \in P
  BY <1>1, <1>2, Induction
<1> QED
  BY <1>3 DEF P

LEMMA Pow2Doubles ==
  /\ RAND_BITS \in Nat \ {0} /\ FLT_BITS \in Nat \ {0} /\ pow2[0] = 1
  /\ \A k \in 0 .. RAND_BITS + FLT_BITS - 1 : pow2[k + 1] = 2 * pow2[k]
<1> DEFINE B == RAND_BITS + FLT_BITS
<1>1. RAND_BITS \in Nat \ {0} /\ FLT_BITS \in Nat \ {0} /\ B \in Nat
  BY PhoneAssumption
<1>2. pow2 = [k \in 0 .. B |-> IF k = 0 THEN 1 ELSE 2 * pow2[k - 1]]
  BY <1>1, DoublesExists DEF pow2, Doubles
<1>3. ASSUME NEW k \in 0 .. B PROVE pow2[k] = IF k = 0 THEN 1 ELSE 2 * pow2[k - 1]
  BY <1>2
<1>4. \A k \in 0 .. B - 1 : k + 1 \in 0 .. B /\ k + 1 # 0 /\ (k + 1) - 1 = k
  BY <1>1
<1> QED
  BY <1>1, <1>3, <1>4

LEMMA Pow2Divides ==
  ASSUME NEW e \in 0 .. RAND_BITS + FLT_BITS, NEW b \in e .. RAND_BITS + FLT_BITS
  PROVE  pow2[e] \in Nat \ {0} /\ \E K \in Nat : pow2[b] = pow2[e] * K
<1> DEFINE B == RAND_BITS + FLT_BITS
           P == {n \in Nat : n <= B => pow2[n] \in Nat \ {0}}
           Q == {d \in Nat : e + d <= B => \E K \in Nat : pow2[e + d] = pow2[e] * K}
<1>1. B \in Nat /\ pow2[0] = 1 /\ \A k \in 0 .. B - 1 : pow2[k + 1] = 2 * pow2[k]
  BY Pow2Doubles
<1> HIDE DEF B
<1>2. 0 \in P
  BY <1>1
<1>3. ASSUME NEW n \in Nat, n \in P PROVE n + 1 \in P
  BY <1>1, <1>3
<1>4. \A n \in Nat : n \in P
  <2> HIDE DEF P
  <2> QED
    BY <1>2, <1>3, Induction
<1>5. e \in Nat /\ e <= B /\ pow2[e] \in Nat \ {0} /\ b - e \in Nat /\ e + (b - e) = b /\ b <= B
  BY <1>1, <1>4 DEF B
<1>6. 0 \in Q
  <2>1. pow2[e + 0] = pow2[e] * 1
    BY <1>5
  <2> QED
    BY <2>1
<1>7. ASSUME NEW d \in Nat, d \in Q PROVE d + 1 \in Q
  <2> SUFFICES ASSUME e + (d + 1) <= B PROVE \E K \in Nat : pow2[e + (d + 1)] = pow2[e] * K
    OBVIOUS
  <2>1. e + d \in 0 .. B - 1 /\ (e + d) + 1 = e + (d + 1)
    BY <1>1, <1>5
  <2>2. PICK K \in Nat : pow2[e + d] = pow2[e] * K
    BY <1>1, <1>5, <1>7, <2>1
  <2>3. pow2[e + (d + 1)] = 2 * (pow2[e] * K)
    BY <1>1, <2>1, <2>2
  <2>4. pow2[e + (d + 1)] = pow2[e] * (2 * K)
    BY <1>5, <2>3
  <2> QED
    BY <2>4
<1> HIDE DEF Q
<1>8. \A d \in Nat : d \in Q
  BY <1>6, <1>7, Induction
<1> QED
  BY <1>5, <1>8 DEF Q

LEMMA UlpFacts ==
  /\ RANDS \in Nat \ {0} /\ MANTISSAS \in Nat \ {0} /\ RANDS \in Ulp /\ Ulp \subseteq Nat \ {0}
  /\ \A u \in Ulp : \E K \in Nat : RANDS = u * K
  /\ MAX_KEY_NUM < MANTISSAS /\ \A n \in Number : n \in Int /\ n < MANTISSAS
<1>1. RAND_BITS \in Nat \ {0} /\ FLT_BITS \in Nat \ {0}
  BY Pow2Doubles
<1>2. ASSUME NEW e \in 0 .. RAND_BITS
      PROVE  pow2[e] \in Nat \ {0} /\ \E K \in Nat : RANDS = pow2[e] * K
  <2>1. e \in 0 .. RAND_BITS + FLT_BITS /\ RAND_BITS \in e .. RAND_BITS + FLT_BITS
    BY <1>1
  <2> QED
    BY <2>1, Pow2Divides DEF RANDS
<1>3. RAND_BITS \in 0 .. RAND_BITS
  BY <1>1
<1>4. MANTISSAS \in Nat \ {0}
  <2>1. FLT_BITS \in 0 .. RAND_BITS + FLT_BITS /\ FLT_BITS \in FLT_BITS .. RAND_BITS + FLT_BITS
    BY <1>1
  <2> QED
    BY <2>1, Pow2Divides DEF MANTISSAS
<1>5. MAX_KEY_NUM < MANTISSAS /\ \A n \in Number : n \in Int /\ n < MANTISSAS
  BY PhoneAssumption
<1> QED
  BY <1>2, <1>3, <1>4, <1>5 DEF RANDS, Ulp

(* A number within a multiple of RANDS a float holds is not rounded beyond *)
(* it.                                                                     *)
LEMMA RoundBound ==
  ASSUME NEW M \in Nat, M < MANTISSAS, NEW x \in Nat, x <= M * RANDS
  PROVE  roundFloat(x) \in 0 .. M * RANDS
<1> DEFINE S == {u \in Ulp : x < MANTISSAS * u}
           u == Min(S)
           q == x \div u
           r == 2 * (x % u)
           y == IF r > u \/ (r = u /\ q % 2 = 1) THEN q + 1 ELSE q
<1>1. x < MANTISSAS * RANDS
  <2>1. M * RANDS < MANTISSAS * RANDS
    BY UlpFacts
  <2> QED
    BY <2>1, UlpFacts
<1>2. S \in SUBSET Nat /\ RANDS \in S
  BY <1>1, UlpFacts
<1>3. u \in S
  <2> HIDE DEF S
  <2> QED
    BY <1>2, LeastExists
<1> HIDE DEF S, u
<1>4. u \in Nat \ {0} /\ u \in Ulp
  BY <1>3, UlpFacts DEF S
<1>5. PICK K \in Nat : RANDS = u * K
  BY <1>4, UlpFacts
<1>6. q \in Nat /\ x % u \in 0 .. u - 1 /\ x = (u * q) + (x % u)
  BY <1>4
<1>7. M * RANDS = u * (M * K) /\ M * K \in Nat
  BY <1>4, <1>5
<1> DEFINE N == M * K
           w == x % u
<1> HIDE DEF q, N, w
<1>8. N \in Nat /\ q \in Nat /\ w \in 0 .. u - 1 /\ u * q + w <= u * N
  BY <1>6, <1>7 DEF N, w
<1>9. q <= N /\ (q = N => w = 0)
  <2>1. CASE q > N
    <3>1. q >= N + 1 /\ u * q >= u * (N + 1) /\ u * (N + 1) = u * N + u
      BY <1>4, <1>8, <2>1
    <3> QED
      BY <1>4, <1>8, <3>1
  <2>2. CASE q = N
    BY <1>4, <1>8, <2>2
  <2> QED
    BY <1>8, <2>1, <2>2
<1>10. y \in 0 .. N
  <2>1. r \in Nat /\ (w = 0 => r = 0)
    BY <1>8 DEF w
  <2>2. CASE q = N
    BY <1>4, <1>8, <1>9, <2>1, <2>2
  <2>3. CASE q < N
    BY <1>8, <2>3
  <2> QED
    BY <1>8, <1>9, <2>2, <2>3
<1> HIDE DEF y
<1>11. u * y \in 0 .. u * N
  BY <1>4, <1>8, <1>10
<1>12. roundFloat(x) = u * y
  BY DEF roundFloat, y, q, u, S
<1> QED
  BY <1>7, <1>11, <1>12 DEF N

LEMMA DrawBound ==
  ASSUME NEW min \in Nat, NEW max \in Nat, max < MANTISSAS, NEW rand \in 0 .. RANDS - 1
  PROVE  draw(min, max, rand) \in min .. min + max
<1> DEFINE f == roundFloat(rand)
           g == roundFloat(max * f)
<1>1. f \in 0 .. RANDS
  <2>1. rand \in Nat /\ rand <= 1 * RANDS /\ 1 < MANTISSAS
    BY UlpFacts DEF MAX_KEY_NUM
  <2>2. f \in 0 .. 1 * RANDS
    BY <2>1, RoundBound
  <2> QED
    BY <2>2, UlpFacts
<1>2. max * f \in Nat /\ max * f <= max * RANDS
  <2> HIDE DEF f
  <2> QED
    BY <1>1, UlpFacts
<1>3. g \in 0 .. max * RANDS
  <2> HIDE DEF f
  <2> QED
    BY <1>2, RoundBound
<1>4. g \div RANDS \in 0 .. max
  <2> HIDE DEF g
  <2>1. RANDS \in Nat \ {0}
    BY UlpFacts
  <2> DEFINE d == g \div RANDS
  <2>2. d \in Nat /\ RANDS * d <= g
    BY <1>3, <2>1
  <2> HIDE DEF d
  <2>3. d <= max
    <3> SUFFICES ASSUME d > max PROVE FALSE
      BY <2>2
    <3>1. d >= max + 1 /\ RANDS * d >= RANDS * (max + 1) /\ RANDS * (max + 1) = max * RANDS + RANDS
      BY <2>1, <2>2
    <3> QED
      BY <1>3, <2>1, <2>2, <3>1
  <2> QED
    BY <2>2, <2>3 DEF d
<1> HIDE DEF f, g
<1>5. draw(min, max, rand) = min + g \div RANDS
  BY DEF draw, f, g
<1> QED
  BY <1>4, <1>5

(* What getRandValue may return: for the bounds of a line FAILED or a      *)
(* number from min to min + max, for the bounds of the keys a place of the *)
(* table or the one beyond.                                                *)
LEMMA RandomRange ==
  /\ \A min, max \in Number : \A v \in getRandValue[<<min, max>>] :
       v \in Int /\ v \in {FAILED} \cup min .. min + max
  /\ \A v \in getRandValue[<<MIN_KEY_NUM, MAX_KEY_NUM>>] : v \in MIN_KEY_NUM .. MAX_KEY_NUM
<1>1. ASSUME NEW b \in Bound
      PROVE  getRandValue[b] = IF b[2] <= 0 \/ b[1] < 0 \/ b[2] < b[1] THEN {FAILED}
                               ELSE {draw(b[1], b[2], rand) : rand \in 0 .. RANDS - 1}
  BY DEF getRandValue
<1>2. ASSUME NEW min, NEW max, <<min, max>> \in Bound, ~ (max <= 0 \/ min < 0 \/ max < min),
             NEW v \in getRandValue[<<min, max>>]
      PROVE  \E rand \in 0 .. RANDS - 1 : v = draw(min, max, rand)
  BY <1>1, <1>2
<1>3. ASSUME NEW min \in Number, NEW max \in Number, NEW v \in getRandValue[<<min, max>>]
      PROVE  v \in Int /\ v \in {FAILED} \cup min .. min + max
  <2>1. min \in Int /\ max \in Int /\ max < MANTISSAS
    BY UlpFacts
  <2>2. <<min, max>> \in Bound
    BY DEF Bound
  <2>3. CASE max <= 0 \/ min < 0 \/ max < min
    <3>1. getRandValue[<<min, max>>] = {FAILED}
      BY <1>1, <2>2, <2>3
    <3>2. v = FAILED
      BY <3>1
    <3> QED
      BY <3>2 DEF FAILED
  <2>4. CASE ~ (max <= 0 \/ min < 0 \/ max < min)
    <3>1. PICK rand \in 0 .. RANDS - 1 : v = draw(min, max, rand)
      BY <1>2, <2>2, <2>4
    <3>2. min \in Nat /\ max \in Nat
      BY <2>1, <2>4
    <3>3. v \in min .. min + max
      BY <2>1, <3>1, <3>2, DrawBound
    <3> QED
      BY <2>1, <3>3
  <2> QED
    BY <2>3, <2>4
<1>4. ASSUME NEW v \in getRandValue[<<MIN_KEY_NUM, MAX_KEY_NUM>>]
      PROVE  v \in MIN_KEY_NUM .. MAX_KEY_NUM
  <2>1. <<MIN_KEY_NUM, MAX_KEY_NUM>> \in Bound
    BY DEF Bound
  <2>2. ~ (MAX_KEY_NUM <= 0 \/ MIN_KEY_NUM < 0 \/ MAX_KEY_NUM < MIN_KEY_NUM)
    BY DEF MIN_KEY_NUM, MAX_KEY_NUM
  <2>3. PICK rand \in 0 .. RANDS - 1 : v = draw(MIN_KEY_NUM, MAX_KEY_NUM, rand)
    BY <1>2, <2>1, <2>2
  <2>4. MIN_KEY_NUM \in Nat /\ MAX_KEY_NUM \in Nat /\ MIN_KEY_NUM + MAX_KEY_NUM = MAX_KEY_NUM
    BY DEF MIN_KEY_NUM, MAX_KEY_NUM
  <2>5. v \in MIN_KEY_NUM .. MIN_KEY_NUM + MAX_KEY_NUM
    BY <2>3, <2>4, UlpFacts, DrawBound
  <2> QED
    BY <2>4, <2>5
<1> QED
  BY <1>3, <1>4
-----------------------------------------------------------------------------
(* The place of a key: its name and its code are nobody else's. *)
placeOf(text) ==
  CASE text \in {"s1", "251"} -> 34 [] text \in {"s2", "252"} -> 4
    [] text \in {"s3", "253"} -> 44 [] text \in {"s4", "254"} -> 24
    [] text \in {"up", "31"} -> 14 [] text \in {"dn", "32"} -> 54
    [] text \in {"1", "49"} -> 3 [] text \in {"2", "50"} -> 2
    [] text \in {"3", "51"} -> 41 [] text \in {"4", "52"} -> 33
    [] text \in {"5", "53"} -> 32 [] text \in {"6", "54"} -> 31
    [] text \in {"7", "55"} -> 13 [] text \in {"8", "56"} -> 12
    [] text \in {"9", "57"} -> 1 [] text \in {"0", "48"} -> 52
    [] text \in {"*", "10"} -> 53 [] text \in {"#", "11"} -> 51
    [] text \in {"vd", "47"} -> 22 [] text \in {"me", "64"} -> 42
    [] text \in {"vu", "46"} -> 43 [] text \in {"rl", "63"} -> 11
    [] text \in {"he", "61"} -> 25 [] text \in {"le1", "151"} -> 15
    [] text \in {"le2", "152"} -> 5 [] text \in {"offhook", "100"} -> 100
    [] text \in {"onhook", "101"} -> 101

LEMMA TableFacts ==
  /\ DOMAIN gKeyLib \in SUBSET Nat /\ FAILED \notin DOMAIN gKeyLib
  /\ \A i \in DOMAIN gKeyLib : /\ placeOf(gKeyLib[i].name) = i /\ placeOf(gKeyLib[i].code) = i
                               /\ gKeyLib[i].name # Stray /\ gKeyLib[i].code # Stray
<1>1. DOMAIN gKeyLib \in SUBSET Nat /\ FAILED \notin DOMAIN gKeyLib
  BY DEF gKeyLib, FAILED
<1>2. ASSUME NEW i \in DOMAIN gKeyLib
      PROVE  /\ placeOf(gKeyLib[i].name) = i /\ placeOf(gKeyLib[i].code) = i
             /\ gKeyLib[i].name # Stray /\ gKeyLib[i].code # Stray
  <2>1. CASE i = 34
    <3>1. gKeyLib[i].name = "s1" /\ gKeyLib[i].code = "251"
      BY <2>1 DEF gKeyLib, key
    <3>2. placeOf("s1") = 34 /\ placeOf("251") = 34
      BY DEF placeOf
    <3> QED
      BY <2>1, <3>1, <3>2 DEF Stray
  <2>2. CASE i = 4
    <3>1. gKeyLib[i].name = "s2" /\ gKeyLib[i].code = "252"
      BY <2>2 DEF gKeyLib, key
    <3>2. placeOf("s2") = 4 /\ placeOf("252") = 4
      BY DEF placeOf
    <3> QED
      BY <2>2, <3>1, <3>2 DEF Stray
  <2>3. CASE i = 44
    <3>1. gKeyLib[i].name = "s3" /\ gKeyLib[i].code = "253"
      BY <2>3 DEF gKeyLib, key
    <3>2. placeOf("s3") = 44 /\ placeOf("253") = 44
      BY DEF placeOf
    <3> QED
      BY <2>3, <3>1, <3>2 DEF Stray
  <2>4. CASE i = 24
    <3>1. gKeyLib[i].name = "s4" /\ gKeyLib[i].code = "254"
      BY <2>4 DEF gKeyLib, key
    <3>2. placeOf("s4") = 24 /\ placeOf("254") = 24
      BY DEF placeOf
    <3> QED
      BY <2>4, <3>1, <3>2 DEF Stray
  <2>5. CASE i = 14
    <3>1. gKeyLib[i].name = "up" /\ gKeyLib[i].code = "31"
      BY <2>5 DEF gKeyLib, key
    <3>2. placeOf("up") = 14 /\ placeOf("31") = 14
      BY DEF placeOf
    <3> QED
      BY <2>5, <3>1, <3>2 DEF Stray
  <2>6. CASE i = 54
    <3>1. gKeyLib[i].name = "dn" /\ gKeyLib[i].code = "32"
      BY <2>6 DEF gKeyLib, key
    <3>2. placeOf("dn") = 54 /\ placeOf("32") = 54
      BY DEF placeOf
    <3> QED
      BY <2>6, <3>1, <3>2 DEF Stray
  <2>7. CASE i = 3
    <3>1. gKeyLib[i].name = "1" /\ gKeyLib[i].code = "49"
      BY <2>7 DEF gKeyLib, key
    <3>2. placeOf("1") = 3 /\ placeOf("49") = 3
      BY DEF placeOf
    <3> QED
      BY <2>7, <3>1, <3>2 DEF Stray
  <2>8. CASE i = 2
    <3>1. gKeyLib[i].name = "2" /\ gKeyLib[i].code = "50"
      BY <2>8 DEF gKeyLib, key
    <3>2. placeOf("2") = 2 /\ placeOf("50") = 2
      BY DEF placeOf
    <3> QED
      BY <2>8, <3>1, <3>2 DEF Stray
  <2>9. CASE i = 41
    <3>1. gKeyLib[i].name = "3" /\ gKeyLib[i].code = "51"
      BY <2>9 DEF gKeyLib, key
    <3>2. placeOf("3") = 41 /\ placeOf("51") = 41
      BY DEF placeOf
    <3> QED
      BY <2>9, <3>1, <3>2 DEF Stray
  <2>10. CASE i = 33
    <3>1. gKeyLib[i].name = "4" /\ gKeyLib[i].code = "52"
      BY <2>10 DEF gKeyLib, key
    <3>2. placeOf("4") = 33 /\ placeOf("52") = 33
      BY DEF placeOf
    <3> QED
      BY <2>10, <3>1, <3>2 DEF Stray
  <2>11. CASE i = 32
    <3>1. gKeyLib[i].name = "5" /\ gKeyLib[i].code = "53"
      BY <2>11 DEF gKeyLib, key
    <3>2. placeOf("5") = 32 /\ placeOf("53") = 32
      BY DEF placeOf
    <3> QED
      BY <2>11, <3>1, <3>2 DEF Stray
  <2>12. CASE i = 31
    <3>1. gKeyLib[i].name = "6" /\ gKeyLib[i].code = "54"
      BY <2>12 DEF gKeyLib, key
    <3>2. placeOf("6") = 31 /\ placeOf("54") = 31
      BY DEF placeOf
    <3> QED
      BY <2>12, <3>1, <3>2 DEF Stray
  <2>13. CASE i = 13
    <3>1. gKeyLib[i].name = "7" /\ gKeyLib[i].code = "55"
      BY <2>13 DEF gKeyLib, key
    <3>2. placeOf("7") = 13 /\ placeOf("55") = 13
      BY DEF placeOf
    <3> QED
      BY <2>13, <3>1, <3>2 DEF Stray
  <2>14. CASE i = 12
    <3>1. gKeyLib[i].name = "8" /\ gKeyLib[i].code = "56"
      BY <2>14 DEF gKeyLib, key
    <3>2. placeOf("8") = 12 /\ placeOf("56") = 12
      BY DEF placeOf
    <3> QED
      BY <2>14, <3>1, <3>2 DEF Stray
  <2>15. CASE i = 1
    <3>1. gKeyLib[i].name = "9" /\ gKeyLib[i].code = "57"
      BY <2>15 DEF gKeyLib, key
    <3>2. placeOf("9") = 1 /\ placeOf("57") = 1
      BY DEF placeOf
    <3> QED
      BY <2>15, <3>1, <3>2 DEF Stray
  <2>16. CASE i = 52
    <3>1. gKeyLib[i].name = "0" /\ gKeyLib[i].code = "48"
      BY <2>16 DEF gKeyLib, key
    <3>2. placeOf("0") = 52 /\ placeOf("48") = 52
      BY DEF placeOf
    <3> QED
      BY <2>16, <3>1, <3>2 DEF Stray
  <2>17. CASE i = 53
    <3>1. gKeyLib[i].name = "*" /\ gKeyLib[i].code = "10"
      BY <2>17 DEF gKeyLib, key
    <3>2. placeOf("*") = 53 /\ placeOf("10") = 53
      BY DEF placeOf
    <3> QED
      BY <2>17, <3>1, <3>2 DEF Stray
  <2>18. CASE i = 51
    <3>1. gKeyLib[i].name = "#" /\ gKeyLib[i].code = "11"
      BY <2>18 DEF gKeyLib, key
    <3>2. placeOf("#") = 51 /\ placeOf("11") = 51
      BY DEF placeOf
    <3> QED
      BY <2>18, <3>1, <3>2 DEF Stray
  <2>19. CASE i = 22
    <3>1. gKeyLib[i].name = "vd" /\ gKeyLib[i].code = "47"
      BY <2>19 DEF gKeyLib, key
    <3>2. placeOf("vd") = 22 /\ placeOf("47") = 22
      BY DEF placeOf
    <3> QED
      BY <2>19, <3>1, <3>2 DEF Stray
  <2>20. CASE i = 42
    <3>1. gKeyLib[i].name = "me" /\ gKeyLib[i].code = "64"
      BY <2>20 DEF gKeyLib, key
    <3>2. placeOf("me") = 42 /\ placeOf("64") = 42
      BY DEF placeOf
    <3> QED
      BY <2>20, <3>1, <3>2 DEF Stray
  <2>21. CASE i = 43
    <3>1. gKeyLib[i].name = "vu" /\ gKeyLib[i].code = "46"
      BY <2>21 DEF gKeyLib, key
    <3>2. placeOf("vu") = 43 /\ placeOf("46") = 43
      BY DEF placeOf
    <3> QED
      BY <2>21, <3>1, <3>2 DEF Stray
  <2>22. CASE i = 11
    <3>1. gKeyLib[i].name = "rl" /\ gKeyLib[i].code = "63"
      BY <2>22 DEF gKeyLib, key
    <3>2. placeOf("rl") = 11 /\ placeOf("63") = 11
      BY DEF placeOf
    <3> QED
      BY <2>22, <3>1, <3>2 DEF Stray
  <2>23. CASE i = 25
    <3>1. gKeyLib[i].name = "he" /\ gKeyLib[i].code = "61"
      BY <2>23 DEF gKeyLib, key
    <3>2. placeOf("he") = 25 /\ placeOf("61") = 25
      BY DEF placeOf
    <3> QED
      BY <2>23, <3>1, <3>2 DEF Stray
  <2>24. CASE i = 15
    <3>1. gKeyLib[i].name = "le1" /\ gKeyLib[i].code = "151"
      BY <2>24 DEF gKeyLib, key
    <3>2. placeOf("le1") = 15 /\ placeOf("151") = 15
      BY DEF placeOf
    <3> QED
      BY <2>24, <3>1, <3>2 DEF Stray
  <2>25. CASE i = 5
    <3>1. gKeyLib[i].name = "le2" /\ gKeyLib[i].code = "152"
      BY <2>25 DEF gKeyLib, key
    <3>2. placeOf("le2") = 5 /\ placeOf("152") = 5
      BY DEF placeOf
    <3> QED
      BY <2>25, <3>1, <3>2 DEF Stray
  <2>26. CASE i = 100
    <3>1. gKeyLib[i].name = "offhook" /\ gKeyLib[i].code = "100"
      BY <2>26 DEF gKeyLib, key
    <3>2. placeOf("offhook") = 100 /\ placeOf("100") = 100
      BY DEF placeOf
    <3> QED
      BY <2>26, <3>1, <3>2 DEF Stray
  <2>27. CASE i = 101
    <3>1. gKeyLib[i].name = "onhook" /\ gKeyLib[i].code = "101"
      BY <2>27 DEF gKeyLib, key
    <3>2. placeOf("onhook") = 101 /\ placeOf("101") = 101
      BY DEF placeOf
    <3> QED
      BY <2>27, <3>1, <3>2 DEF Stray
  <2> QED
    BY <2>1, <2>2, <2>3, <2>4, <2>5, <2>6, <2>7, <2>8, <2>9, <2>10, <2>11,
       <2>12, <2>13, <2>14, <2>15, <2>16, <2>17, <2>18, <2>19, <2>20, <2>21, <2>22, <2>23, <2>24, <2>25, <2>26, <2>27 DEF gKeyLib
<1> QED
  BY <1>1, <1>2

LEMMA KeyFound ==
  ASSUME NEW text
  PROVE  /\ getKeyCode(text) # FAILED <=> known(text)
         /\ known(text) => /\ getKeyCode(text) \in DOMAIN gKeyLib
                           /\ gKeyLib[getKeyCode(text)].code = codeOf(text)
                           /\ text \in KeyCode \cup KeyName
         /\ text = Stray => ~ known(text)
<1> DEFINE S == {i \in DOMAIN gKeyLib : text \in {gKeyLib[i].name, gKeyLib[i].code}}
<1>1. known(text) <=> S # {}
  BY DEF known
<1>2. getKeyCode(text) = IF S = {} THEN FAILED ELSE Min(S)
  BY DEF getKeyCode, lowest
<1>3. S \in SUBSET Nat /\ FAILED \notin S
  BY TableFacts
<1>4. S # {} => Min(S) \in S
  <2> HIDE DEF S
  <2> QED
    BY <1>3, LeastExists
<1>5. \A i, j \in S : i = j
  BY TableFacts
<1>6. ASSUME NEW i \in S PROVE codeOf(text) = gKeyLib[i].code
  <2> DEFINE K == {gKeyLib[j] : j \in DOMAIN gKeyLib}
             k == CHOOSE k \in K : text \in {k.name, k.code}
  <2>1. gKeyLib[i] \in K /\ text \in {gKeyLib[i].name, gKeyLib[i].code}
    OBVIOUS
  <2>2. k \in K /\ text \in {k.name, k.code}
    BY <2>1
  <2>3. PICK j \in DOMAIN gKeyLib : k = gKeyLib[j]
    BY <2>2
  <2>4. j \in S
    BY <2>2, <2>3
  <2>5. k = gKeyLib[i]
    BY <1>5, <2>3, <2>4
  <2> QED
    BY <2>5 DEF codeOf
<1>7. text = Stray => S = {}
  BY TableFacts
<1>8. \A i \in S : i \in DOMAIN gKeyLib /\ text \in KeyCode \cup KeyName
  BY DEF KeyCode, KeyName
<1> HIDE DEF S
<1> QED
  BY <1>1, <1>2, <1>3, <1>4, <1>6, <1>7, <1>8

-----------------------------------------------------------------------------
(* Where the keys of a list begin, and which of them remain. *)
LEMMA SumUpTo ==
  ASSUME NEW n \in Nat, NEW fun \in [1 .. n + 1 -> Nat]
  PROVE  /\ SumFunction([j \in 1 .. n |-> fun[j]]) \in Nat
         /\ SumFunction(fun) = SumFunction([j \in 1 .. n |-> fun[j]]) + fun[n + 1]
<1>1. (1 .. n + 1) \ {n + 1} = 1 .. n /\ n + 1 \in 1 .. n + 1
  OBVIOUS
<1>0. IsFiniteSet(1 .. n + 1)
  BY FS_Interval
<1>2. /\ SumFunction([y \in (1 .. n + 1) \ {n + 1} |-> fun[y]]) \in Nat
      /\ SumFunction(fun) = SumFunction([y \in (1 .. n + 1) \ {n + 1} |-> fun[y]]) + fun[n + 1]
  BY <1>0, <1>1, SumSplit
<1> QED
  BY <1>1, <1>2

LEMMA StartStep ==
  ASSUME NEW list \in Seq(Word)
  PROVE  /\ startOf(list, 1) = 0
         /\ \A i \in 1 .. Len(list) + 1 : startOf(list, i) \in Nat
         /\ \A i \in 1 .. Len(list) : /\ Len(list[i]) \in Nat \ {0}
                                      /\ startOf(list, i + 1) = startOf(list, i) + (Len(list[i]) + 1)
         /\ fits(list) <=> startOf(list, Len(list) + 1) <= KEY_TEXT + 1
<1>1. Len(list) \in Nat /\ DOMAIN list = 1 .. Len(list) /\ \A i \in 1 .. Len(list) : list[i] \in Word
  <2> HIDE DEF Word
  <2> QED
    BY LenProperties, ElementOfSeq
<1>2. \A i \in 1 .. Len(list) : Len(list[i]) \in Nat \ {0} /\ Len(list[i]) + 1 \in Nat
  BY <1>1 DEF Word
<1>3. startOf(list, 1) = 0
  <2>1. [j \in 1 .. 1 - 1 |-> Len(list[j]) + 1] = [j \in {} |-> 0]
    OBVIOUS
  <2> QED
    BY <2>1, SumOfNothing DEF startOf
<1>4. ASSUME NEW i \in 1 .. Len(list)
      PROVE  /\ startOf(list, i) \in Nat
             /\ startOf(list, i + 1) = startOf(list, i) + (Len(list[i]) + 1)
  <2> DEFINE n == i - 1
             fun == [j \in 1 .. n + 1 |-> Len(list[j]) + 1]
             gun == [j \in 1 .. n |-> Len(list[j]) + 1]
  <2>1. n \in Nat /\ n + 1 = i /\ (i + 1) - 1 = n + 1 /\ 1 .. n + 1 \subseteq 1 .. Len(list)
    BY <1>1
  <2>2. fun \in [1 .. n + 1 -> Nat] /\ fun[n + 1] = Len(list[i]) + 1
    BY <1>2, <2>1
  <2>3. gun = [j \in 1 .. n |-> fun[j]]
    BY <2>1
  <2>4. startOf(list, i) = SumFunction(gun) /\ startOf(list, i + 1) = SumFunction(fun)
    BY <2>1 DEF startOf
  <2> HIDE DEF fun, gun, n
  <2>5. SumFunction(gun) \in Nat /\ SumFunction(fun) = SumFunction(gun) + fun[n + 1]
    BY <2>1, <2>2, <2>3, SumUpTo
  <2> QED
    BY <2>2, <2>4, <2>5
<1>5. ASSUME NEW i \in 1 .. Len(list) + 1 PROVE startOf(list, i) \in Nat
  <2>1. CASE i = 1
    BY <1>3, <2>1
  <2>2. CASE i # 1
    <3>1. i - 1 \in 1 .. Len(list) /\ (i - 1) + 1 = i
      BY <1>1, <2>2
    <3>2. startOf(list, i - 1) \in Nat /\ startOf(list, (i - 1) + 1) = startOf(list, i - 1) + (Len(list[i - 1]) + 1)
      BY <1>4, <3>1
    <3>3. startOf(list, i - 1) + (Len(list[i - 1]) + 1) \in Nat
      BY <1>2, <3>1, <3>2
    <3> QED
      BY <3>1, <3>2, <3>3
  <2> QED
    BY <2>1, <2>2
<1>6. fits(list) <=> startOf(list, Len(list) + 1) <= KEY_TEXT + 1
  <2>1. (Len(list) + 1) - 1 = Len(list)
    BY <1>1
  <2> QED
    BY <1>1, <2>1 DEF fits, startOf
<1> QED
  BY <1>2, <1>3, <1>4, <1>5, <1>6

LEMMA StartGrows ==
  ASSUME NEW list \in Seq(Word), NEW i \in 1 .. Len(list) + 1
  PROVE  startOf(list, i) >= 2 * (i - 1) /\ \A j \in 1 .. i : startOf(list, j) <= startOf(list, i)
<1> DEFINE P == {n \in Nat : n + 1 <= Len(list) + 1 =>
                   /\ startOf(list, n + 1) >= 2 * n
                   /\ \A j \in 1 .. n + 1 : startOf(list, j) <= startOf(list, n + 1)}
<1>1. /\ Len(list) \in Nat /\ startOf(list, 1) = 0
      /\ \A k \in 1 .. Len(list) + 1 : startOf(list, k) \in Nat
      /\ \A k \in 1 .. Len(list) : /\ Len(list[k]) \in Nat \ {0}
                                   /\ startOf(list, k + 1) = startOf(list, k) + (Len(list[k]) + 1)
  <2> HIDE DEF Word
  <2> QED
    BY StartStep, LenProperties
<1>2. 0 \in P
  <2>1. \A j \in 1 .. 0 + 1 : j = 1
    OBVIOUS
  <2> QED
    BY <1>1, <2>1
<1>3. ASSUME NEW n \in Nat, n \in P PROVE n + 1 \in P
  <2> SUFFICES ASSUME (n + 1) + 1 <= Len(list) + 1
               PROVE  /\ startOf(list, (n + 1) + 1) >= 2 * (n + 1)
                      /\ \A j \in 1 .. (n + 1) + 1 : startOf(list, j) <= startOf(list, (n + 1) + 1)
    OBVIOUS
  <2>1. n + 1 \in 1 .. Len(list) /\ n + 1 <= Len(list) + 1
    BY <1>1
  <2>2. /\ startOf(list, n + 1) >= 2 * n
        /\ \A j \in 1 .. n + 1 : startOf(list, j) <= startOf(list, n + 1)
    BY <1>3, <2>1
  <2>3. startOf(list, (n + 1) + 1) = startOf(list, n + 1) + (Len(list[n + 1]) + 1)
    BY <1>1, <2>1
  <2>4. startOf(list, n + 1) \in Nat /\ Len(list[n + 1]) \in Nat \ {0}
    BY <1>1, <2>1
  <2>5. ASSUME NEW j \in 1 .. (n + 1) + 1 PROVE startOf(list, j) <= startOf(list, (n + 1) + 1)
    <3>1. CASE j = (n + 1) + 1
      BY <2>3, <2>4, <3>1
    <3>2. CASE j \in 1 .. n + 1
      <4>1. startOf(list, j) <= startOf(list, n + 1) /\ startOf(list, j) \in Nat
        BY <1>1, <2>1, <2>2, <3>2
      <4> QED
        BY <2>3, <2>4, <4>1
    <3> QED
      BY <3>1, <3>2
  <2> QED
    BY <2>2, <2>3, <2>4, <2>5
<1> HIDE DEF P
<1>4. i - 1 \in Nat /\ (i - 1) + 1 = i /\ i <= Len(list) + 1
  BY <1>1
<1>5. i - 1 \in P
  BY <1>2, <1>3, <1>4, Induction
<1> QED
  BY <1>4, <1>5 DEF P

LEMMA IntervalEnds ==
  ASSUME NEW a \in Nat, NEW b \in 0 .. a, 1 .. a = 1 .. b
  PROVE  a = b
<1>1. a = 0 \/ a \in 1 .. b
  OBVIOUS
<1> QED
  BY <1>1

(* What is left is a beginning of the list that ioevt_param has room for,  *)
(* each key as much of it as fits, and all of a list that fits.            *)
LEMMA TokensLeft ==
  ASSUME NEW list \in Seq(Word)
  PROVE  /\ Len(keyTokens(list)) \in 0 .. Len(list) /\ Len(keyTokens(list)) <= MAX_IOEVT
         /\ DOMAIN keyTokens(list) = 1 .. Len(keyTokens(list))
         /\ \A i \in 1 .. Len(keyTokens(list)) :
              \/ keyTokens(list)[i] = list[i]
              \/ \E n \in 1 .. Len(list[i]) - 1 : keyTokens(list)[i] = SubSeq(list[i], 1, n)
         /\ fits(list) => keyTokens(list) = list
         /\ Len(list) > 0 => Len(keyTokens(list)) > 0
<1> DEFINE D(n) == {j \in 1 .. n : startOf(list, j) < KEY_TEXT}
           P == {n \in Nat : n <= Len(list) => \E m \in 0 .. n : D(n) = 1 .. m}
           toks == keyTokens(list)
<1>1. /\ Len(list) \in Nat /\ DOMAIN list = 1 .. Len(list) /\ KEY_TEXT \in Nat \ {0}
      /\ MAX_IOEVT \in Nat \ {0} /\ KEY_TEXT = 2 * MAX_IOEVT - 1
  <2> HIDE DEF Word
  <2> QED
    BY PhoneAssumption, LenProperties DEF KEY_TEXT
<1>2. /\ startOf(list, 1) = 0
      /\ \A i \in 1 .. Len(list) + 1 : startOf(list, i) \in Nat
      /\ \A i \in 1 .. Len(list) : /\ Len(list[i]) \in Nat \ {0}
                                   /\ startOf(list, i + 1) = startOf(list, i) + (Len(list[i]) + 1)
      /\ fits(list) <=> startOf(list, Len(list) + 1) <= KEY_TEXT + 1
  BY StartStep
<1>3. 0 \in P
  <2>1. D(0) = 1 .. 0
    OBVIOUS
  <2> QED
    BY <2>1
<1>4. ASSUME NEW n \in Nat, n \in P PROVE n + 1 \in P
  <2> SUFFICES ASSUME n + 1 <= Len(list) PROVE \E m \in 0 .. n + 1 : D(n + 1) = 1 .. m
    OBVIOUS
  <2>1. PICK m \in 0 .. n : D(n) = 1 .. m
    BY <1>1, <1>4
  <2>2. CASE startOf(list, n + 1) < KEY_TEXT
    <3>1. ASSUME NEW j \in 1 .. n + 1 PROVE startOf(list, j) < KEY_TEXT
      <4>1. n + 1 \in 1 .. Len(list) + 1 /\ j \in 1 .. Len(list) + 1
        BY <1>1
      <4>2. startOf(list, j) <= startOf(list, n + 1)
        BY <4>1, StartGrows
      <4>3. startOf(list, j) \in Nat /\ startOf(list, n + 1) \in Nat
        BY <1>2, <4>1
      <4> QED
        BY <1>1, <2>2, <4>2, <4>3
    <3>2. D(n + 1) = 1 .. n + 1
      BY <3>1
    <3> QED
      BY <3>2
  <2>3. CASE ~ (startOf(list, n + 1) < KEY_TEXT)
    <3>1. \A j \in 1 .. n + 1 : j \in 1 .. n \/ j = n + 1
      OBVIOUS
    <3>2. 1 .. n \subseteq 1 .. n + 1
      OBVIOUS
    <3>3. D(n + 1) = D(n)
      BY <2>3, <3>1, <3>2
    <3>4. m \in 0 .. n + 1
      OBVIOUS
    <3> QED
      BY <2>1, <3>3, <3>4
  <2> QED
    BY <2>2, <2>3
<1>5. Len(list) \in P
  <2> HIDE DEF P
  <2> QED
    BY <1>1, <1>3, <1>4, Induction
<1>6. PICK m \in 0 .. Len(list) : D(Len(list)) = 1 .. m
  BY <1>1, <1>5
<1> DEFINE cut(i) == Min({Len(list[i]), KEY_TEXT - startOf(list, i)})
<1>7. toks = [i \in 1 .. m |-> SubSeq(list[i], 1, cut(i))]
  BY <1>1, <1>6 DEF keyTokens, cutAt
<1>8. Len(toks) = m /\ DOMAIN toks = 1 .. m
  <2> HIDE DEF cut
  <2>1. m \in Nat
    BY <1>1
  <2> QED
    BY <1>7, <2>1
<1>9. \A i \in 1 .. m : i \in 1 .. Len(list) /\ i \in 1 .. Len(list) + 1 /\ startOf(list, i) < KEY_TEXT
  <2>1. \A i \in 1 .. m : i \in D(Len(list))
    BY <1>6
  <2> QED
    BY <1>1, <2>1
<1>10. m <= MAX_IOEVT
  <2>1. CASE m = 0
    BY <1>1, <2>1
  <2>2. CASE m > 0
    <3>1. m \in 1 .. m
      BY <2>2
    <3>2. startOf(list, m) >= 2 * (m - 1) /\ startOf(list, m) < KEY_TEXT /\ startOf(list, m) \in Nat
      BY <1>2, <1>9, <3>1, StartGrows
    <3> QED
      BY <1>1, <3>1, <3>2
  <2> QED
    BY <1>1, <2>1, <2>2
<1>11. ASSUME NEW i \in 1 .. m
       PROVE  /\ cut(i) \in 1 .. Len(list[i])
              /\ Len(list[i]) <= KEY_TEXT - startOf(list, i) => cut(i) = Len(list[i])
  <2> DEFINE a == Len(list[i])
             b == KEY_TEXT - startOf(list, i)
  <2>1. a \in Nat \ {0} /\ b \in Nat \ {0}
    BY <1>1, <1>2, <1>9
  <2> HIDE DEF a, b
  <2>2. Min({a, b}) \in {a, b} /\ Min({a, b}) <= a /\ Min({a, b}) <= b
    BY <2>1, LeastExists
  <2>3. cut(i) = Min({a, b})
    BY DEF a, b
  <2> HIDE DEF cut
  <2>4. cut(i) \in 1 .. a /\ (a <= b => cut(i) = a)
    BY <2>1, <2>2, <2>3
  <2> QED
    BY <2>4 DEF a, b
<1>12. \A i \in 1 .. m : SubSeq(list[i], 1, Len(list[i])) = list[i]
  <2>1. \A i \in 1 .. m : list[i] \in Word
    <3> HIDE DEF Word
    <3> QED
      BY <1>9, ElementOfSeq
  <2> QED
    BY <2>1 DEF Word
<1> HIDE DEF D, cut, toks
<1>13. ASSUME NEW i \in 1 .. m
       PROVE  toks[i] = list[i] \/ \E n \in 1 .. Len(list[i]) - 1 : toks[i] = SubSeq(list[i], 1, n)
  <2>1. toks[i] = SubSeq(list[i], 1, cut(i)) /\ Len(list[i]) \in Nat
    BY <1>2, <1>7, <1>9
  <2>2. CASE cut(i) = Len(list[i])
    BY <1>12, <2>1, <2>2
  <2>3. CASE cut(i) # Len(list[i])
    <3>1. cut(i) \in 1 .. Len(list[i]) - 1
      BY <1>11, <2>1, <2>3
    <3> QED
      BY <2>1, <3>1
  <2> QED
    BY <2>2, <2>3
<1>14. ASSUME fits(list) PROVE toks = list
  <2>1. ASSUME NEW i \in 1 .. Len(list)
        PROVE  startOf(list, i) < KEY_TEXT /\ Len(list[i]) <= KEY_TEXT - startOf(list, i)
    <3>1. /\ i \in 1 .. Len(list) + 1 /\ i + 1 \in 1 .. Len(list) + 1
          /\ Len(list) + 1 \in 1 .. Len(list) + 1 /\ i + 1 \in 1 .. Len(list) + 1
      BY <1>1
    <3>2. startOf(list, i + 1) <= startOf(list, Len(list) + 1)
      BY <3>1, StartGrows
    <3>3. /\ startOf(list, i + 1) = startOf(list, i) + (Len(list[i]) + 1)
          /\ startOf(list, i) \in Nat /\ startOf(list, Len(list) + 1) \in Nat
          /\ Len(list[i]) \in Nat \ {0} /\ startOf(list, Len(list) + 1) <= KEY_TEXT + 1
      BY <1>2, <1>14, <3>1
    <3> QED
      BY <1>1, <3>2, <3>3
  <2>2. D(Len(list)) = 1 .. Len(list)
    BY <2>1 DEF D
  <2>3. m = Len(list)
    <3>1. 1 .. Len(list) = 1 .. m
      BY <1>6, <2>2
    <3> QED
      BY <1>1, <3>1, IntervalEnds
  <2>4. \A i \in 1 .. Len(list) : toks[i] = list[i]
    BY <1>7, <1>11, <1>12, <2>1, <2>3
  <2>5. list = [i \in 1 .. Len(list) |-> list[i]]
    BY <1>1
  <2>6. toks = [i \in 1 .. Len(list) |-> toks[i]]
    BY <1>7, <2>3
  <2> QED
    BY <2>4, <2>5, <2>6
<1>15. ASSUME Len(list) > 0 PROVE m > 0
  <2>1. 1 \in 1 .. Len(list) /\ startOf(list, 1) < KEY_TEXT
    BY <1>1, <1>2, <1>15
  <2>2. 1 \in 1 .. m
    BY <1>6, <2>1 DEF D
  <2> QED
    BY <2>2
<1> QED
  BY <1>8, <1>10, <1>13, <1>14, <1>15 DEF toks

(* The steps of the handlers, and those no handler goes on behind.         *)
LastUse == {"send", "compose", "sleep", "open"}
Use     == {"args", "range", "code", "client", "par", "action", "keys", "keyCodes", "draw",
            "min", "max"} \cup LastUse

Ahead(c, k)  == SubSeq(func[c], k, Len(func[c]))
Behind(c, k) == {func[c][j] : j \in 1 .. k - 1}

Typed(l) ==
  /\ DOMAIN l = DOMAIN NoLocals
  /\ l.line \in CommandLine /\ l.cmd \in DOMAIN func \cup {Stray}
  /\ l.client \in -128 .. 127 /\ l.min \in Number /\ l.max \in Number /\ l.value \in Int

atWork(t) == todo[t] \notin {<<>>, <<"dispatch">>}

TypeInv ==
  /\ gCmdParam \in CommandLine /\ DOMAIN todo = Thread /\ DOMAIN loc = Thread
  /\ config \in [Thread -> Seq(CommandLine)] /\ given \in [Thread -> Nat]
  /\ disturbed \subseteq Thread
  /\ \A t \in Thread :
       /\ Typed(loc[t])
       /\ atWork(t) => /\ loc[t].cmd \in DOMAIN func
                       /\ \E k \in 1 .. Len(func[loc[t].cmd]) : todo[t] = Ahead(loc[t].cmd, k)

(* The steps that lie behind a thread. *)
behind(t) ==
  IF atWork(t) THEN Behind(loc[t].cmd, Len(func[loc[t].cmd]) - Len(todo[t]) + 1) ELSE {}

Bounded(c, n) ==
  /\ c = "call"  => n \in MIN_CLIENT .. MAX_CLIENT - 1
  /\ c = "ioevt" => n \in MIN_CLIENT .. MAX_CLIENT

ValueInv ==
  \A t \in Thread :
    /\ "draw" \in behind(t) => loc[t].value \in MIN_KEY_NUM .. MAX_KEY_NUM
    /\ "max" \in behind(t) =>
         loc[t].value \in {FAILED} \cup loc[t].min .. loc[t].min + loc[t].max

ClientInv == \A t \in Thread : "client" \in behind(t) => Bounded(loc[t].cmd, loc[t].client)

pressed(line, name) ==
  [cmd |-> "ioevt", n |-> 3, num |-> line.num, par |-> <<name>>, max |-> 0, act |-> "p"]

lines(line) ==
  {line} \cup {pressed(line, name) : name \in
                 IF "randomKey" \in getCmdCode(line.cmd) /\ argsOk("randomKey", line)
                 THEN KeyName \cup {Stray} ELSE {}}

parOf(cmd, line) ==
  line.par \o (IF cmd = "syslog" /\ line.n = 3 THEN <<line.act>> ELSE <<>>)

(* What has been taken from line cur.                                      *)
Follows(t, cur) ==
  /\ "keys" \notin behind(t) => gCmdParam = cur
  /\ atWork(t) => loc[t].cmd \in getCmdCode(cur.cmd)
  /\ "args" \in behind(t) => argsOk(loc[t].cmd, cur)
  /\ "range" \in behind(t) => cur.num \in MIN_CLIENT .. MAX_CLIENT - 1
  /\ "code" \in behind(t) => loc[t].code = loc[t].cmd
  /\ "client" \in behind(t) =>
       /\ loc[t].client = c8(cur.num)
       /\ loc[t].cmd = "call" => cur.num \in MIN_CLIENT .. MAX_CLIENT - 1
  /\ "par" \in behind(t) => loc[t].par = parOf(loc[t].cmd, cur)
  /\ "action" \in behind(t) => loc[t].act = cur.act
  /\ "keys" \in behind(t) /\ "keyCodes" \notin behind(t) => loc[t].par = keyTokens(cur.par)
  /\ "keyCodes" \in behind(t) =>
       /\ \A i \in DOMAIN keyTokens(cur.par) : known(keyTokens(cur.par)[i])
       /\ loc[t].par = [i \in DOMAIN keyTokens(cur.par) |-> codeOf(keyTokens(cur.par)[i])]

LineInv ==
  \A t \in Thread :
    /\ "action" \notin behind(t) => loc[t].act = Stray
    /\ t \notin disturbed /\ todo[t] # <<>> =>
         \E cur \in lines(loc[t].line) : Follows(t, cur)

(* The order of the steps, as far as it matters: c's next step is s, those *)
(* of D lie behind.                                                        *)
InOrder(c, s, D) ==
  /\ s \notin D
  /\ "keys" \in D => s \in {"keyCodes", "send"}
  /\ "keyCodes" \in D => "keys" \in D /\ s = "send"
  /\ "par" \in D => s = "send"
  /\ "draw" \in D => s = "compose"
  /\ "max" \in D => s = "sleep"
  /\ "action" \in D \/ s \in {"action", "keys", "keyCodes"} => c = "ioevt"
  /\ s = "keyCodes" => "keys" \in D
  /\ s \in {"draw", "compose"} => c = "randomKey"
  /\ s = "compose" => {"args", "draw"} \subseteq D
  /\ s \in {"min", "max", "sleep", "open"} => c \in {"randomTime", "delay", "autoConfig"}
  /\ s = "sleep" /\ c = "randomTime" => "max" \in D
  /\ s = "send" => /\ {"args", "code", "client"} \subseteq D
                   /\ c # "call" => "range" \in D
                   /\ \/ c = "ioevt" /\ {"action", "keys", "keyCodes"} \subseteq D
                      \/ c \in {"call", "syslog", "hideFeature"} /\ "par" \in D

LEMMA BehindGrows ==
  ASSUME NEW c, NEW k \in Nat \ {0}
  PROVE  Behind(c, 1) = {} /\ Behind(c, k + 1) = Behind(c, k) \cup {func[c][k]}
<1>1. 1 .. (k + 1) - 1 = (1 .. k - 1) \cup {k}
  OBVIOUS
<1> QED
  BY <1>1 DEF Behind

LEMMA HandlerOrder ==
  ASSUME NEW c \in DOMAIN func
  PROVE  /\ func[c] \in Seq(Use) /\ Len(func[c]) \in Nat \ {0}
         /\ \A k \in 1 .. Len(func[c]) : /\ InOrder(c, func[c][k], Behind(c, k))
                                         /\ func[c][k] \in LastUse <=> k = Len(func[c])
<1> DEFINE here(k) == /\ InOrder(c, func[c][k], Behind(c, k))
                      /\ func[c][k] \in LastUse <=> k = Len(func[c])
<1>1. c \in {"ioevt", "call", "syslog", "hideFeature", "randomKey", "randomTime", "delay", "autoConfig"}
  BY DEF func
<1>2. /\ Behind(c, 1) = {}
      /\ \A k \in Nat \ {0, 1} : Behind(c, k) = Behind(c, k - 1) \cup {func[c][k - 1]}
  <2>1. ASSUME NEW k \in Nat \ {0, 1} PROVE Behind(c, k) = Behind(c, k - 1) \cup {func[c][k - 1]}
    <3>1. k - 1 \in Nat \ {0} /\ (k - 1) + 1 = k
      OBVIOUS
    <3> QED
      BY <3>1, BehindGrows
  <2> QED
    BY <2>1, BehindGrows
<1>3. CASE c = "ioevt"
  <2>1. /\ func[c] \in Seq(Use) /\ Len(func[c]) = 8
        /\ func[c][1] = "args" /\ func[c][2] = "range" /\ func[c][3] = "code"
        /\ func[c][4] = "client" /\ func[c][5] = "action" /\ func[c][6] = "keys"
        /\ func[c][7] = "keyCodes" /\ func[c][8] = "send"
    BY <1>3 DEF func, ioevt, Use, LastUse
  <2>2. Behind(c, 2) = {"args"}
    BY <1>2, <2>1
  <2>3. Behind(c, 3) = {"args", "range"}
    BY <1>2, <2>1, <2>2
  <2>4. Behind(c, 4) = {"args", "range", "code"}
    BY <1>2, <2>1, <2>3
  <2>5. Behind(c, 5) = {"args", "range", "code", "client"}
    BY <1>2, <2>1, <2>4
  <2>6. Behind(c, 6) = {"args", "range", "code", "client", "action"}
    BY <1>2, <2>1, <2>5
  <2>7. Behind(c, 7) = {"args", "range", "code", "client", "action", "keys"}
    BY <1>2, <2>1, <2>6
  <2>8. Behind(c, 8) = {"args", "range", "code", "client", "action", "keys", "keyCodes"}
    BY <1>2, <2>1, <2>7
  <2>9. here(1)
    BY <1>2, <1>3, <2>1 DEF InOrder, LastUse
  <2>10. here(2)
    BY <1>2, <1>3, <2>1, <2>2 DEF InOrder, LastUse
  <2>11. here(3)
    BY <1>2, <1>3, <2>1, <2>3 DEF InOrder, LastUse
  <2>12. here(4)
    BY <1>2, <1>3, <2>1, <2>4 DEF InOrder, LastUse
  <2>13. here(5)
    BY <1>2, <1>3, <2>1, <2>5 DEF InOrder, LastUse
  <2>14. here(6)
    BY <1>2, <1>3, <2>1, <2>6 DEF InOrder, LastUse
  <2>15. here(7)
    BY <1>2, <1>3, <2>1, <2>7 DEF InOrder, LastUse
  <2>16. here(8)
    BY <1>2, <1>3, <2>1, <2>8 DEF InOrder, LastUse
  <2> HIDE DEF here
  <2>17. \A k \in 1 .. 8 : here(k)
    BY <2>9, <2>10, <2>11, <2>12, <2>13, <2>14, <2>15, <2>16
  <2> QED
    BY <2>1, <2>17 DEF here
<1>4. CASE c = "call"
  <2>1. /\ func[c] \in Seq(Use) /\ Len(func[c]) = 5
        /\ func[c][1] = "args" /\ func[c][2] = "client" /\ func[c][3] = "code"
        /\ func[c][4] = "par" /\ func[c][5] = "send"
    BY <1>4 DEF func, call, Use, LastUse
  <2>2. Behind(c, 2) = {"args"}
    BY <1>2, <2>1
  <2>3. Behind(c, 3) = {"args", "client"}
    BY <1>2, <2>1, <2>2
  <2>4. Behind(c, 4) = {"args", "client", "code"}
    BY <1>2, <2>1, <2>3
  <2>5. Behind(c, 5) = {"args", "client", "code", "par"}
    BY <1>2, <2>1, <2>4
  <2>6. here(1)
    BY <1>2, <1>4, <2>1 DEF InOrder, LastUse
  <2>7. here(2)
    BY <1>2, <1>4, <2>1, <2>2 DEF InOrder, LastUse
  <2>8. here(3)
    BY <1>2, <1>4, <2>1, <2>3 DEF InOrder, LastUse
  <2>9. here(4)
    BY <1>2, <1>4, <2>1, <2>4 DEF InOrder, LastUse
  <2>10. here(5)
    BY <1>2, <1>4, <2>1, <2>5 DEF InOrder, LastUse
  <2> HIDE DEF here
  <2>11. \A k \in 1 .. 5 : here(k)
    BY <2>6, <2>7, <2>8, <2>9, <2>10
  <2> QED
    BY <2>1, <2>11 DEF here
<1>5. CASE c = "syslog"
  <2>1. /\ func[c] \in Seq(Use) /\ Len(func[c]) = 6
        /\ func[c][1] = "args" /\ func[c][2] = "range" /\ func[c][3] = "code"
        /\ func[c][4] = "client" /\ func[c][5] = "par" /\ func[c][6] = "send"
    BY <1>5 DEF func, syslogConf, Use, LastUse
  <2>2. Behind(c, 2) = {"args"}
    BY <1>2, <2>1
  <2>3. Behind(c, 3) = {"args", "range"}
    BY <1>2, <2>1, <2>2
  <2>4. Behind(c, 4) = {"args", "range", "code"}
    BY <1>2, <2>1, <2>3
  <2>5. Behind(c, 5) = {"args", "range", "code", "client"}
    BY <1>2, <2>1, <2>4
  <2>6. Behind(c, 6) = {"args", "range", "code", "client", "par"}
    BY <1>2, <2>1, <2>5
  <2>7. here(1)
    BY <1>2, <1>5, <2>1 DEF InOrder, LastUse
  <2>8. here(2)
    BY <1>2, <1>5, <2>1, <2>2 DEF InOrder, LastUse
  <2>9. here(3)
    BY <1>2, <1>5, <2>1, <2>3 DEF InOrder, LastUse
  <2>10. here(4)
    BY <1>2, <1>5, <2>1, <2>4 DEF InOrder, LastUse
  <2>11. here(5)
    BY <1>2, <1>5, <2>1, <2>5 DEF InOrder, LastUse
  <2>12. here(6)
    BY <1>2, <1>5, <2>1, <2>6 DEF InOrder, LastUse
  <2> HIDE DEF here
  <2>13. \A k \in 1 .. 6 : here(k)
    BY <2>7, <2>8, <2>9, <2>10, <2>11, <2>12
  <2> QED
    BY <2>1, <2>13 DEF here
<1>6. CASE c = "hideFeature"
  <2>1. /\ func[c] \in Seq(Use) /\ Len(func[c]) = 6
        /\ func[c][1] = "args" /\ func[c][2] = "range" /\ func[c][3] = "code"
        /\ func[c][4] = "client" /\ func[c][5] = "par" /\ func[c][6] = "send"
    BY <1>6 DEF func, hideFeatureProc, Use, LastUse
  <2>2. Behind(c, 2) = {"args"}
    BY <1>2, <2>1
  <2>3. Behind(c, 3) = {"args", "range"}
    BY <1>2, <2>1, <2>2
  <2>4. Behind(c, 4) = {"args", "range", "code"}
    BY <1>2, <2>1, <2>3
  <2>5. Behind(c, 5) = {"args", "range", "code", "client"}
    BY <1>2, <2>1, <2>4
  <2>6. Behind(c, 6) = {"args", "range", "code", "client", "par"}
    BY <1>2, <2>1, <2>5
  <2>7. here(1)
    BY <1>2, <1>6, <2>1 DEF InOrder, LastUse
  <2>8. here(2)
    BY <1>2, <1>6, <2>1, <2>2 DEF InOrder, LastUse
  <2>9. here(3)
    BY <1>2, <1>6, <2>1, <2>3 DEF InOrder, LastUse
  <2>10. here(4)
    BY <1>2, <1>6, <2>1, <2>4 DEF InOrder, LastUse
  <2>11. here(5)
    BY <1>2, <1>6, <2>1, <2>5 DEF InOrder, LastUse
  <2>12. here(6)
    BY <1>2, <1>6, <2>1, <2>6 DEF InOrder, LastUse
  <2> HIDE DEF here
  <2>13. \A k \in 1 .. 6 : here(k)
    BY <2>7, <2>8, <2>9, <2>10, <2>11, <2>12
  <2> QED
    BY <2>1, <2>13 DEF here
<1>7. CASE c = "randomKey"
  <2>1. /\ func[c] \in Seq(Use) /\ Len(func[c]) = 3
        /\ func[c][1] = "args" /\ func[c][2] = "draw" /\ func[c][3] = "compose"
    BY <1>7 DEF func, randomKey, Use, LastUse
  <2>2. Behind(c, 2) = {"args"}
    BY <1>2, <2>1
  <2>3. Behind(c, 3) = {"args", "draw"}
    BY <1>2, <2>1, <2>2
  <2>4. here(1)
    BY <1>2, <1>7, <2>1 DEF InOrder, LastUse
  <2>5. here(2)
    BY <1>2, <1>7, <2>1, <2>2 DEF InOrder, LastUse
  <2>6. here(3)
    BY <1>2, <1>7, <2>1, <2>3 DEF InOrder, LastUse
  <2> HIDE DEF here
  <2>7. \A k \in 1 .. 3 : here(k)
    BY <2>4, <2>5, <2>6
  <2> QED
    BY <2>1, <2>7 DEF here
<1>8. CASE c = "randomTime"
  <2>1. /\ func[c] \in Seq(Use) /\ Len(func[c]) = 4
        /\ func[c][1] = "args" /\ func[c][2] = "min" /\ func[c][3] = "max"
        /\ func[c][4] = "sleep"
    BY <1>8 DEF func, randomTime, Use, LastUse
  <2>2. Behind(c, 2) = {"args"}
    BY <1>2, <2>1
  <2>3. Behind(c, 3) = {"args", "min"}
    BY <1>2, <2>1, <2>2
  <2>4. Behind(c, 4) = {"args", "min", "max"}
    BY <1>2, <2>1, <2>3
  <2>5. here(1)
    BY <1>2, <1>8, <2>1 DEF InOrder, LastUse
  <2>6. here(2)
    BY <1>2, <1>8, <2>1, <2>2 DEF InOrder, LastUse
  <2>7. here(3)
    BY <1>2, <1>8, <2>1, <2>3 DEF InOrder, LastUse
  <2>8. here(4)
    BY <1>2, <1>8, <2>1, <2>4 DEF InOrder, LastUse
  <2> HIDE DEF here
  <2>9. \A k \in 1 .. 4 : here(k)
    BY <2>5, <2>6, <2>7, <2>8
  <2> QED
    BY <2>1, <2>9 DEF here
<1>9. CASE c = "delay"
  <2>1. /\ func[c] \in Seq(Use) /\ Len(func[c]) = 3
        /\ func[c][1] = "args" /\ func[c][2] = "min" /\ func[c][3] = "sleep"
    BY <1>9 DEF func, delay, Use, LastUse
  <2>2. Behind(c, 2) = {"args"}
    BY <1>2, <2>1
  <2>3. Behind(c, 3) = {"args", "min"}
    BY <1>2, <2>1, <2>2
  <2>4. here(1)
    BY <1>2, <1>9, <2>1 DEF InOrder, LastUse
  <2>5. here(2)
    BY <1>2, <1>9, <2>1, <2>2 DEF InOrder, LastUse
  <2>6. here(3)
    BY <1>2, <1>9, <2>1, <2>3 DEF InOrder, LastUse
  <2> HIDE DEF here
  <2>7. \A k \in 1 .. 3 : here(k)
    BY <2>4, <2>5, <2>6
  <2> QED
    BY <2>1, <2>7 DEF here
<1>10. CASE c = "autoConfig"
  <2>1. /\ func[c] \in Seq(Use) /\ Len(func[c]) = 2
        /\ func[c][1] = "args" /\ func[c][2] = "open"
    BY <1>10 DEF func, autoConfig, Use, LastUse
  <2>2. Behind(c, 2) = {"args"}
    BY <1>2, <2>1
  <2>3. here(1)
    BY <1>2, <1>10, <2>1 DEF InOrder, LastUse
  <2>4. here(2)
    BY <1>2, <1>10, <2>1, <2>2 DEF InOrder, LastUse
  <2> HIDE DEF here
  <2>5. \A k \in 1 .. 2 : here(k)
    BY <2>3, <2>4
  <2> QED
    BY <2>1, <2>5 DEF here
<1> QED
  BY <1>1, <1>3, <1>4, <1>5, <1>6, <1>7, <1>8, <1>9, <1>10
-----------------------------------------------------------------------------
(* Where a thread is in its handler.                                       *)
LEMMA AheadFacts ==
  ASSUME NEW c \in DOMAIN func, NEW k \in 1 .. Len(func[c])
  PROVE  /\ Ahead(c, k) \notin {<<>>, <<"dispatch">>} /\ Head(Ahead(c, k)) = func[c][k]
         /\ Len(Ahead(c, k)) = Len(func[c]) - k + 1
         /\ k < Len(func[c]) => Tail(Ahead(c, k)) = Ahead(c, k + 1)
         /\ Ahead(c, 1) = func[c]
<1>1. func[c] \in Seq(Use) /\ Len(func[c]) \in Nat /\ func[c][k] \in Use
  BY HandlerOrder
<1>2. Len(Ahead(c, k)) = Len(func[c]) - k + 1
  BY <1>1, SubSeqProperties DEF Ahead
<1>3. Ahead(c, k) # <<>>
  <2>1. Len(Ahead(c, k)) # 0
    BY <1>1, <1>2
  <2> QED
    BY <2>1
<1>4. Head(Ahead(c, k)) = func[c][k] /\ Tail(Ahead(c, k)) = SubSeq(func[c], k + 1, Len(func[c]))
  <2>1. Len(func[c]) \in k .. Len(func[c])
    BY <1>1
  <2> QED
    BY <1>1, <2>1, HeadTailOfSubSeq DEF Ahead
<1>5. Ahead(c, k) # <<"dispatch">>
  <2>1. Head(<<"dispatch">>) = "dispatch" /\ func[c][k] # "dispatch"
    BY <1>1 DEF Use, LastUse
  <2> QED
    BY <1>4, <2>1
<1>6. Ahead(c, 1) = func[c]
  BY <1>1, SubSeqFull DEF Ahead
<1> QED
  BY <1>2, <1>3, <1>4, <1>5, <1>6 DEF Ahead

LEMMA Position ==
  ASSUME TypeInv, NEW t \in Thread, atWork(t)
  PROVE  /\ loc[t].cmd \in DOMAIN func
         /\ \E k \in 1 .. Len(func[loc[t].cmd]) :
              /\ todo[t] = Ahead(loc[t].cmd, k) /\ behind(t) = Behind(loc[t].cmd, k)
              /\ Head(todo[t]) = func[loc[t].cmd][k]
<1> DEFINE c == loc[t].cmd
<1>1. c \in DOMAIN func
  BY DEF TypeInv
<1>2. PICK k \in 1 .. Len(func[c]) : todo[t] = Ahead(c, k)
  BY DEF TypeInv
<1> HIDE DEF c
<1>3. Len(todo[t]) = Len(func[c]) - k + 1 /\ Len(func[c]) \in Nat /\ Head(todo[t]) = func[c][k]
  BY <1>1, <1>2, AheadFacts, HandlerOrder
<1>4. Len(func[c]) - Len(todo[t]) + 1 = k
  BY <1>3
<1>5. behind(t) = Behind(c, k)
  BY <1>4 DEF behind, c
<1> QED
  BY <1>1, <1>2, <1>3, <1>5 DEF c

LEMMA Here ==
  ASSUME TypeInv, NEW t \in Thread, NEW s \in Use, at(t, s)
  PROVE  /\ todo[t] # <<>> /\ atWork(t) /\ loc[t].cmd \in DOMAIN func
         /\ InOrder(loc[t].cmd, s, behind(t))
<1>1. atWork(t) /\ todo[t] # <<>> /\ Head(todo[t]) = s
  BY DEF at, atWork, Use, LastUse
<1> QED
  BY <1>1, Position, HandlerOrder

LEMMA Proceeds ==
  ASSUME TypeInv, NEW t \in Thread, NEW s \in Use \ LastUse, at(t, s), proceed(t),
         loc'[t].cmd = loc[t].cmd
  PROVE  /\ atWork(t)' /\ behind(t)' = behind(t) \cup {s}
         /\ \E k \in 1 .. Len(func[loc[t].cmd]) : todo'[t] = Ahead(loc[t].cmd, k)
<1> DEFINE c == loc[t].cmd
<1>1. atWork(t) /\ Head(todo[t]) = s /\ c \in DOMAIN func
  BY Here DEF at
<1>2. PICK k \in 1 .. Len(func[c]) :
        todo[t] = Ahead(c, k) /\ behind(t) = Behind(c, k) /\ Head(todo[t]) = func[c][k]
  BY <1>1, Position
<1>3. c = loc'[t].cmd
  OBVIOUS
<1>4. todo'[t] = Tail(todo[t])
  BY DEF proceed, TypeInv
<1> HIDE DEF c
<1>5. k # Len(func[c]) /\ Len(func[c]) \in Nat
  BY <1>1, <1>2, HandlerOrder
<1>6. k + 1 \in 1 .. Len(func[c]) /\ k < Len(func[c]) /\ k \in Nat \ {0}
  BY <1>5
<1>7. todo'[t] = Ahead(c, k + 1)
  <2>1. Tail(Ahead(c, k)) = Ahead(c, k + 1)
    BY <1>1, <1>6, AheadFacts
  <2> QED
    BY <1>2, <1>4, <2>1
<1>8. todo'[t] \notin {<<>>, <<"dispatch">>} /\ Len(todo'[t]) = Len(func[c]) - (k + 1) + 1
  BY <1>1, <1>6, <1>7, AheadFacts
<1>9. Len(func[c]) - Len(todo'[t]) + 1 = k + 1
  BY <1>5, <1>8
<1>10. behind(t)' = Behind(c, k + 1) /\ atWork(t)'
  BY <1>3, <1>8, <1>9 DEF behind, atWork, Behind
<1>11. Behind(c, k + 1) = Behind(c, k) \cup {s}
  BY <1>1, <1>2, <1>6, BehindGrows
<1> QED
  BY <1>2, <1>6, <1>7, <1>10, <1>11 DEF c

LEMMA Begins ==
  ASSUME NEW t, NEW c \in DOMAIN func, todo'[t] = func[c], loc'[t].cmd = c
  PROVE  /\ atWork(t)' /\ behind(t)' = {}
         /\ \E k \in 1 .. Len(func[c]) : todo'[t] = Ahead(c, k)
<1>1. Len(func[c]) \in Nat \ {0} /\ 1 \in 1 .. Len(func[c])
  BY HandlerOrder
<1>2. todo'[t] = Ahead(c, 1) /\ todo'[t] \notin {<<>>, <<"dispatch">>}
  BY <1>1, AheadFacts
<1>3. Len(func[c]) - Len(todo'[t]) + 1 = 1
  BY <1>1
<1>4. Behind(c, 1) = {}
  BY DEF Behind
<1> QED
  BY <1>1, <1>2, <1>3, <1>4 DEF behind, atWork, Behind

LEMMA Stops ==
  ASSUME NEW t, todo'[t] = <<>> \/ todo'[t] = <<"dispatch">>
  PROVE  ~ atWork(t)' /\ behind(t)' = {}
BY DEF atWork, behind

LEMMA Waits ==
  ASSUME NEW t, todo'[t] = todo[t], loc'[t] = loc[t]
  PROVE  atWork(t)' = atWork(t) /\ behind(t)' = behind(t)
BY DEF atWork, behind, Behind
-----------------------------------------------------------------------------
(* What a step of a thread does to its locals.  It gives up or is done, it *)
(* has a line parsed, it begins a handler, or it goes on with one by what  *)
(* Effect says.                                                            *)
Halts(t)  == todo'[t] = <<>> /\ loc'[t] = NoLocals
Parses(t) == /\ Issue(t) \/ Compose(t)
             /\ todo'[t] = <<"dispatch">>
             /\ loc'[t] \in {loc[t], [loc[t] EXCEPT !.line = gCmdParam']}

StartsAs(t, c) == /\ at(t, "dispatch") /\ todo'[t] = func[c]
                  /\ loc'[t] = [loc[t] EXCEPT !.cmd = c]

Effect(t, s) ==
  LET l == loc[t]
      m == loc'[t]
  IN /\ DOMAIN m = DOMAIN NoLocals /\ m.line = l.line /\ m.cmd = l.cmd
     /\ s = "args"  => argsOk(l.cmd, gCmdParam)
     /\ s = "range" => gCmdParam.num \in MIN_CLIENT .. MAX_CLIENT - 1
     /\ m.code = (IF s # "code" THEN l.code
                  ELSE IF gCmdParam.cmd = nickName[l.cmd] THEN l.cmd ELSE gCmdParam.cmd)
     /\ m.client = (IF s = "client" THEN c8(gCmdParam.num) ELSE l.client)
     /\ s = "client" => clientOk(l.cmd)
     /\ s \notin {"par", "keys", "keyCodes"} => m.par = l.par
     /\ s = "par" => m.par = parOf(l.cmd, gCmdParam)
     /\ m.act = (IF s = "action" THEN gCmdParam.act ELSE l.act)
     /\ s = "keys" => m.par = keyTokens(gCmdParam.par)
     /\ s = "keyCodes" /\ t \notin disturbed =>
          /\ \A i \in DOMAIN l.par : getKeyCode(l.par[i]) # FAILED
          /\ m.par = [i \in DOMAIN l.par |-> gKeyLib[getKeyCode(l.par[i])].code]
     /\ m.min = (IF s = "min" THEN gCmdParam.num ELSE l.min)
     /\ m.max = (IF s = "max" THEN gCmdParam.max ELSE l.max)
     /\ s \notin {"draw", "max"} => m.value = l.value
     /\ s = "draw" => m.value \in getRandValue[<<MIN_KEY_NUM, MAX_KEY_NUM>>]
     /\ s = "max" => m.value \in getRandValue[<<l.min, gCmdParam.max>>]

GoesOn(t, s) == at(t, s) /\ proceed(t) /\ Effect(t, s)

Kind(t) ==
  \/ Halts(t)
  \/ Parses(t)
  \/ \E c \in getCmdCode(gCmdParam.cmd) : StartsAs(t, c)
  \/ \E s \in Use \ LastUse : GoesOn(t, s)

OthersWait(t) ==
  /\ DOMAIN todo' = Thread /\ DOMAIN loc' = Thread
  /\ \A u \in Thread \ {t} : todo'[u] = todo[u] /\ loc'[u] = loc[u]

LEMMA FieldFacts ==
  DOMAIN NoLocals = {"line", "cmd", "code", "client", "par", "act", "min", "max", "value"}
BY DEF NoLocals

LEMMA SetFacts ==
  ASSUME TypeInv, NEW t \in Thread, NEW f \in DOMAIN NoLocals, NEW v, set(t, f, v)
  PROVE  /\ DOMAIN loc' = Thread /\ \A u \in Thread \ {t} : loc'[u] = loc[u]
         /\ DOMAIN loc'[t] = DOMAIN NoLocals /\ loc'[t][f] = v
         /\ \A g \in DOMAIN NoLocals \ {f} : loc'[t][g] = loc[t][g]
BY DEF set, TypeInv, Typed

LEMMA ReturnKind ==
  ASSUME TypeInv, NEW t \in Thread, return(t)
  PROVE  OthersWait(t) /\ Kind(t)
<1>1. OthersWait(t) /\ Halts(t)
  BY DEF return, TypeInv, OthersWait, Halts
<1> QED
  BY <1>1 DEF Kind

LEMMA ProceedWaits ==
  ASSUME TypeInv, NEW t \in Thread, proceed(t), DOMAIN loc' = Thread,
         \A u \in Thread \ {t} : loc'[u] = loc[u]
  PROVE  OthersWait(t)
BY DEF proceed, TypeInv, OthersWait

LEMMA KeepingKind ==
  ASSUME TypeInv, NEW t \in Thread, NEW s \in {"args", "range"}, at(t, s), proceed(t), UNCHANGED loc,
         s = "args" => argsOk(loc[t].cmd, gCmdParam),
         s = "range" => gCmdParam.num \in MIN_CLIENT .. MAX_CLIENT - 1
  PROVE  OthersWait(t) /\ Kind(t)
<1>1. OthersWait(t)
  BY ProceedWaits DEF TypeInv
<1>2. Effect(t, s)
  BY DEF Effect, TypeInv, Typed
<1>3. s \in Use \ LastUse
  BY DEF Use, LastUse
<1> QED
  BY <1>1, <1>2, <1>3 DEF Kind, GoesOn

LEMMA DispatchKind ==
  ASSUME TypeInv, NEW t \in Thread, Dispatch(t)
  PROVE  OthersWait(t) /\ Kind(t)
<1>1. CASE return(t)
  BY <1>1, ReturnKind
<1>2. ASSUME NEW c \in getCmdCode(gCmdParam.cmd), todo' = [todo EXCEPT ![t] = func[c]], set(t, "cmd", c)
      PROVE  OthersWait(t) /\ Kind(t)
  <2>1. OthersWait(t)
    BY <1>2 DEF set, TypeInv, OthersWait
  <2>2. StartsAs(t, c)
    BY <1>2 DEF set, TypeInv, StartsAs, Dispatch
  <2> QED
    BY <2>1, <2>2 DEF Kind
<1> QED
  BY <1>1, <1>2 DEF Dispatch

LEMMA ParseKind ==
  ASSUME TypeInv, NEW t \in Thread, NEW line, parse(t, line), set(t, "line", line) \/ UNCHANGED loc,
         Issue(t) \/ Compose(t)
  PROVE  OthersWait(t) /\ Kind(t)
<1>1. OthersWait(t)
  BY DEF parse, set, TypeInv, OthersWait
<1>2. Parses(t)
  BY DEF parse, set, TypeInv, Parses
<1> QED
  BY <1>1, <1>2 DEF Kind

(* The steps that set one field.                                           *)
LEMMA SettingKind ==
  ASSUME TypeInv, NEW t \in Thread,
         NEW s \in Use \ (LastUse \cup {"args", "range", "max"}), at(t, s), proceed(t),
         NEW f \in DOMAIN NoLocals, NEW v, set(t, f, v),
         f = (CASE s = "action" -> "act" [] s \in {"keys", "keyCodes"} -> "par"
                [] s = "draw" -> "value" [] OTHER -> s),
         s = "code" => v = IF gCmdParam.cmd = nickName[loc[t].cmd] THEN loc[t].cmd ELSE gCmdParam.cmd,
         s = "client" => clientOk(loc[t].cmd) /\ v = c8(gCmdParam.num),
         s = "par" => v = parOf(loc[t].cmd, gCmdParam),
         s = "action" => v = gCmdParam.act,
         s = "keys" => v = keyTokens(gCmdParam.par),
         s = "keyCodes" /\ t \notin disturbed =>
           /\ \A i \in DOMAIN loc[t].par : getKeyCode(loc[t].par[i]) # FAILED
           /\ v = [i \in DOMAIN loc[t].par |-> gKeyLib[getKeyCode(loc[t].par[i])].code],
         s = "draw" => v \in getRandValue[<<MIN_KEY_NUM, MAX_KEY_NUM>>],
         s = "min" => v = gCmdParam.num
  PROVE  OthersWait(t) /\ Kind(t)
<1>1. /\ DOMAIN loc' = Thread /\ \A u \in Thread \ {t} : loc'[u] = loc[u]
      /\ DOMAIN loc'[t] = DOMAIN NoLocals /\ loc'[t][f] = v
      /\ \A g \in DOMAIN NoLocals \ {f} : loc'[t][g] = loc[t][g]
  BY SetFacts
<1>2. OthersWait(t)
  BY <1>1, ProceedWaits
<1>3. s \in {"code", "client", "par", "action", "keys", "keyCodes", "draw", "min"}
  BY DEF Use, LastUse
<1>4. Effect(t, s)
  BY <1>1, <1>3, FieldFacts DEF Effect
<1> QED
  BY <1>2, <1>4 DEF Kind, GoesOn

LEMMA TakeMaxKind ==
  ASSUME TypeInv, NEW t \in Thread, TakeMax(t)
  PROVE  OthersWait(t) /\ Kind(t)
<1>1. CASE return(t)
  BY <1>1, ReturnKind
<1>2. ASSUME NEW v \in getRandValue[<<loc[t].min, gCmdParam.max>>], proceed(t),
             loc' = [loc EXCEPT ![t].max = gCmdParam.max, ![t].value = v]
      PROVE  OthersWait(t) /\ Kind(t)
  <2>1. DOMAIN loc' = Thread /\ \A u \in Thread \ {t} : loc'[u] = loc[u]
    BY <1>2 DEF TypeInv
  <2>2. Effect(t, "max")
    BY <1>2, FieldFacts DEF Effect, TypeInv, Typed
  <2>3. at(t, "max") /\ "max" \in Use \ LastUse
    BY DEF TakeMax, Use, LastUse
  <2> QED
    BY <1>2, <2>1, <2>2, <2>3, ProceedWaits DEF Kind, GoesOn
<1> QED
  BY <1>1, <1>2 DEF TakeMax

LEMMA StepKind ==
  ASSUME TypeInv, NEW t \in Thread, Issue(t) \/ Step(t)
  PROVE  OthersWait(t) /\ Kind(t)
<1>1. CASE Issue(t)
  BY <1>1, ParseKind DEF Issue
<1>2. CASE Dispatch(t) \/ TakeMax(t)
  BY <1>2, DispatchKind, TakeMaxKind
<1>3. CASE CheckArgs(t) \/ CheckRange(t)
  BY <1>3, ReturnKind, KeepingKind DEF CheckArgs, CheckRange
<1>4. CASE Send(t) \/ Sleep(t) \/ OpenConfig(t)
  BY <1>4, ReturnKind DEF Send, Sleep, OpenConfig
<1>5. CASE Compose(t)
  BY <1>5, ParseKind DEF Compose
<1>6. /\ {"code", "client", "par", "action", "keys", "keyCodes", "draw", "min"} \subseteq
           Use \ (LastUse \cup {"args", "range", "max"})
      /\ {"code", "client", "par", "act", "min", "value"} \subseteq DOMAIN NoLocals
  BY FieldFacts DEF Use, LastUse
<1>7. CASE TakeCode(t)
  BY <1>6, <1>7, SettingKind DEF TakeCode
<1>8. CASE TakeClient(t)
  BY <1>6, <1>8, ReturnKind, SettingKind DEF TakeClient
<1>9. CASE TakePar(t)
  <2>1. at(t, "par") /\ set(t, "par", parOf(loc[t].cmd, gCmdParam)) /\ proceed(t)
    BY <1>9 DEF TakePar, parOf
  <2> QED
    BY <1>6, <2>1, SettingKind
<1>10. CASE TakeAction(t)
  BY <1>6, <1>10, SettingKind DEF TakeAction
<1>11. CASE TakeKeys(t)
  BY <1>6, <1>11, ReturnKind, SettingKind DEF TakeKeys
<1>12. CASE TakeKeyCodes(t)
  <2> DEFINE index == [i \in DOMAIN loc[t].par |-> getKeyCode(loc[t].par[i])]
  <2>1. CASE return(t)
    BY <2>1, ReturnKind
  <2>2. CASE /\ \A i \in DOMAIN index : index[i] # FAILED
             /\ set(t, "par", [i \in DOMAIN index |-> gKeyLib[index[i]].code]) /\ proceed(t)
    <3>1. \A i \in DOMAIN loc[t].par : getKeyCode(loc[t].par[i]) # FAILED
      BY <2>2
    <3>2. set(t, "par", [i \in DOMAIN loc[t].par |-> gKeyLib[getKeyCode(loc[t].par[i])].code])
      BY <2>2
    <3>3. at(t, "keyCodes")
      BY <1>12 DEF TakeKeyCodes
    <3> HIDE DEF index
    <3> QED
      BY <1>6, <2>2, <3>1, <3>2, <3>3, SettingKind
  <2>3. CASE t \in disturbed /\ set(t, "par", [i \in DOMAIN index |-> Stray]) /\ proceed(t)
    <3>1. at(t, "keyCodes")
      BY <1>12 DEF TakeKeyCodes
    <3> HIDE DEF index
    <3> QED
      BY <1>6, <2>3, <3>1, SettingKind
  <2> QED
    BY <1>12, <2>1, <2>2, <2>3 DEF TakeKeyCodes
<1>13. CASE DrawKey(t)
  BY <1>6, <1>13, SettingKind DEF DrawKey
<1>14. CASE TakeMin(t)
  BY <1>6, <1>14, SettingKind DEF TakeMin
<1> QED
  BY <1>1, <1>2, <1>3, <1>4, <1>5, <1>7, <1>8, <1>9, <1>10, <1>11, <1>12, <1>13, <1>14 DEF Step

-----------------------------------------------------------------------------
(* Types.                                                                  *)
LEMMA NumberOfByte == \A n \in Int : c8(n) \in -128 .. 127
<1>1. ASSUME NEW n \in Int PROVE c8(n) \in -128 .. 127
  <2>1. (n + 128) % 256 \in 0 .. 255
    BY SMT
  <2> QED
    BY <2>1 DEF c8
<1> QED
  BY <1>1

LEMMA LinesTyped ==
  /\ NoLine \in CommandLine
  /\ \A line \in CommandLine : \A name \in KeyName \cup {Stray} : pressed(line, name) \in CommandLine
  /\ \A i, j \in Number : \A line \in CommandLine :
       [line EXCEPT !.cmd = Stray, !.num = i, !.par = <<Stray>>, !.max = j, !.act = Stray] \in CommandLine
  /\ Stray \in STRING
<1>1. 0 \in Number /\ {Stray, "ioevt", "p"} \cup KeyName \subseteq Word
  BY PhoneAssumption, KeyAssumption
<1>2. {Stray, "ioevt", "p"} \subseteq STRING
  BY <1>1 DEF Word
<1>3. \A name \in KeyName \cup {Stray} : <<name>> \in Seq(Word)
  <2> HIDE DEF Word
  <2> QED
    BY <1>1
<1> HIDE DEF Word
<1>4. NoLine \in CommandLine
  BY <1>1, <1>2, <1>3 DEF NoLine, CommandLine
<1>5. \A line \in CommandLine : \A name \in KeyName \cup {Stray} : pressed(line, name) \in CommandLine
  BY <1>1, <1>2, <1>3 DEF pressed, CommandLine
<1>6. \A i, j \in Number : \A line \in CommandLine :
        [line EXCEPT !.cmd = Stray, !.num = i, !.par = <<Stray>>, !.max = j, !.act = Stray] \in CommandLine
  BY <1>1, <1>2, <1>3 DEF CommandLine
<1> QED
  BY <1>2, <1>4, <1>5, <1>6

LEMMA ExecutableTyped ==
  ASSUME NEW ls \in Seq(CommandLine)
  PROVE  executable(ls) \in Seq(CommandLine)
<1> DEFINE F == [k \in DOMAIN ls |-> IF ls[k].cmd = NoCommand THEN <<>> ELSE <<ls[k]>>]
           T == Seq(CommandLine)
<1> HIDE DEF CommandLine
<1>1. DOMAIN ls = 1 .. Len(ls) /\ Len(ls) \in Nat /\ \A k \in 1 .. Len(ls) : ls[k] \in CommandLine
  BY LenProperties, ElementOfSeq
<1>2. \A k \in 1 .. Len(ls) : F[k] \in T
  BY <1>1
<1>3. F \in [1 .. Len(ls) -> T]
  BY <1>1, <1>2
<1> HIDE DEF F, T
<1>4. F \in Seq(T)
  BY <1>1, <1>3, SeqDef
<1> QED
  BY <1>4, FlattenType DEF executable, F, T

LEMMA LinesKept ==
  ASSUME TypeInv, NEW t \in Thread, Issue(t) \/ Step(t)
  PROVE  /\ gCmdParam' \in CommandLine /\ config' \in [Thread -> Seq(CommandLine)]
         /\ given' \in [Thread -> Nat] /\ disturbed' \subseteq Thread
<1>0. /\ gCmdParam \in CommandLine /\ config \in [Thread -> Seq(CommandLine)]
      /\ given \in [Thread -> Nat] /\ disturbed \subseteq Thread
  BY DEF TypeInv
<1>1. CASE Issue(t)
  <2>1. PICK line : /\ config[t] = <<>> => line \in Line[t]
                    /\ config[t] # <<>> => line = Head(config[t])
                    /\ parse(t, line)
    BY <1>1 DEF Issue
  <2>2. line \in CommandLine
    <3>1. CASE config[t] = <<>>
      BY <2>1, <3>1, PhoneAssumption
    <3>2. CASE config[t] # <<>>
      <4> HIDE DEF CommandLine
      <4> QED
        BY <1>0, <2>1, <3>2, HeadTailProperties
    <3> QED
      BY <3>1, <3>2
  <2>3. config' \in [Thread -> Seq(CommandLine)]
    <3> HIDE DEF CommandLine
    <3>1. config' = config \/ (config[t] # <<>> /\ config' = [config EXCEPT ![t] = Tail(config[t])])
      BY <1>1 DEF Issue
    <3>2. config[t] # <<>> => Tail(config[t]) \in Seq(CommandLine)
      BY <1>0, HeadTailProperties
    <3> QED
      BY <1>0, <3>1, <3>2
  <2>4. given' \in [Thread -> Nat]
    <3>1. given' = given \/ given' = [given EXCEPT ![t] = given[t] + 1]
      BY <1>1 DEF Issue
    <3> QED
      BY <1>0, <3>1
  <2>5. gCmdParam' = line
    BY <2>1 DEF parse
  <2> QED
    BY <1>0, <1>1, <2>2, <2>3, <2>4, <2>5 DEF Issue, othersAtWork
<1>2. CASE TakeKeys(t)
  <2>1. gCmdParam' \in CommandLine
    <3>1. PICK i, j \in Number :
            gCmdParam' = [gCmdParam EXCEPT !.cmd = Stray, !.num = i, !.par = <<Stray>>, !.max = j, !.act = Stray]
      BY <1>2 DEF TakeKeys
    <3> HIDE DEF CommandLine
    <3> QED
      BY <1>0, <3>1, LinesTyped
  <2> QED
    BY <1>0, <1>2, <2>1 DEF TakeKeys, othersAtWork
<1>3. CASE Compose(t)
  <2>1. keyName(loc[t].value) \in KeyName \cup {Stray}
    BY DEF keyName, KeyName
  <2>2. gCmdParam' = pressed(gCmdParam, keyName(loc[t].value))
    BY <1>3 DEF Compose, parse, pressed
  <2> QED
    BY <1>0, <1>3, <2>1, <2>2, LinesTyped DEF Compose, othersAtWork
<1>4. CASE OpenConfig(t)
  <2> DEFINE ls == IF gCmdParam.num \in DOMAIN File THEN File[gCmdParam.num] ELSE <<>>
  <2> HIDE DEF CommandLine
  <2>1. ls \in Seq(CommandLine)
    BY PhoneAssumption
  <2>2. executable(ls) \o config[t] \in Seq(CommandLine)
    <3> HIDE DEF ls
    <3>1. executable(ls) \in Seq(CommandLine) /\ config[t] \in Seq(CommandLine)
      BY <1>0, <2>1, ExecutableTyped
    <3> QED
      BY <3>1, ConcatProperties
  <2>3. config' = [config EXCEPT ![t] = executable(ls) \o config[t]] /\ UNCHANGED <<gCmdParam, given, disturbed>>
    BY <1>4 DEF OpenConfig
  <2> QED
    BY <1>0, <2>2, <2>3
<1>5. CASE ~ (Issue(t) \/ TakeKeys(t) \/ Compose(t) \/ OpenConfig(t))
  <2>1. UNCHANGED <<gCmdParam, config, given, disturbed>>
    BY <1>5 DEF Step, Dispatch, CheckArgs, CheckRange, TakeCode, TakeClient, TakePar, TakeAction,
                TakeKeyCodes, Send, DrawKey, TakeMin, TakeMax, Sleep
  <2> QED
    BY <1>0, <2>1
<1> QED
  BY <1>1, <1>2, <1>3, <1>4, <1>5

LEMMA TypeKept ==
  ASSUME TypeInv, NEW t \in Thread, Issue(t) \/ Step(t)
  PROVE  TypeInv'
<1>1. OthersWait(t) /\ Kind(t)
  BY StepKind
<1>2. /\ gCmdParam' \in CommandLine /\ config' \in [Thread -> Seq(CommandLine)]
      /\ given' \in [Thread -> Nat] /\ disturbed' \subseteq Thread
  BY LinesKept
<1>3. \A u \in Thread \ {t} :
        /\ Typed(loc'[u])
        /\ atWork(u)' => /\ loc'[u].cmd \in DOMAIN func
                         /\ \E k \in 1 .. Len(func[loc'[u].cmd]) : todo'[u] = Ahead(loc'[u].cmd, k)
  BY <1>1, Waits DEF OthersWait, TypeInv
<1>4. /\ Typed(loc[t]) /\ gCmdParam.num \in Number /\ gCmdParam.max \in Number /\ 0 \in Number
      /\ \A n \in Number : n \in Int
  BY PhoneAssumption DEF TypeInv, CommandLine
<1>5. Typed(loc'[t]) /\ (atWork(t)' => /\ loc'[t].cmd \in DOMAIN func
                                       /\ \E k \in 1 .. Len(func[loc'[t].cmd]) : todo'[t] = Ahead(loc'[t].cmd, k))
  <2>1. CASE Halts(t)
    <3>1. Typed(NoLocals)
      <4>1. /\ NoLocals.line = NoLine /\ NoLocals.cmd = Stray /\ NoLocals.client = -1
            /\ NoLocals.min = 0 /\ NoLocals.max = 0 /\ NoLocals.value = 0
        BY DEF NoLocals, FAILED
      <4>2. NoLocals.line \in CommandLine /\ NoLocals.cmd \in DOMAIN func \cup {Stray}
        BY <4>1, LinesTyped
      <4>3. NoLocals.client \in -128 .. 127 /\ NoLocals.value \in Int
        BY <4>1
      <4>4. NoLocals.min \in Number /\ NoLocals.max \in Number
        BY <1>4, <4>1
      <4> QED
        BY <4>2, <4>3, <4>4 DEF Typed
    <3> QED
      BY <2>1, <3>1, Stops DEF Halts
  <2>2. CASE Parses(t)
    <3>1. Typed(loc'[t])
      BY <1>2, <1>4, <2>2, FieldFacts DEF Parses, Typed
    <3> QED
      <4>1. Typed(loc'[t])
        BY <3>1
      <4>2. ~ atWork(t)'
        BY <2>2, Stops DEF Parses
      <4> QED
        BY <4>1, <4>2
  <2>3. ASSUME NEW c \in getCmdCode(gCmdParam.cmd), StartsAs(t, c)
        PROVE  Typed(loc'[t]) /\ loc'[t].cmd \in DOMAIN func
               /\ \E k \in 1 .. Len(func[loc'[t].cmd]) : todo'[t] = Ahead(loc'[t].cmd, k)
    <3>1. c \in DOMAIN func
      BY DEF getCmdCode, nickName, func
    <3>2. Typed(loc'[t]) /\ loc'[t].cmd = c
      BY <1>4, <2>3, <3>1, FieldFacts DEF StartsAs, Typed
    <3> QED
      <4>1. Typed(loc'[t]) /\ loc'[t].cmd \in DOMAIN func
        BY <3>1, <3>2
      <4>2. todo'[t] = func[c]
        BY <2>3 DEF StartsAs
      <4> QED
        BY <3>1, <3>2, <4>1, <4>2, Begins
  <2>4. ASSUME NEW s \in Use \ LastUse, GoesOn(t, s)
        PROVE  Typed(loc'[t]) /\ loc'[t].cmd \in DOMAIN func
               /\ \E k \in 1 .. Len(func[loc'[t].cmd]) : todo'[t] = Ahead(loc'[t].cmd, k)
    <3>1. /\ at(t, s) /\ proceed(t) /\ DOMAIN loc'[t] = DOMAIN NoLocals
          /\ loc'[t].cmd = loc[t].cmd /\ loc'[t].line = loc[t].line
      BY <2>4 DEF GoesOn, Effect
    <3>2. loc'[t].client \in -128 .. 127
      BY <1>4, <2>4, NumberOfByte DEF GoesOn, Effect, Typed
    <3>3. loc'[t].min \in Number /\ loc'[t].max \in Number
      BY <1>4, <2>4 DEF GoesOn, Effect, Typed
    <3>4. loc'[t].value \in Int
      <4>1. CASE s = "draw"
        BY <2>4, <4>1, RandomRange DEF GoesOn, Effect, MIN_KEY_NUM, MAX_KEY_NUM
      <4>2. CASE s = "max"
        BY <1>4, <2>4, <4>2, RandomRange DEF GoesOn, Effect, Typed
      <4>3. CASE s \notin {"draw", "max"}
        BY <1>4, <2>4, <4>3 DEF GoesOn, Effect, Typed
      <4> QED
        BY <4>1, <4>2, <4>3
    <3>5. Typed(loc'[t])
      BY <1>4, <3>1, <3>2, <3>3, <3>4 DEF Typed
    <3> QED
      BY <3>1, <3>5, Proceeds, Here
  <2> QED
    BY <1>1, <2>1, <2>2, <2>3, <2>4 DEF Kind
<1> QED
  BY <1>1, <1>2, <1>3, <1>5 DEF TypeInv, OthersWait, atWork, Ahead

LEMMA InitTypes == Init => TypeInv
<1> SUFFICES ASSUME Init PROVE TypeInv
  OBVIOUS
<1>1. \A t \in Thread : todo[t] = <<>> /\ loc[t] = NoLocals
  BY DEF Init
<1>2. Typed(NoLocals)
  <2>1. /\ NoLocals.line = NoLine /\ NoLocals.cmd = Stray /\ NoLocals.client = -1
        /\ NoLocals.min = 0 /\ NoLocals.max = 0 /\ NoLocals.value = 0
    BY DEF NoLocals, FAILED
  <2>2. 0 \in Number
    BY PhoneAssumption
  <2>3. NoLocals.line \in CommandLine /\ NoLocals.cmd \in DOMAIN func \cup {Stray}
    BY <2>1, LinesTyped
  <2>4. NoLocals.client \in -128 .. 127 /\ NoLocals.value \in Int
    BY <2>1
  <2>5. NoLocals.min \in Number /\ NoLocals.max \in Number
    BY <2>1, <2>2
  <2> QED
    BY <2>3, <2>4, <2>5 DEF Typed
<1>3. <<>> \in Seq(CommandLine)
  BY EmptySeq
<1>4. \A t \in Thread : Typed(loc[t]) /\ ~ atWork(t)
  BY <1>1, <1>2 DEF atWork
<1> QED
  BY <1>3, <1>4, LinesTyped DEF Init, TypeInv

LEMMA TypesKept == TypeInv /\ [Next]_vars => TypeInv'
<1>1. TypeInv /\ UNCHANGED vars => TypeInv'
  BY DEF TypeInv, vars, atWork
<1> QED
  BY <1>1, TypeKept DEF Next

LEMMA TypesHold == TypeInv => TypeOK
<1> SUFFICES ASSUME TypeInv PROVE TypeOK
  OBVIOUS
<1>1. ASSUME NEW t \in Thread, NEW s \in Range(todo[t])
      PROVE  s \in {"dispatch"} \cup UNION {Range(func[c]) : c \in DOMAIN func}
  <2>1. CASE todo[t] = <<>>
    BY <1>1, <2>1 DEF Range
  <2>2. CASE todo[t] = <<"dispatch">>
    BY <1>1, <2>2 DEF Range
  <2>3. CASE atWork(t)
    <3> DEFINE c == loc[t].cmd
    <3>1. c \in DOMAIN func
      BY <2>3, Position
    <3>2. PICK k \in 1 .. Len(func[c]) : todo[t] = Ahead(c, k)
      BY <2>3, Position
    <3> HIDE DEF c
    <3>3. func[c] \in Seq(Use) /\ Len(func[c]) \in Nat /\ DOMAIN func[c] = 1 .. Len(func[c])
      BY <3>1, HandlerOrder, LenProperties
    <3>4. \A i \in k .. Len(func[c]) : func[c][i] \in Range(func[c])
      BY <3>3 DEF Range
    <3>5. todo[t] \in Seq(Range(func[c]))
      BY <3>2, <3>3, <3>4, SubSeqProperties DEF Ahead
    <3>6. s \in Range(func[c])
      BY <1>1, <3>5, LenProperties, ElementOfSeq DEF Range
    <3> QED
      BY <3>1, <3>6
  <2> QED
    BY <2>1, <2>2, <2>3 DEF atWork
<1>2. ASSUME NEW t \in Thread
      PROVE  /\ loc[t].client \in -128 .. 127 /\ loc[t].cmd \in DOMAIN func \cup {Stray}
             /\ loc[t].value \in Int /\ config[t] \in Seq(CommandLine)
  BY DEF TypeInv, Typed
<1> QED
  BY <1>1, <1>2 DEF TypeOK, TypeInv

(* Every variable keeps its type, whatever number a line carries and       *)
(* whichever lines are parsed over each other (at_cmdProc.c).              *)
THEOREM PhoneTypesHold == Spec => []TypeOK
BY InitTypes, TypesKept, TypesHold, PTL DEF Spec

LEMMA KeysInType == TypeInv => KeysFit
<1>1. TypeInv => gCmdParam.par \in Seq(Word)
  <2> HIDE DEF Word
  <2> QED
    BY DEF TypeInv, CommandLine
<1> QED
  BY <1>1, TokensLeft DEF KeysFit

(* getTokens never writes behind ioevt_param, whatever the length of the   *)
(* list and of the keys in it, and whichever line is there by then.        *)
THEOREM KeysAlwaysFit == Spec => []KeysFit
BY InitTypes, TypesKept, KeysInType, PTL DEF Spec

-----------------------------------------------------------------------------
(* clientNum is one signed byte.                                           *)
ClientsFitByte == MAX_CLIENT <= 127

LEMMA ByteKeeps ==
  ASSUME NEW n \in 0 .. 127
  PROVE  c8(n) = n
<1>1. (n + 128) % 256 = n + 128
  OBVIOUS
<1> QED
  BY <1>1 DEF c8

LEMMA ClientTaken ==
  ASSUME ClientsFitByte, NEW cmd, clientOk(cmd)
  PROVE  Bounded(cmd, c8(gCmdParam.num))
<1>1. MAX_CLIENT \in Nat
  BY PhoneAssumption
<1>2. CASE cmd = "call"
  <2>1. gCmdParam.num \in MIN_CLIENT .. MAX_CLIENT - 1
    BY <1>2 DEF clientOk
  <2>2. gCmdParam.num \in 0 .. 127
    BY <1>1, <2>1 DEF ClientsFitByte, MIN_CLIENT
  <2> QED
    BY <1>2, <2>1, <2>2, ByteKeeps DEF Bounded
<1>3. CASE cmd = "ioevt"
  <2>1. gCmdParam.num \in MIN_CLIENT .. MAX_CLIENT
    BY <1>3 DEF clientOk
  <2>2. gCmdParam.num \in 0 .. 127
    BY <1>1, <2>1 DEF ClientsFitByte, MIN_CLIENT
  <2> QED
    BY <1>3, <2>1, <2>2, ByteKeeps DEF Bounded
<1> QED
  BY <1>2, <1>3 DEF Bounded

LEMMA InitNothingBehind == Init => \A t \in Thread : behind(t) = {}
BY DEF Init, behind, atWork

(* An invariant about what lies behind a thread and its locals: only the   *)
(* step a thread takes needs to be looked at, and only if it goes on.      *)
LEMMA ClientsKept ==
  ASSUME ClientsFitByte, TypeInv, ClientInv, NEW t \in Thread, Issue(t) \/ Step(t)
  PROVE  ClientInv'
<1>1. OthersWait(t) /\ Kind(t)
  BY StepKind
<1>2. \A u \in Thread \ {t} : "client" \in behind(u)' => Bounded(loc'[u].cmd, loc'[u].client)
  BY <1>1, Waits DEF OthersWait, ClientInv
<1>3. "client" \in behind(t)' => Bounded(loc'[t].cmd, loc'[t].client)
  <2>1. CASE Halts(t) \/ Parses(t)
    BY <2>1, Stops DEF Halts, Parses
  <2>2. ASSUME NEW c \in getCmdCode(gCmdParam.cmd), StartsAs(t, c)
        PROVE  behind(t)' = {}
    <3>1. c \in DOMAIN func
      BY DEF getCmdCode, nickName, func
    <3>2. loc'[t].cmd = c /\ todo'[t] = func[c]
      BY <2>2, FieldFacts DEF StartsAs, TypeInv, Typed
    <3> QED
      BY <3>1, <3>2, Begins
  <2>3. ASSUME NEW s \in Use \ LastUse, GoesOn(t, s), "client" \in behind(t)'
        PROVE  Bounded(loc'[t].cmd, loc'[t].client)
    <3>1. behind(t)' = behind(t) \cup {s} /\ loc'[t].cmd = loc[t].cmd
      BY <2>3, Proceeds DEF GoesOn, Effect
    <3>2. CASE s = "client"
      BY <2>3, <3>1, <3>2, ClientTaken DEF GoesOn, Effect
    <3>3. CASE s # "client"
      BY <2>3, <3>1, <3>3 DEF GoesOn, Effect, ClientInv
    <3> QED
      BY <3>2, <3>3
  <2> QED
    BY <1>1, <2>1, <2>2, <2>3 DEF Kind
<1> QED
  BY <1>2, <1>3 DEF ClientInv, behind, Bounded

LEMMA ValuesKept ==
  ASSUME TypeInv, ValueInv, NEW t \in Thread, Issue(t) \/ Step(t)
  PROVE  ValueInv'
<1> DEFINE V(D, l) == /\ "draw" \in D => l.value \in MIN_KEY_NUM .. MAX_KEY_NUM
                      /\ "max" \in D => l.value \in {FAILED} \cup l.min .. l.min + l.max
<1>1. OthersWait(t) /\ Kind(t)
  BY StepKind
<1>2. \A u \in Thread \ {t} : V(behind(u)', loc'[u])
  BY <1>1, Waits DEF OthersWait, ValueInv
<1>3. V(behind(t)', loc'[t])
  <2>1. CASE Halts(t) \/ Parses(t)
    BY <2>1, Stops DEF Halts, Parses
  <2>2. ASSUME NEW c \in getCmdCode(gCmdParam.cmd), StartsAs(t, c)
        PROVE  behind(t)' = {}
    <3>1. c \in DOMAIN func
      BY DEF getCmdCode, nickName, func
    <3>2. loc'[t].cmd = c /\ todo'[t] = func[c]
      BY <2>2, FieldFacts DEF StartsAs, TypeInv, Typed
    <3> QED
      BY <3>1, <3>2, Begins
  <2>3. ASSUME NEW s \in Use \ LastUse, GoesOn(t, s)
        PROVE  V(behind(t)', loc'[t])
    <3>1. behind(t)' = behind(t) \cup {s}
      BY <2>3, Proceeds DEF GoesOn, Effect
    <3>2. "draw" \notin behind(t) /\ "max" \notin behind(t)
      BY <2>3, Here DEF GoesOn, InOrder, LastUse
    <3>3. CASE s = "draw"
      <4>1. loc'[t].value \in MIN_KEY_NUM .. MAX_KEY_NUM
        BY <2>3, <3>3, RandomRange DEF GoesOn, Effect
      <4> QED
        BY <3>1, <3>2, <3>3, <4>1
    <3>4. CASE s = "max"
      <4>1. /\ loc'[t].min = loc[t].min /\ loc'[t].max = gCmdParam.max
            /\ loc'[t].value \in getRandValue[<<loc[t].min, gCmdParam.max>>]
        BY <2>3, <3>4 DEF GoesOn, Effect
      <4>2. loc[t].min \in Number /\ gCmdParam.max \in Number
        BY DEF TypeInv, Typed, CommandLine
      <4>3. loc'[t].value \in {FAILED} \cup loc'[t].min .. loc'[t].min + loc'[t].max
        BY <4>1, <4>2, RandomRange
      <4> QED
        BY <3>1, <3>2, <3>4, <4>3
    <3> QED
      BY <3>1, <3>2, <3>3, <3>4
  <2> QED
    BY <1>1, <2>1, <2>2, <2>3 DEF Kind
<1> QED
  BY <1>2, <1>3 DEF ValueInv, behind

LEMMA ValuesInReach == TypeInv /\ ValueInv => RandomStaysInReach
<1> SUFFICES ASSUME TypeInv, ValueInv, NEW t \in Thread
             PROVE  /\ at(t, "compose") => loc[t].value \in MIN_KEY_NUM .. MAX_KEY_NUM
                    /\ at(t, "sleep") /\ loc[t].cmd = "randomTime" =>
                         loc[t].value \in {FAILED} \cup loc[t].min .. loc[t].min + loc[t].max
  BY DEF RandomStaysInReach
<1>1. at(t, "compose") => "draw" \in behind(t)
  BY Here DEF InOrder, Use, LastUse
<1>2. at(t, "sleep") /\ loc[t].cmd = "randomTime" => "max" \in behind(t)
  BY Here DEF InOrder, Use, LastUse
<1> QED
  BY <1>1, <1>2 DEF ValueInv

LEMMA ClientsBounded == TypeInv /\ ClientInv => ClientBound
<1> SUFFICES ASSUME TypeInv, ClientInv, NEW t \in Thread, at(t, "send")
             PROVE  Bounded(loc[t].cmd, loc[t].client)
  BY DEF ClientBound, Bounded
<1>1. "client" \in behind(t)
  BY Here DEF InOrder, Use, LastUse
<1> QED
  BY <1>1 DEF ClientInv
-----------------------------------------------------------------------------
(* The command a word means is the only one.                               *)
commandOf(text) ==
  CASE text \in {"ioevt", "ie"} -> "ioevt"
    [] text = "call" -> "call"
    [] text \in {"syslog", "sl"} -> "syslog"
    [] text \in {"hideFeature", "hf"} -> "hideFeature"
    [] text \in {"randomKey", "rk"} -> "randomKey"
    [] text \in {"randomTime", "rt"} -> "randomTime"
    [] text \in {"autoConfig", "ac"} -> "autoConfig"
    [] text \in {"delay", "dy"} -> "delay"

LEMMA CommandFacts ==
  ASSUME NEW text
  PROVE  /\ \A c \in getCmdCode(text) : /\ c \in DOMAIN func /\ c = commandOf(text)
                                        /\ text # nickName[c] => text = c
                                        /\ meaning(text) = c
         /\ getCmdCode(text) = {} => meaning(text) = text
         /\ text \in DOMAIN func => text \in getCmdCode(text)
         /\ "randomKey" \notin getCmdCode("ioevt")
<1>1. ASSUME NEW c \in getCmdCode(text) PROVE c \in DOMAIN func /\ (text = c \/ text = nickName[c])
  BY DEF getCmdCode, nickName, func
<1>2. ASSUME NEW c \in getCmdCode(text) PROVE c = commandOf(text)
  <2>1. c \in {"ioevt", "call", "syslog", "hideFeature", "randomKey", "randomTime", "delay", "autoConfig"}
    BY <1>1 DEF func
  <2>2. /\ nickName["ioevt"] = "ie" /\ nickName["call"] = "call" /\ nickName["syslog"] = "sl"
        /\ nickName["hideFeature"] = "hf" /\ nickName["randomKey"] = "rk"
        /\ nickName["randomTime"] = "rt" /\ nickName["autoConfig"] = "ac" /\ nickName["delay"] = "dy"
    BY DEF nickName
  <2>3. CASE c \in {"ioevt", "call"}
    BY <1>1, <2>2, <2>3 DEF commandOf
  <2>4. CASE c \in {"syslog", "hideFeature"}
    BY <1>1, <2>2, <2>4 DEF commandOf
  <2>5. CASE c \in {"randomKey", "randomTime"}
    BY <1>1, <2>2, <2>5 DEF commandOf
  <2>6. CASE c \in {"autoConfig", "delay"}
    BY <1>1, <2>2, <2>6 DEF commandOf
  <2> QED
    BY <2>1, <2>3, <2>4, <2>5, <2>6
<1>3. ASSUME NEW c \in getCmdCode(text) PROVE meaning(text) = c
  BY <1>2 DEF meaning
<1>4. getCmdCode(text) = {} => meaning(text) = text
  BY DEF meaning
<1>5. text \in DOMAIN func => text \in getCmdCode(text)
  BY DEF getCmdCode, func, nickName
<1>6. "randomKey" \notin getCmdCode("ioevt")
  BY DEF getCmdCode, nickName
<1> QED
  BY <1>1, <1>2, <1>3, <1>4, <1>5, <1>6

-----------------------------------------------------------------------------
(* Which steps disturb, and which leave the line as it is.                 *)
LEMMA LeftAlone ==
  ASSUME TypeInv, NEW t \in Thread, Issue(t) \/ Step(t)
  PROVE  /\ \A u \in Thread \ {t} : u \notin disturbed' /\ todo[u] # <<>> =>
              u \notin disturbed /\ gCmdParam' = gCmdParam
         /\ Step(t) /\ t \notin disturbed' => t \notin disturbed
         /\ Step(t) /\ ~ at(t, "keys") /\ ~ at(t, "compose") => gCmdParam' = gCmdParam
<1>1. CASE Issue(t)
  <2>1. disturbed' = (disturbed \ {t}) \cup othersAtWork(t) /\ todo[t] = <<>>
    BY <1>1 DEF Issue
  <2>2. ~ Step(t)
    BY <2>1 DEF Step, at, Dispatch, CheckArgs, CheckRange, TakeCode, TakeClient, TakePar, TakeAction,
                TakeKeys, TakeKeyCodes, Send, DrawKey, Compose, TakeMin, TakeMax, Sleep, OpenConfig
  <2> QED
    BY <2>1, <2>2 DEF othersAtWork
<1>2. CASE TakeKeys(t) \/ Compose(t)
  <2>1. disturbed' = disturbed \cup othersAtWork(t) /\ (at(t, "keys") \/ at(t, "compose"))
    BY <1>2 DEF TakeKeys, Compose
  <2> QED
    BY <2>1 DEF othersAtWork
<1>3. CASE ~ (Issue(t) \/ TakeKeys(t) \/ Compose(t))
  <2>1. UNCHANGED <<gCmdParam, disturbed>>
    BY <1>3 DEF Step, Dispatch, CheckArgs, CheckRange, TakeCode, TakeClient, TakePar, TakeAction,
                TakeKeyCodes, Send, DrawKey, TakeMin, TakeMax, Sleep, OpenConfig
  <2> QED
    BY <2>1
<1> QED
  BY <1>1, <1>2, <1>3

LEMMA FollowsWaits ==
  ASSUME NEW u, NEW cur, Follows(u, cur), todo'[u] = todo[u], loc'[u] = loc[u], gCmdParam' = gCmdParam
  PROVE  Follows(u, cur)'
<1>1. atWork(u)' = atWork(u) /\ behind(u)' = behind(u)
  BY Waits
<1> QED
  BY <1>1 DEF Follows

(* A thread that has had a line parsed has not yet taken anything from it. *)
LEMMA FollowsParsed ==
  ASSUME NEW t, NEW cur, todo'[t] = <<"dispatch">>, gCmdParam' = cur
  PROVE  Follows(t, cur)'
<1>1. ~ atWork(t)' /\ behind(t)' = {}
  BY Stops
<1> QED
  BY <1>1 DEF Follows

LEMMA NothingBehind ==
  ASSUME NEW t, todo[t] = <<>> \/ at(t, "dispatch"), TypeInv, t \in Thread
  PROVE  ~ atWork(t) /\ behind(t) = {}
<1>1. ~ atWork(t)
  <2>1. ASSUME atWork(t) PROVE FALSE
    <3>1. at(t, "dispatch")
      BY <2>1 DEF atWork
    <3>2. PICK k \in 1 .. Len(func[loc[t].cmd]) : Head(todo[t]) = func[loc[t].cmd][k]
      BY <2>1, Position
    <3>3. loc[t].cmd \in DOMAIN func
      BY <2>1, Position
    <3>4. func[loc[t].cmd][k] \in Use
      BY <3>3, HandlerOrder, ElementOfSeq
    <3> QED
      BY <3>1, <3>2, <3>4 DEF at, Use, LastUse
  <2> QED
    BY <2>1
<1> QED
  BY <1>1 DEF behind

LEMMA FollowsBegun ==
  ASSUME TypeInv, NEW t \in Thread, NEW cur, Follows(t, cur), gCmdParam' = gCmdParam,
         NEW c \in getCmdCode(gCmdParam.cmd), StartsAs(t, c)
  PROVE  Follows(t, cur)'
<1>1. ~ atWork(t) /\ behind(t) = {}
  BY NothingBehind DEF StartsAs
<1>2. gCmdParam = cur
  BY <1>1 DEF Follows
<1>3. loc'[t].cmd = c /\ todo'[t] = func[c] /\ c \in DOMAIN func
  BY FieldFacts, CommandFacts DEF StartsAs, TypeInv, Typed
<1>4. atWork(t)' /\ behind(t)' = {}
  BY <1>3, Begins
<1> QED
  BY <1>2, <1>3, <1>4 DEF Follows

(* Keys looked up one by one are the codes of a list of known keys.        *)
LEMMA KeysLookedUp ==
  ASSUME NEW toks, \A i \in DOMAIN toks : getKeyCode(toks[i]) # FAILED
  PROVE  /\ \A i \in DOMAIN toks : known(toks[i])
         /\ [i \in DOMAIN toks |-> gKeyLib[getKeyCode(toks[i])].code] = [i \in DOMAIN toks |-> codeOf(toks[i])]
BY KeyFound

LEMMA FollowsOn ==
  ASSUME TypeInv, NEW t \in Thread, t \notin disturbed, NEW cur, Follows(t, cur),
         NEW s \in Use \ LastUse, GoesOn(t, s), s # "keys" => gCmdParam' = gCmdParam
  PROVE  Follows(t, cur)'
<1> DEFINE c == loc[t].cmd
           D == behind(t)
<1>1. /\ atWork(t) /\ c \in DOMAIN func /\ InOrder(c, s, D) /\ at(t, s)
      /\ loc'[t].cmd = c /\ D' = D \cup {s} /\ atWork(t)'
  BY Here, Proceeds DEF GoesOn, Effect
<1>2. s \notin {"send", "compose", "sleep", "open"}
  BY DEF LastUse
<1>3. s # "keyCodes" => gCmdParam = cur /\ "keys" \notin D
  BY <1>1, <1>2 DEF Follows, InOrder
<1>4. Effect(t, s)
  BY DEF GoesOn
<1> HIDE DEF D, c
<1>5. "keys" \notin D' => gCmdParam' = cur
  BY <1>1, <1>3 DEF Follows, InOrder
<1>6. c \in getCmdCode(cur.cmd)
  BY <1>1 DEF Follows, c
<1>7. "args" \in D' => argsOk(c, cur)
  BY <1>1, <1>3, <1>4 DEF Follows, Effect, c, D
<1>8. "range" \in D' => cur.num \in MIN_CLIENT .. MAX_CLIENT - 1
  BY <1>1, <1>3, <1>4 DEF Follows, Effect, D
<1>9. "code" \in D' => loc'[t].code = c
  <2>1. CASE s = "code"
    <3>1. cur.cmd # nickName[c] => cur.cmd = c
      BY <1>6, CommandFacts
    <3> QED
      BY <1>3, <1>4, <2>1, <3>1 DEF Effect, c
  <2>2. CASE s # "code"
    BY <1>1, <1>4, <2>2 DEF Follows, Effect, c, D
  <2> QED
    BY <2>1, <2>2
<1>10. "client" \in D' => /\ loc'[t].client = c8(cur.num)
                          /\ c = "call" => cur.num \in MIN_CLIENT .. MAX_CLIENT - 1
  <2>1. CASE s = "client"
    BY <1>3, <1>4, <2>1 DEF Effect, c, clientOk
  <2>2. CASE s # "client"
    BY <1>1, <1>4, <2>2 DEF Follows, Effect, c, D
  <2> QED
    BY <2>1, <2>2
<1>11. "par" \in D' => loc'[t].par = parOf(c, cur)
  <2>1. CASE s = "par"
    BY <1>3, <1>4, <2>1 DEF Effect, c
  <2>2. CASE s # "par"
    BY <1>1, <1>2, <2>2 DEF InOrder
  <2> QED
    BY <2>1, <2>2
<1>12. "action" \in D' => loc'[t].act = cur.act
  <2>1. CASE s = "action"
    BY <1>3, <1>4, <2>1 DEF Effect
  <2>2. CASE s # "action"
    BY <1>1, <1>4, <2>2 DEF Follows, Effect, D
  <2> QED
    BY <2>1, <2>2
<1>13. "keys" \in D' /\ "keyCodes" \notin D' => loc'[t].par = keyTokens(cur.par)
  <2>1. CASE s = "keys"
    BY <1>3, <1>4, <2>1 DEF Effect
  <2>2. CASE s # "keys"
    BY <1>1, <1>2, <2>2 DEF InOrder
  <2> QED
    BY <2>1, <2>2
<1>14. "keyCodes" \in D' =>
         /\ \A i \in DOMAIN keyTokens(cur.par) : known(keyTokens(cur.par)[i])
         /\ loc'[t].par = [i \in DOMAIN keyTokens(cur.par) |-> codeOf(keyTokens(cur.par)[i])]
  <2>1. CASE s = "keyCodes"
    <3>1. "keys" \in D /\ "keyCodes" \notin D
      BY <1>1, <2>1 DEF InOrder
    <3>2. loc[t].par = keyTokens(cur.par)
      BY <3>1 DEF Follows, D
    <3>3. /\ \A i \in DOMAIN loc[t].par : getKeyCode(loc[t].par[i]) # FAILED
          /\ loc'[t].par = [i \in DOMAIN loc[t].par |-> gKeyLib[getKeyCode(loc[t].par[i])].code]
      BY <1>4, <2>1 DEF Effect
    <3> QED
      BY <3>2, <3>3, KeysLookedUp
  <2>2. CASE s # "keyCodes"
    BY <1>1, <1>2, <2>2 DEF InOrder
  <2> QED
    BY <2>1, <2>2
<1> QED
  BY <1>1, <1>5, <1>6, <1>7, <1>8, <1>9, <1>10, <1>11, <1>12, <1>13, <1>14 DEF Follows, D

(* randomKey goes on with a line of its own, which its line has asked for. *)
LEMMA FollowsComposed ==
  ASSUME TypeInv, NEW t \in Thread, NEW cur \in lines(loc[t].line), Follows(t, cur), Compose(t)
  PROVE  gCmdParam' \in lines(loc[t].line)
<1>1. at(t, "compose") /\ "compose" \in Use
  BY DEF Compose, Use, LastUse
<1>2. InOrder(loc[t].cmd, "compose", behind(t)) /\ atWork(t)
  BY <1>1, Here
<1>3. loc[t].cmd = "randomKey" /\ "args" \in behind(t) /\ "keys" \notin behind(t)
  BY <1>2 DEF InOrder
<1>4. gCmdParam = cur /\ "randomKey" \in getCmdCode(cur.cmd) /\ argsOk("randomKey", cur)
  BY <1>2, <1>3 DEF Follows
<1>5. cur = loc[t].line
  <2>1. ASSUME NEW name, cur = pressed(loc[t].line, name) PROVE FALSE
    <3>1. cur.cmd = "ioevt"
      BY <2>1 DEF pressed
    <3> QED
      BY <1>4, <3>1, CommandFacts
  <2> QED
    BY <2>1 DEF lines
<1>6. keyName(loc[t].value) \in KeyName \cup {Stray}
  BY DEF keyName, KeyName
<1>7. gCmdParam' = pressed(cur, keyName(loc[t].value))
  BY <1>4 DEF Compose, parse, pressed
<1> QED
  BY <1>4, <1>5, <1>6, <1>7 DEF lines

LEMMA StepIsSomewhere ==
  ASSUME NEW t, Step(t)
  PROVE  todo[t] # <<>>
BY DEF Step, at, Dispatch, CheckArgs, CheckRange, TakeCode, TakeClient, TakePar, TakeAction, TakeKeys,
       TakeKeyCodes, Send, DrawKey, Compose, TakeMin, TakeMax, Sleep, OpenConfig

LEMMA LinesFollowed ==
  ASSUME TypeInv, LineInv, NEW t \in Thread, Issue(t) \/ Step(t)
  PROVE  LineInv'
<1>1. OthersWait(t) /\ Kind(t)
  BY StepKind
<1>2. ASSUME NEW u \in Thread \ {t}
      PROVE  /\ "action" \notin behind(u)' => loc'[u].act = Stray
             /\ u \notin disturbed' /\ todo'[u] # <<>> =>
                  \E cur \in lines(loc'[u].line) : Follows(u, cur)'
  <2>1. todo'[u] = todo[u] /\ loc'[u] = loc[u] /\ behind(u)' = behind(u)
    BY <1>1, Waits DEF OthersWait
  <2>2. "action" \notin behind(u)' => loc'[u].act = Stray
    BY <2>1 DEF LineInv
  <2>3. ASSUME u \notin disturbed', todo'[u] # <<>>
        PROVE  \E cur \in lines(loc'[u].line) : Follows(u, cur)'
    <3>1. u \notin disturbed /\ gCmdParam' = gCmdParam
      BY <2>1, <2>3, LeftAlone
    <3>2. PICK cur \in lines(loc[u].line) : Follows(u, cur)
      BY <2>1, <2>3, <3>1 DEF LineInv
    <3>3. Follows(u, cur)'
      BY <2>1, <3>1, <3>2, FollowsWaits
    <3> QED
      BY <2>1, <3>2, <3>3
  <2> QED
    BY <2>2, <2>3
<1>3. "action" \notin behind(t)' => loc'[t].act = Stray
  <2>1. CASE Issue(t)
    <3>1. behind(t) = {} /\ loc'[t].act = loc[t].act
      BY <2>1, NothingBehind, SetFacts, FieldFacts DEF Issue
    <3> QED
      BY <3>1 DEF LineInv
  <2>2. CASE Compose(t)
    <3>1. at(t, "compose") /\ "compose" \in Use /\ loc' = loc
      BY <2>2 DEF Compose, Use, LastUse
    <3>2. "action" \notin behind(t)
      BY <3>1, Here DEF InOrder
    <3> QED
      BY <3>1, <3>2 DEF LineInv
  <2>3. CASE Halts(t)
    BY <2>3 DEF Halts, NoLocals
  <2>4. ASSUME NEW c \in getCmdCode(gCmdParam.cmd), StartsAs(t, c) PROVE loc'[t].act = Stray
    <3>1. behind(t) = {}
      BY <2>4, NothingBehind DEF StartsAs
    <3>2. loc'[t].act = loc[t].act
      BY <2>4, FieldFacts DEF StartsAs, TypeInv, Typed
    <3> QED
      BY <3>1, <3>2 DEF LineInv
  <2>5. ASSUME NEW s \in Use \ LastUse, GoesOn(t, s), "action" \notin behind(t)'
        PROVE  loc'[t].act = Stray
    <3>1. behind(t)' = behind(t) \cup {s}
      BY <2>5, Proceeds DEF GoesOn, Effect
    <3>2. s # "action" /\ "action" \notin behind(t)
      BY <2>5, <3>1
    <3> QED
      BY <2>5, <3>2 DEF GoesOn, Effect, LineInv
  <2> QED
    BY <1>1, <2>1, <2>2, <2>3, <2>4, <2>5 DEF Kind, Parses
<1>4. ASSUME t \notin disturbed', todo'[t] # <<>>
      PROVE  \E cur \in lines(loc'[t].line) : Follows(t, cur)'
  <2>1. CASE Issue(t)
    <3>1. PICK line : parse(t, line) /\ set(t, "line", line)
      BY <2>1 DEF Issue
    <3>2. todo'[t] = <<"dispatch">> /\ gCmdParam' = line
      BY <3>1 DEF parse, TypeInv
    <3>3. loc'[t].line = line
      BY <3>1, SetFacts, FieldFacts
    <3>4. Follows(t, line)'
      BY <3>2, FollowsParsed
    <3> QED
      BY <3>3, <3>4 DEF lines
  <2>2. CASE Step(t)
    <3>1. t \notin disturbed /\ todo[t] # <<>>
      BY <1>4, <2>2, LeftAlone, StepIsSomewhere
    <3>2. PICK cur \in lines(loc[t].line) : Follows(t, cur)
      BY <3>1 DEF LineInv
    <3>3. CASE Compose(t)
      <4>1. todo'[t] = <<"dispatch">> /\ loc' = loc
        BY <3>3 DEF Compose, parse, TypeInv
      <4>2. PICK line \in lines(loc[t].line) : gCmdParam' = line
        BY <3>2, <3>3, FollowsComposed
      <4>3. Follows(t, line)'
        BY <4>1, <4>2, FollowsParsed
      <4> QED
        BY <4>1, <4>2, <4>3
    <3>4. ASSUME NEW c \in getCmdCode(gCmdParam.cmd), StartsAs(t, c)
          PROVE  \E d \in lines(loc'[t].line) : Follows(t, d)'
      <4>1. ~ at(t, "keys") /\ ~ at(t, "compose")
        BY <3>4 DEF StartsAs, at
      <4>2. gCmdParam' = gCmdParam /\ loc'[t].line = loc[t].line
        BY <2>2, <3>4, <4>1, LeftAlone, FieldFacts DEF StartsAs, TypeInv, Typed
      <4>3. Follows(t, cur)'
        BY <3>2, <3>4, <4>2, FollowsBegun
      <4> QED
        BY <3>2, <4>2, <4>3
    <3>5. ASSUME NEW s \in Use \ LastUse, GoesOn(t, s)
          PROVE  \E d \in lines(loc'[t].line) : Follows(t, d)'
      <4>1. loc'[t].line = loc[t].line
        BY <3>5 DEF GoesOn, Effect
      <4>2. s # "keys" => ~ at(t, "keys") /\ ~ at(t, "compose")
        BY <3>5 DEF GoesOn, at, LastUse
      <4>3. Follows(t, cur)'
        BY <2>2, <3>1, <3>2, <3>5, <4>2, LeftAlone, FollowsOn
      <4> QED
        BY <3>2, <4>1, <4>3
    <3>6. ~ Issue(t)
      BY <3>1 DEF Issue
    <3> QED
      BY <1>1, <1>4, <3>3, <3>4, <3>5, <3>6 DEF Kind, Halts, Parses
  <2> QED
    BY <2>1, <2>2
<1> QED
  BY <1>2, <1>3, <1>4 DEF LineInv
-----------------------------------------------------------------------------
(* What an undisturbed thread has when it sends.                           *)
LEMMA AtSend ==
  ASSUME ClientsFitByte, TypeInv, LineInv, NEW t \in Thread, undisturbed(t, "send")
  PROVE  LET c == loc[t].cmd
         IN  \E cur \in lines(loc[t].line) :
               /\ c \in getCmdCode(cur.cmd) /\ argsOk(c, cur)
               /\ loc[t].code = c /\ loc[t].client = cur.num
               /\ \/ /\ c = "ioevt" /\ loc[t].act = cur.act
                     /\ \A i \in DOMAIN keyTokens(cur.par) : known(keyTokens(cur.par)[i])
                     /\ loc[t].par = [i \in DOMAIN keyTokens(cur.par) |-> codeOf(keyTokens(cur.par)[i])]
                  \/ /\ c \in {"call", "syslog", "hideFeature"} /\ loc[t].act = Stray
                     /\ loc[t].par = parOf(c, cur)
<1> DEFINE c == loc[t].cmd
           D == behind(t)
<1>1. at(t, "send") /\ t \notin disturbed /\ "send" \in Use
  BY DEF undisturbed, Use, LastUse
<1>2. todo[t] # <<>> /\ atWork(t) /\ InOrder(c, "send", D)
  BY <1>1, Here
<1>3. PICK cur \in lines(loc[t].line) : Follows(t, cur)
  BY <1>1, <1>2 DEF LineInv
<1> HIDE DEF c, D
<1>4. /\ {"args", "code", "client"} \subseteq D /\ (c # "call" => "range" \in D)
      /\ \/ c = "ioevt" /\ {"action", "keys", "keyCodes"} \subseteq D
         \/ c \in {"call", "syslog", "hideFeature"} /\ "par" \in D
      /\ "action" \in D => c = "ioevt"
  BY <1>2 DEF InOrder
<1>5. c \in getCmdCode(cur.cmd) /\ argsOk(c, cur) /\ loc[t].code = c
  BY <1>2, <1>3, <1>4 DEF Follows, c, D
<1>6. loc[t].client = c8(cur.num) /\ cur.num \in MIN_CLIENT .. MAX_CLIENT - 1
  BY <1>3, <1>4 DEF Follows, c, D
<1>7. c8(cur.num) = cur.num
  <2>1. MAX_CLIENT \in Nat /\ MAX_CLIENT <= 127
    BY PhoneAssumption DEF ClientsFitByte
  <2>2. cur.num \in 0 .. 127
    BY <1>6, <2>1 DEF MIN_CLIENT
  <2> QED
    BY <2>2, ByteKeeps
<1>8. CASE c = "ioevt" /\ {"action", "keys", "keyCodes"} \subseteq D
  <2>1. /\ loc[t].act = cur.act
        /\ \A i \in DOMAIN keyTokens(cur.par) : known(keyTokens(cur.par)[i])
        /\ loc[t].par = [i \in DOMAIN keyTokens(cur.par) |-> codeOf(keyTokens(cur.par)[i])]
    BY <1>3, <1>8 DEF Follows, D
  <2> QED
    BY <1>5, <1>6, <1>7, <1>8, <2>1 DEF c
<1>9. CASE c \in {"call", "syslog", "hideFeature"} /\ "par" \in D
  <2>1. loc[t].act = Stray
    BY <1>4, <1>9 DEF LineInv, D
  <2>2. loc[t].par = parOf(c, cur)
    BY <1>3, <1>9 DEF Follows, D, c
  <2> QED
    BY <1>5, <1>6, <1>7, <1>9, <2>1, <2>2 DEF c
<1> QED
  BY <1>4, <1>8, <1>9

(* A line composed by randomKey is recognised by its line.                 *)
LEMMA LineOrKey ==
  ASSUME NEW line, NEW cur \in lines(line)
  PROVE  \/ cur = line
         \/ /\ "randomKey" \in getCmdCode(line.cmd) /\ line.n = 1
            /\ \E name \in KeyName \cup {Stray} : cur = pressed(line, name)
BY DEF lines, argsOk

LEMMA CodesOfKeys ==
  /\ {Stray} \cup KeyName \subseteq Word
  /\ \A text : known(text) => codeOf(text) \in KeyCode /\ text \in KeyCode \cup KeyName
<1>1. \A i \in DOMAIN gKeyLib : gKeyLib[i].code \in KeyCode
  BY DEF KeyCode
<1>2. {Stray} \cup KeyName \subseteq Word
  BY KeyAssumption
<1>3. ASSUME NEW text, known(text) PROVE codeOf(text) \in KeyCode /\ text \in KeyCode \cup KeyName
  BY <1>1, <1>3, KeyFound
<1> QED
  BY <1>2, <1>3

LEMMA OneKeyLeft ==
  ASSUME NEW list \in Seq(Word), Len(list) = 1
  PROVE  Len(keyTokens(list)) = 1 /\ DOMAIN keyTokens(list) = 1 .. 1
<1> DEFINE left == Len(keyTokens(list))
<1>1. left \in 0 .. Len(list) /\ (Len(list) > 0 => left > 0) /\ DOMAIN keyTokens(list) = 1 .. left
  BY TokensLeft
<1> HIDE DEF left
<1>2. left \in 0 .. 1 /\ left > 0
  BY <1>1
<1>3. left = 1
  BY <1>2
<1> QED
  BY <1>1, <1>3 DEF left

LEMMA SentIsAsked ==
  ASSUME ClientsFitByte, TypeInv, LineInv
  PROVE  SentAsTyped
<1> SUFFICES ASSUME NEW t \in Thread, undisturbed(t, "send"),
                    loc[t].cmd = "ioevt" => fits(loc[t].line.par)
             PROVE  message(t) \in asked(loc[t].line)
  BY DEF SentAsTyped
<1> DEFINE c == loc[t].cmd
           line == loc[t].line
<1>1. PICK cur \in lines(line) :
        /\ c \in getCmdCode(cur.cmd) /\ argsOk(c, cur)
        /\ loc[t].code = c /\ loc[t].client = cur.num
        /\ \/ /\ c = "ioevt" /\ loc[t].act = cur.act
              /\ \A i \in DOMAIN keyTokens(cur.par) : known(keyTokens(cur.par)[i])
              /\ loc[t].par = [i \in DOMAIN keyTokens(cur.par) |-> codeOf(keyTokens(cur.par)[i])]
           \/ /\ c \in {"call", "syslog", "hideFeature"} /\ loc[t].act = Stray
              /\ loc[t].par = parOf(c, cur)
  BY AtSend
<1>2. line \in CommandLine
  BY DEF TypeInv, Typed
<1>3. line.par \in Seq(Word) /\ line.act \in STRING
  <2> HIDE DEF Word
  <2> QED
    BY <1>2 DEF CommandLine
<1> HIDE DEF c, line
<1>4. message(t) = [code |-> c, client |-> cur.num, par |-> loc[t].par, act |-> loc[t].act]
  BY <1>1 DEF message
<1>5. CASE cur = line
  <2>1. meaning(line.cmd) = c
    BY <1>1, <1>5, CommandFacts
  <2>2. CASE c = "ioevt"
    <3>1. keyTokens(line.par) = line.par
      BY <1>3, <2>2, TokensLeft DEF c, line
    <3>2. loc[t].par = [i \in DOMAIN line.par |-> codeOf(line.par[i])] /\ loc[t].act = line.act
      BY <1>1, <1>5, <2>2, <3>1
    <3> QED
      BY <1>4, <1>5, <2>1, <2>2, <3>2 DEF asked, line
  <2>3. CASE c = "syslog" /\ line.n = 3
    <3>1. parOf(c, line) = line.par \o <<line.act>>
      BY <2>3 DEF parOf
    <3>2. Append(line.par, line.act) = line.par \o <<line.act>>
      <4>1. line.par \in Seq(STRING)
        <5>1. Word \subseteq STRING
          BY DEF Word
        <5> HIDE DEF Word
        <5> QED
          BY <1>3, <5>1, SeqMonotonic
      <4> QED
        BY <1>3, <4>1, AppendIsConcat
    <3>3. loc[t].par = Append(line.par, line.act) /\ loc[t].act = Stray
      BY <1>1, <1>5, <2>3, <3>1, <3>2
    <3> QED
      BY <1>4, <1>5, <2>1, <2>3, <3>3 DEF asked, line
  <2>4. CASE c \in {"call", "syslog", "hideFeature"} /\ ~ (c = "syslog" /\ line.n = 3)
    <3>1. parOf(c, line) = line.par \o <<>>
      BY <2>4 DEF parOf
    <3>2. line.par \o <<>> = line.par
      <4> HIDE DEF Word
      <4> QED
        BY <1>3, ConcatEmptySeq
    <3>3. loc[t].par = line.par /\ loc[t].act = Stray
      BY <1>1, <1>5, <2>4, <3>1, <3>2
    <3> QED
      BY <1>4, <1>5, <2>1, <2>4, <3>3 DEF asked, line
  <2> QED
    BY <1>1, <2>2, <2>3, <2>4
<1>6. ASSUME "randomKey" \in getCmdCode(line.cmd), NEW name \in KeyName \cup {Stray},
             cur = pressed(line, name)
      PROVE  message(t) \in asked(line)
  <2>1. meaning(line.cmd) = "randomKey"
    BY <1>6, CommandFacts
  <2>2. cur.cmd = "ioevt" /\ cur.num = line.num /\ cur.par = <<name>> /\ cur.act = "p"
    BY <1>6 DEF pressed
  <2>3. c = "ioevt"
    <3>1. "ioevt" \in getCmdCode("ioevt")
      BY CommandFacts DEF func
    <3> QED
      BY <1>1, <2>2, <3>1, CommandFacts
  <2> DEFINE one  == <<name>>
             toks == keyTokens(one)
  <2>4. name \in Word
    BY CodesOfKeys
  <2>6. Len(toks) = 1 /\ DOMAIN toks = 1 .. 1
    <3>1. one \in Seq(Word) /\ Len(one) = 1
      <4> HIDE DEF Word
      <4> QED
        BY <2>4
    <3> HIDE DEF one
    <3> QED
      BY <3>1, OneKeyLeft
  <2> HIDE DEF toks
  <2>7. known(toks[1]) /\ loc[t].par = [i \in DOMAIN toks |-> codeOf(toks[i])] /\ loc[t].act = "p"
    BY <1>1, <2>2, <2>3, <2>6 DEF toks
  <2>8. loc[t].par = <<codeOf(toks[1])>> /\ codeOf(toks[1]) \in KeyCode
    BY <2>6, <2>7, CodesOfKeys
  <2> QED
    BY <1>4, <2>1, <2>2, <2>3, <2>7, <2>8 DEF asked, line
<1> QED
  BY <1>5, <1>6, LineOrKey DEF line

LEMMA SentKeysAreNamed ==
  ASSUME ClientsFitByte, TypeInv, LineInv
  PROVE  NeverAnotherKey
<1> SUFFICES ASSUME NEW t \in Thread, undisturbed(t, "send"), loc[t].cmd = "ioevt",
                    Range(loc[t].line.par) \subseteq KeyName, loc[t].line.n = 3
             PROVE  IsPrefix(loc[t].par, [i \in DOMAIN loc[t].line.par |-> codeOf(loc[t].line.par[i])])
  BY DEF NeverAnotherKey
<1> DEFINE list == loc[t].line.par
           toks == keyTokens(list)
           full == [i \in DOMAIN list |-> codeOf(list[i])]
<1>1. PICK cur \in lines(loc[t].line) :
        /\ \A i \in DOMAIN keyTokens(cur.par) : known(keyTokens(cur.par)[i])
        /\ loc[t].par = [i \in DOMAIN keyTokens(cur.par) |-> codeOf(keyTokens(cur.par)[i])]
  BY AtSend
<1>2. cur = loc[t].line
  BY LineOrKey
<1>3. list \in Seq(Word)
  <2> HIDE DEF Word
  <2> QED
    BY DEF TypeInv, Typed, CommandLine
<1>4. DOMAIN list = 1 .. Len(list) /\ Len(list) \in Nat
  <2> HIDE DEF Word
  <2> QED
    BY <1>3, LenProperties
<1>5. \A i \in 1 .. Len(list) : list[i] \in KeyName
  BY <1>4 DEF Range
<1>6. /\ Len(toks) \in 0 .. Len(list) /\ DOMAIN toks = 1 .. Len(toks)
      /\ \A i \in 1 .. Len(toks) : toks[i] = list[i] \/ \E n \in 1 .. Len(list[i]) - 1 : toks[i] = SubSeq(list[i], 1, n)
  BY <1>3, TokensLeft
<1>7. loc[t].par = [i \in 1 .. Len(toks) |-> codeOf(toks[i])] /\ \A i \in 1 .. Len(toks) : known(toks[i])
  BY <1>1, <1>2, <1>6
<1> HIDE DEF toks, list
<1>8. ASSUME NEW i \in 1 .. Len(toks) PROVE toks[i] = list[i]
  <2>1. toks[i] \in KeyCode \cup KeyName
    BY <1>7, CodesOfKeys
  <2>2. list[i] \in KeyName
    BY <1>4, <1>5, <1>6
  <2>3. \A n \in 1 .. Len(list[i]) - 1 : SubSeq(list[i], 1, n) \notin KeyCode \cup KeyName
    BY <2>2, KeyAssumption
  <2> QED
    BY <1>6, <2>1, <2>3
<1>9. \A i \in 1 .. Len(list) : full[i] \in KeyCode
  <2>1. \A i \in 1 .. Len(list) : known(list[i])
    BY <1>5 DEF known, KeyName
  <2> QED
    BY <1>4, <2>1, CodesOfKeys
<1>10. full \in Seq(KeyCode) /\ Len(full) = Len(list)
  BY <1>4, <1>9
<1>11. loc[t].par \in Seq(KeyCode) /\ Len(loc[t].par) = Len(toks)
  <2>1. \A i \in 1 .. Len(toks) : codeOf(toks[i]) \in KeyCode
    BY <1>7, CodesOfKeys
  <2> QED
    BY <1>6, <1>7, <2>1
<1>12. \A i \in 1 .. Len(toks) : loc[t].par[i] = full[i]
  BY <1>4, <1>6, <1>7, <1>8
<1> HIDE DEF full
<1>13. IsPrefix(loc[t].par, full)
  BY <1>6, <1>10, <1>11, <1>12, PrefixByElement
<1> QED
  BY <1>13 DEF full, list
-----------------------------------------------------------------------------
(* What is valid is sent.                                                  *)
LEMMA NotYetDone ==
  ASSUME TypeInv, NEW t \in Thread, NEW s \in Use \ LastUse, at(t, s), proceed(t)
  PROVE  todo'[t] # <<>>
<1> DEFINE c == loc[t].cmd
<1>1. atWork(t) /\ Head(todo[t]) = s /\ c \in DOMAIN func
  BY Here DEF at
<1>2. PICK k \in 1 .. Len(func[c]) : todo[t] = Ahead(c, k) /\ Head(todo[t]) = func[c][k]
  BY <1>1, Position
<1>3. todo'[t] = Tail(todo[t])
  BY DEF proceed, TypeInv
<1> HIDE DEF c
<1>4. k # Len(func[c]) /\ Len(func[c]) \in Nat
  BY <1>1, <1>2, HandlerOrder
<1>5. k + 1 \in 1 .. Len(func[c]) /\ k < Len(func[c])
  BY <1>4
<1>6. todo'[t] = Ahead(c, k + 1)
  <2>1. Tail(Ahead(c, k)) = Ahead(c, k + 1)
    BY <1>1, <1>5, AheadFacts
  <2> QED
    BY <1>2, <1>3, <2>1
<1> QED
  BY <1>1, <1>5, <1>6, AheadFacts

(* A valid line is not randomKey's, so a thread follows it as it is.       *)
LEMMA ValidIsFollowed ==
  ASSUME LineInv, NEW t \in Thread, todo[t] # <<>>, t \notin disturbed, valid(loc[t].line)
  PROVE  /\ Follows(t, loc[t].line)
         /\ meaning(loc[t].line.cmd) \in {"ioevt", "call", "syslog", "hideFeature"}
         /\ meaning(loc[t].line.cmd) \in getCmdCode(loc[t].line.cmd)
<1> DEFINE line == loc[t].line
           m == meaning(line.cmd)
<1>1. m \in {"ioevt", "call", "syslog", "hideFeature"}
  BY DEF valid
<1> HIDE DEF m
<1>2. m \in getCmdCode(line.cmd)
  <2>1. m \in DOMAIN func
    BY <1>1 DEF func
  <2>2. CASE getCmdCode(line.cmd) = {}
    BY <2>1, <2>2, CommandFacts DEF m
  <2>3. CASE getCmdCode(line.cmd) # {}
    BY <2>3, CommandFacts DEF m
  <2> QED
    BY <2>2, <2>3
<1>3. "randomKey" \notin getCmdCode(line.cmd)
  BY <1>1, CommandFacts DEF m
<1>4. lines(line) = {line}
  BY <1>3 DEF lines
<1>5. Follows(t, line)
  BY <1>4 DEF LineInv
<1> QED
  BY <1>1, <1>2, <1>5 DEF m

LEMMA NeverGivenUp ==
  ASSUME TypeInv, LineInv, NEW t \in Thread, Step(t), todo'[t] = <<>>, ~ at(t, "send"),
         t \notin disturbed, valid(loc[t].line)
  PROVE  FALSE
<1> DEFINE line == loc[t].line
           m == meaning(line.cmd)
           D == behind(t)
<1>1. /\ Follows(t, line) /\ m \in {"ioevt", "call", "syslog", "hideFeature"}
      /\ m \in getCmdCode(line.cmd) /\ todo[t] # <<>>
  BY StepIsSomewhere, ValidIsFollowed
<1>2. \A s \in Use : at(t, s) => /\ loc[t].cmd = m /\ InOrder(m, s, D)
                                 /\ s # "keyCodes" /\ s # "send" => gCmdParam = line
  <2> SUFFICES ASSUME NEW s \in Use, at(t, s)
               PROVE  /\ loc[t].cmd = m /\ InOrder(m, s, D)
                      /\ s # "keyCodes" /\ s # "send" => gCmdParam = line
    OBVIOUS
  <2>1. atWork(t) /\ InOrder(loc[t].cmd, s, D)
    BY Here
  <2>2. loc[t].cmd \in getCmdCode(line.cmd)
    BY <1>1, <2>1 DEF Follows
  <2>3. loc[t].cmd = m
    BY <2>2, CommandFacts
  <2>4. s # "keyCodes" /\ s # "send" => "keys" \notin D
    BY <2>1 DEF InOrder
  <2> QED
    BY <1>1, <2>1, <2>3, <2>4 DEF Follows
<1>3. /\ line.num \in MIN_CLIENT .. MAX_CLIENT - 1
      /\ argsOk(m, line)
      /\ m = "ioevt" => /\ Len(line.par) <= MAX_IOEVT /\ fits(line.par)
                        /\ \A i \in DOMAIN line.par : known(line.par[i])
  BY DEF valid, argsOk
<1>4. m = "ioevt" => keyTokens(line.par) = line.par /\ ~ tooMany(line.par)
  <2>1. line.par \in Seq(Word) /\ MAX_IOEVT \in Nat
    <3> HIDE DEF Word
    <3> QED
      BY PhoneAssumption DEF TypeInv, Typed, CommandLine
  <2>2. fits(line.par) => keyTokens(line.par) = line.par
    BY <2>1, TokensLeft
  <2>3. Len(line.par) \in Nat
    <3> HIDE DEF Word
    <3> QED
      BY <2>1, LenProperties
  <2> QED
    BY <1>3, <2>1, <2>2, <2>3 DEF tooMany
<1>5. {"args", "range", "code", "client", "par", "action", "keys", "keyCodes", "draw", "min",
        "max"} = Use \ LastUse
  BY DEF Use, LastUse
<1> HIDE DEF line, m, D
<1>6. CASE Dispatch(t)
  <2>1. gCmdParam = line
    BY <1>1, <1>6, NothingBehind DEF Dispatch, Follows
  <2>2. PICK c \in getCmdCode(gCmdParam.cmd) : todo' = [todo EXCEPT ![t] = func[c]]
    BY <1>1, <1>6, <2>1 DEF Dispatch
  <2>3. Len(func[c]) # 0
    BY CommandFacts, HandlerOrder
  <2> QED
    BY <2>2, <2>3 DEF TypeInv
<1>7. CASE CheckArgs(t)
  BY <1>2, <1>3, <1>5, <1>7, NotYetDone DEF CheckArgs
<1>8. CASE CheckRange(t)
  BY <1>2, <1>3, <1>5, <1>8, NotYetDone DEF CheckRange
<1>9. CASE TakeCode(t) \/ TakePar(t) \/ TakeAction(t) \/ DrawKey(t) \/ TakeMin(t)
  BY <1>5, <1>9, NotYetDone DEF TakeCode, TakePar, TakeAction, DrawKey, TakeMin
<1>10. CASE TakeClient(t)
  <2>1. at(t, "client") /\ gCmdParam = line /\ loc[t].cmd = m
    BY <1>2, <1>5, <1>10 DEF TakeClient
  <2>2. clientOk(m)
    BY <1>3, <2>1, PhoneAssumption DEF clientOk, MIN_CLIENT
  <2> QED
    BY <1>5, <1>10, <2>1, <2>2, NotYetDone DEF TakeClient
<1>11. CASE TakeKeys(t)
  <2>1. at(t, "keys") /\ gCmdParam = line /\ m = "ioevt"
    BY <1>2, <1>5, <1>11 DEF TakeKeys, InOrder
  <2>2. ~ tooMany(keyTokens(gCmdParam.par))
    BY <1>4, <2>1
  <2> QED
    BY <1>5, <1>11, <2>1, <2>2, NotYetDone DEF TakeKeys
<1>12. CASE TakeKeyCodes(t)
  <2>1. at(t, "keyCodes") /\ m = "ioevt" /\ "keys" \in D /\ "keyCodes" \notin D
    BY <1>2, <1>5, <1>12 DEF TakeKeyCodes, InOrder
  <2>2. loc[t].par = line.par
    BY <1>1, <1>4, <2>1 DEF Follows, D
  <2>3. \A i \in DOMAIN loc[t].par : getKeyCode(loc[t].par[i]) # FAILED
    BY <1>3, <2>1, <2>2, KeyFound
  <2>4. proceed(t)
    BY <1>12, <2>3 DEF TakeKeyCodes
  <2> QED
    BY <1>5, <2>1, <2>4, NotYetDone
<1>13. CASE TakeMax(t) \/ Sleep(t) \/ OpenConfig(t)
  <2>1. PICK s \in {"max", "sleep", "open"} : at(t, s)
    BY <1>13 DEF TakeMax, Sleep, OpenConfig
  <2>2. InOrder(m, s, D)
    BY <1>2, <2>1 DEF Use, LastUse
  <2> QED
    BY <1>1, <2>2 DEF InOrder
<1>14. CASE Compose(t)
  BY <1>14 DEF Compose, parse, TypeInv
<1>15. ~ Send(t)
  BY DEF Send
<1> QED
  BY <1>6, <1>7, <1>8, <1>9, <1>10, <1>11, <1>12, <1>13, <1>14, <1>15 DEF Step

LEMMA ValidGoesOut ==
  ASSUME TypeInv, LineInv, [Next]_vars
  PROVE  \A t \in Thread : todo[t] # <<>> /\ todo'[t] = <<>> /\ ~ at(t, "send") /\ t \notin disturbed
                             => ~ valid(loc[t].line)
<1> SUFFICES ASSUME NEW t \in Thread, todo[t] # <<>>, todo'[t] = <<>>, ~ at(t, "send"),
                    t \notin disturbed, valid(loc[t].line)
             PROVE  FALSE
  OBVIOUS
<1>1. todo' # todo
  OBVIOUS
<1>2. PICK u \in Thread : Issue(u) \/ Step(u)
  BY <1>1 DEF Next, vars
<1>3. u = t
  BY <1>2, StepKind DEF OthersWait
<1>4. Step(t)
  BY <1>2, <1>3 DEF Issue
<1> QED
  BY <1>4, NeverGivenUp

-----------------------------------------------------------------------------
LEMMA InitInvs == Init => ClientInv /\ ValueInv /\ LineInv
<1> SUFFICES ASSUME Init PROVE ClientInv /\ ValueInv /\ LineInv
  OBVIOUS
<1>1. \A t \in Thread : behind(t) = {} /\ todo[t] = <<>> /\ loc[t].act = Stray
  BY InitNothingBehind DEF Init, NoLocals
<1> QED
  BY <1>1 DEF ClientInv, ValueInv, LineInv

(* When nothing changes, nothing has been taken.                           *)
LEMMA NothingTaken ==
  ASSUME UNCHANGED vars
  PROVE  /\ ClientInv => ClientInv'
         /\ ValueInv => ValueInv'
         /\ LineInv => LineInv'
<1>1. \A t \in Thread : todo'[t] = todo[t] /\ loc'[t] = loc[t] /\ behind(t)' = behind(t)
  BY Waits DEF vars
<1>2. gCmdParam' = gCmdParam /\ disturbed' = disturbed
  BY DEF vars
<1>3. ClientInv => ClientInv'
  BY <1>1 DEF ClientInv
<1>4. ValueInv => ValueInv'
  BY <1>1 DEF ValueInv
<1>5. LineInv => LineInv'
  <2> SUFFICES ASSUME LineInv, NEW t \in Thread
               PROVE  /\ "action" \notin behind(t)' => loc'[t].act = Stray
                      /\ t \notin disturbed' /\ todo'[t] # <<>> =>
                           \E cur \in lines(loc'[t].line) : Follows(t, cur)'
    BY DEF LineInv
  <2>1. "action" \notin behind(t)' => loc'[t].act = Stray
    BY <1>1 DEF LineInv
  <2>2. ASSUME t \notin disturbed', todo'[t] # <<>>
        PROVE  \E cur \in lines(loc'[t].line) : Follows(t, cur)'
    <3>1. PICK cur \in lines(loc[t].line) : Follows(t, cur)
      BY <1>1, <1>2, <2>2 DEF LineInv
    <3>2. Follows(t, cur)'
      BY <1>1, <1>2, <3>1, FollowsWaits
    <3> QED
      BY <1>1, <3>1, <3>2
  <2> QED
    BY <2>1, <2>2
<1> QED
  BY <1>3, <1>4, <1>5

LEMMA ClientsStayKept == ClientsFitByte /\ TypeInv /\ ClientInv /\ [Next]_vars => ClientInv'
BY ClientsKept, NothingTaken DEF Next

LEMMA ValuesStayKept == TypeInv /\ ValueInv /\ [Next]_vars => ValueInv'
BY ValuesKept, NothingTaken DEF Next

LEMMA LinesStayFollowed == TypeInv /\ LineInv /\ [Next]_vars => LineInv'
BY LinesFollowed, NothingTaken DEF Next

(* Whichever lines get in each other's way, call only sends to a client    *)
(* and ioevt at most one beyond the last one (clientNum is a c8_t).        *)
THEOREM MessagesNameClients ==
  ASSUME ClientsFitByte
  PROVE  Spec => []ClientBound
BY InitTypes, TypesKept, InitInvs, ClientsStayKept, ClientsBounded, PTL DEF Spec

(* For every width of rand() and of a float: a place drawn lies at most    *)
(* one beyond gKeyLib, a delay never exceeds min + max (getRandValue).     *)
THEOREM RandomInReach == Spec => []RandomStaysInReach
BY InitTypes, TypesKept, InitInvs, ValuesStayKept, ValuesInReach, PTL DEF Spec

(* What a thread nobody has disturbed sends is what its line asks for,     *)
(* whatever the lines, the keys and the files (ioevt, call, syslogConf,    *)
(* hideFeatureProc, randomKey, autoConfig).                                *)
THEOREM LinesSentAsTyped ==
  ASSUME ClientsFitByte
  PROVE  Spec => []SentAsTyped
BY InitTypes, TypesKept, InitInvs, LinesStayFollowed, SentIsAsked, PTL DEF Spec

(* A list of key names that was cut never presses a key it does not name.  *)
THEOREM KeysNeverMistaken ==
  ASSUME ClientsFitByte
  PROVE  Spec => []NeverAnotherKey
BY InitTypes, TypesKept, InitInvs, LinesStayFollowed, SentKeysAreNamed, PTL DEF Spec

(* A valid line nobody has disturbed is never refused before msgsnd.       *)
THEOREM ValidLinesSent == Spec => ValidIsSent
<1>1. Init => TypeInv /\ LineInv
  BY InitTypes, InitInvs
<1>2. TypeInv /\ LineInv /\ [Next]_vars => (TypeInv /\ LineInv)'
  BY TypesKept, LinesStayFollowed
<1>3. TypeInv /\ LineInv /\ [Next]_vars =>
        [ \A t \in Thread :
            todo[t] # <<>> /\ todo'[t] = <<>> /\ ~at(t, "send") /\ t \notin disturbed
              => ~valid(loc[t].line) ]_vars
  BY ValidGoesOut
<1> QED
  BY <1>1, <1>2, <1>3, PTL DEF Spec, ValidIsSent
================================================================================
