-------------------------- MODULE FullEngineProofs --------------------------
(***************************************************************************)
(* The budgets of the exhaustive engine fit the crash states that they are *)
(* cut from, for every BUDGET, every number of crash states for which the  *)
(* divisions of the engine are exact, and every plan that asks for no more *)
(* than there are; and whatever the divisions give beyond.                 *)
(***************************************************************************)
EXTENDS FullEngine, TLAPS

\* Quotient and remainder of a plan and of the numbers.
LEMMA Division ==
    ASSUME NEW a \in Nat, NEW b \in Nat \ {0}
    PROVE  /\ a \div b \in Nat /\ a % b \in 0..(b - 1)
           /\ a = b * (a \div b) + (a % b)
           /\ (a \div b) * b <= a
  OBVIOUS

\* The product of naturals grows with each of them.
LEMMA Monotone ==
    ASSUME NEW a \in Nat, NEW b \in Nat, NEW c \in Nat, a <= b
    PROVE  a * c <= b * c /\ a * c \in Nat /\ b * c \in Nat
  OBVIOUS

\* One share more, or less.
LEMMA Distributes ==
    ASSUME NEW a \in Int, NEW c \in Int
    PROVE  (a - 1) * c = a * c - c /\ (a + 1) * c = a * c + c
  OBVIOUS

\* A share has room for a budget, and num shares leave room for the rest.
LEMMA ShareRoom ==
    ASSUME NEW total \in Nat, total < FloatExact, NEW planned \in 1..total,
           NEW num \in Nat, NEW rest \in Nat,
           num = planned \div BUDGET, rest = planned % BUDGET,
           NEW n \in Nat, n = IF rest > 0 THEN num + 1 ELSE num
    PROVE  /\ n > 0
           /\ Share(total, n) \in Nat /\ Share(total, n) >= BUDGET
           /\ num * Share(total, n) + rest <= total
  <1> BUDGET \in Nat \ {0} BY InputsAssumption
  <1>1. planned = BUDGET * num + rest /\ rest < BUDGET
    BY Division
  <1>2. n > 0 /\ n \in Nat \ {0}
    <2>1. CASE rest > 0 BY <2>1
    <2>2. CASE rest = 0
      <3>1. num # 0 BY <1>1, <2>2
      <3> QED BY <2>2, <3>1
    <2> QED BY <2>1, <2>2
  <1>3. total \div n \in Nat /\ (total \div n) * n <= total
    BY <1>2, Division
  <1> Quotient(total, n) = total \div n
    BY DEF Quotient
  <1> DEFINE s == Share(total, n)
  <1>4. s \in Nat /\ s >= BUDGET
    BY <1>3 DEF Share
  <1>5. num * s + rest <= total
    <2>1. CASE total \div n < BUDGET
      <3>1. s = BUDGET BY <2>1 DEF Share
      <3>2. num * s = BUDGET * num BY <3>1
      <3> QED BY <3>2, <1>1
    <2>2. CASE ~(total \div n < BUDGET)
      <3>1. s = total \div n BY <2>2 DEF Share
      <3>2. s * n <= total BY <3>1, <1>3
      <3>3. CASE rest > 0
        <4> HIDE DEF s
        <4>0. n = num + 1 BY <3>3
        <4>1. s * n = num * s + s
          <5>1. (num + 1) * s = num * s + s BY <1>4, Distributes
          <5> QED BY <5>1, <4>0, <1>4
        <4>2. rest <= s BY <1>1, <1>4
        <4>3. num * s \in Nat BY <1>4
        <4> QED BY <4>1, <4>2, <4>3, <3>2, <1>4, <1>2
      <3>4. CASE rest = 0
        <4>1. num * s = s * n BY <3>4, <1>4
        <4> QED BY <4>1, <3>2, <3>4, <1>4
      <3> QED BY <3>3, <3>4
    <2> QED BY <2>1, <2>2
  <1> QED BY <1>2, <1>4, <1>5

\* The i-th of the whole shares lies in 0..total-1, behind the ones before it.
LEMMA ShareBounds ==
    ASSUME NEW total \in Nat, NEW num \in Nat, NEW rest \in Nat, NEW length \in Nat,
           length >= BUDGET, num * length + rest <= total, NEW i \in 1..num
    PROVE  /\ (i - 1) * length \in Nat
           /\ i * length \in Nat
           /\ (i - 1) * length + length = i * length
           /\ i * length <= num * length
           /\ i * length <= total
           /\ \A j \in 1..num : i < j => i * length <= (j - 1) * length
  <1>1. (i - 1) * length \in Nat /\ i * length \in Nat /\ num * length \in Nat
    BY Monotone
  <1>2. (i - 1) * length = i * length - length
    BY Distributes
  <1>3. i * length <= num * length
    BY Monotone
  <1>4. ASSUME NEW j \in 1..num, i < j PROVE i * length <= (j - 1) * length
    BY <1>4, Monotone
  <1> QED BY <1>1, <1>2, <1>3, <1>4

\* Budgets for a plan that does not exceed the number of crash states fit.
LEMMA BudgetsFit ==
    ASSUME NEW total \in Nat, total < FloatExact, NEW planned \in 1..total
    PROVE  Fit(total, planned)
  <1> BUDGET \in Nat \ {0} BY InputsAssumption
  <1> DEFINE num == planned \div BUDGET
             rest == planned % BUDGET
             n == IF rest > 0 THEN num + 1 ELSE num
             length == Share(total, n)
             share(i) == [start |-> (i - 1) * length, end |-> i * length - 1, budget |-> BUDGET]
             shares == [i \in 1..num |-> share(i)]
             last == [start |-> num * length, end |-> total - 1, budget |-> rest]
             b == shares \o (IF rest > 0 THEN <<last>> ELSE <<>>)
  <1>1. num \in Nat /\ rest \in Nat /\ rest < BUDGET
    <2>1. planned \in Nat OBVIOUS
    <2>2. num \in Nat /\ rest \in 0..(BUDGET - 1)
      BY <2>1, Division
    <2> QED BY <2>2
  <1>2. n \in Nat BY <1>1
  <1>3. length \in Nat /\ length >= BUDGET /\ num * length + rest <= total
    <2>1. /\ num = planned \div BUDGET /\ rest = planned % BUDGET
          /\ n = IF rest > 0 THEN num + 1 ELSE num
      OBVIOUS
    <2> HIDE DEF num, rest, n
    <2> QED BY <2>1, <1>1, <1>2, ShareRoom
  <1>4. b = Budgets(total, planned)
    <2>1. Quotient(planned, BUDGET) = num
      BY InputsAssumption DEF Quotient
    <2> QED BY <2>1 DEF Budgets
  <1> HIDE DEF num, rest, n, length
  <1>5. num * length \in Nat BY <1>1, <1>3
  <1>6. /\ DOMAIN b = IF rest > 0 THEN 1..(num + 1) ELSE 1..num
        /\ \A i \in 1..num : b[i] = share(i)
        /\ rest > 0 => b[num + 1] = last
    <2> HIDE DEF last, share
    <2> DEFINE Records == {share(i) : i \in 1..num} \cup {last}
    <2>1. shares \in Seq(Records) /\ Len(shares) = num /\ \A i \in 1..num : shares[i] = share(i)
      BY <1>1
    <2>2. last \in Records OBVIOUS
    <2> HIDE DEF Records, shares
    <2>3. CASE rest > 0
      <3>1. b = shares \o <<last>> BY <2>3
      <3> QED BY <2>1, <2>2, <2>3, <3>1, <1>1
    <2>4. CASE rest = 0
      <3>1. b = shares \o <<>> BY <2>4
      <3> QED BY <2>1, <2>4, <3>1, <1>1
    <2> QED BY <2>3, <2>4, <1>1
  <1>7. \A i \in 1..num : /\ share(i).start = (i - 1) * length /\ share(i).end = i * length - 1
                          /\ share(i).budget = BUDGET
    OBVIOUS
  <1> HIDE DEF share
  <1> HIDE DEF b
  <1>8. ASSUME NEW i \in DOMAIN b
        PROVE  0 <= b[i].start /\ b[i].end < total /\ b[i].budget <= Size(b[i])
    <2>1. CASE i \in 1..num
      <3>1. b[i].start = (i - 1) * length /\ b[i].end = i * length - 1 /\ b[i].budget = BUDGET
        BY <1>6, <1>7, <2>1
      <3>2. /\ (i - 1) * length \in Nat /\ i * length \in Nat
            /\ (i - 1) * length + length = i * length /\ i * length <= total
        BY <1>1, <1>3, <2>1, ShareBounds
      <3> QED BY <3>1, <3>2, <1>3 DEF Size
    <2>2. CASE i = num + 1 /\ rest > 0
      <3>1. b[i].start = num * length /\ b[i].end = total - 1 /\ b[i].budget = rest
        BY <1>6, <2>2
      <3> QED BY <3>1, <1>1, <1>3, <1>5 DEF Size
    <2> QED BY <1>6, <1>1, <2>1, <2>2
  <1>9. ASSUME NEW i \in DOMAIN b, NEW j \in DOMAIN b, i < j
        PROVE  b[i].end < b[j].start
    <2>1. i \in 1..num BY <1>6, <1>1, <1>9
    <2>2. b[i].end = i * length - 1 BY <1>6, <1>7, <2>1
    <2>3. /\ i * length \in Nat /\ i * length <= num * length
          /\ \A k \in 1..num : i < k => i * length <= (k - 1) * length
      BY <1>1, <1>3, <2>1, ShareBounds
    <2>4. CASE j \in 1..num
      <3>1. b[j].start = (j - 1) * length BY <1>6, <1>7, <2>4
      <3>2. (j - 1) * length \in Nat BY <1>1, <1>3, <2>4, ShareBounds
      <3>3. i * length <= (j - 1) * length BY <2>3, <2>4, <1>9
      <3> QED BY <3>1, <3>2, <3>3, <2>2, <2>3
    <2>5. CASE j = num + 1 /\ rest > 0
      <3>1. b[j].start = num * length BY <1>6, <2>5
      <3> QED BY <3>1, <2>2, <2>3, <1>5
    <2> QED BY <1>6, <1>1, <2>4, <2>5
  <1> QED BY <1>4, <1>8, <1>9 DEF Fit

\* Whatever the counts, the plan and BUDGET are: where the engine cuts a plan
\* into units, the units fit, if its divisions are exact for the count.
THEOREM PlansAlwaysFit ==
    ASSUME Total \in Nat, plan[tx_id] \in Nat
    PROVE  PlansFit
  <1> SUFFICES ASSUME Total > 0, Total < FloatExact, Planned <= Total PROVE Fit(Total, Planned)
    BY DEF PlansFit
  <1>1. Planned \in 1..Total
    BY DEF Planned
  <1> QED BY <1>1, BudgetsFit
=============================================================================
