------------------------ MODULE PaymentTablesProofs ------------------------
(***************************************************************************)
(* What each statement on the two tables preserves, whoever runs it.       *)
(***************************************************************************)
EXTENDS PaymentTables, FiniteSetTheorems, TLAPS

(***************************************************************************)
(* Sums of amounts.  The fold that SumOf applies is a recursive function   *)
(* on the subsets of a set; that it exists, and that the order in which it *)
(* takes the rows does not matter, is shown by least counterexamples (a    *)
(* least number, a smallest set) instead of by induction rules.            *)
(***************************************************************************)

(* The equation the fold solves on the sets in D.                          *)
Adds(g, rows, D) ==
  g = [s \in D |-> IF s = {} THEN 0
         ELSE LET x == CHOOSE x \in s : TRUE IN rows[x].amount + g[s \ {x}]]

(* The subsets of at most n rows.                                         *)
UpTo(n, S) == {s \in SUBSET S : Cardinality(s) <= n}

(* The sum as the fold's equation defines it.                              *)
LEMMA SumDef ==
  ASSUME NEW rows, NEW S
  PROVE  SumOf(rows, S) = (CHOOSE g : Adds(g, rows, SUBSET S))[S]
  BY DEF SumOf, MapThenSumSet, MapThenFoldSet, Adds

(* A set of numbers has a least one.                                       *)
LEMMA LeastNumber ==
  ASSUME NEW N \in SUBSET Nat, N # {}
  PROVE  \E n \in N : \A m \in N : n <= m
<1>1. \E n \in N : \A m \in N : <<m, n>> \notin OpToRel(<, Nat)
  BY NatLessThanWellFounded, WFMin
<1>2. PICK n \in N : \A m \in N : <<m, n>> \notin OpToRel(<, Nat)
  BY <1>1
<1>3. \A m \in Nat : m < n => <<m, n>> \in OpToRel(<, Nat)
  BY Zenon DEF OpToRel
<1>4. \A m \in N : ~(m < n)
  BY <1>2, <1>3
<1> QED
  BY <1>4

(* Among subsets of a finite set there is a smallest one.                  *)
LEMMA LeastSubset ==
  ASSUME NEW S, IsFiniteSet(S), NEW F \in SUBSET SUBSET S, F # {}
  PROVE  \E T \in F : \A U \in F : U \subseteq T => U = T
<1>1. F \subseteq FiniteSubsetsOf(S)
  BY FS_FiniteSubsetsOfFinite
<1>2. \E T \in F : \A U \in F : <<U, T>> \notin StrictSubsetOrdering(S)
  BY <1>1, FS_StrictSubsetOrderingWellFounded, WFMin
<1> QED
  BY <1>2 DEF StrictSubsetOrdering

(* The fold's equation has a solution on all subsets of a finite set.      *)
LEMMA SumIterates ==
  ASSUME NEW rows, NEW S, IsFiniteSet(S)
  PROVE  \E g : Adds(g, rows, SUBSET S)
<1> DEFINE N == {n \in Nat : ~ \E g : Adds(g, rows, UpTo(n, S))}
<1>1. \A s \in SUBSET S : IsFiniteSet(s) /\ Cardinality(s) \in Nat /\ Cardinality(s) <= Cardinality(S)
  BY FS_Subset, FS_CardinalityType
<1>2. \A s \in SUBSET S : Cardinality(s) = 0 <=> s = {}
  BY <1>1, FS_EmptySet
<1>3. N = {}
  <2> SUFFICES ASSUME N # {} PROVE FALSE
    OBVIOUS
  <2>1. PICK n \in N : \A m \in N : n <= m
    <3>1. N \in SUBSET Nat
      OBVIOUS
    <3> HIDE DEF N
    <3> QED BY <3>1, LeastNumber
  <2>2. n \in Nat /\ ~ \E g : Adds(g, rows, UpTo(n, S))
    OBVIOUS
  <2>3. CASE n = 0
    <3> DEFINE g == [s \in UpTo(n, S) |-> 0]
    <3>1. \A s \in UpTo(n, S) : s = {}
      BY <1>1, <1>2, <2>3 DEF UpTo
    <3>2. Adds(g, rows, UpTo(n, S))
      BY <3>1 DEF Adds
    <3> QED
      BY <2>2, <3>2
  <2>4. CASE n # 0
    <3>1. n - 1 \in Nat /\ n - 1 \notin N
      BY <2>1, <2>2, <2>4
    <3>2. PICK h : Adds(h, rows, UpTo(n - 1, S))
      BY <3>1
    <3> HIDE DEF N
    <3> DEFINE c(s) == CHOOSE x \in s : TRUE
               g == [s \in UpTo(n, S) |-> IF s = {} THEN 0 ELSE rows[c(s)].amount + h[s \ {c(s)}]]
    <3>3. ASSUME NEW s \in UpTo(n, S), s # {}
          PROVE  s \ {c(s)} \in UpTo(n - 1, S) /\ c(s) \in s
      <4>1. c(s) \in s
        BY <3>3
      <4> HIDE DEF c
      <4>2. Cardinality(s \ {c(s)}) = Cardinality(s) - 1
        BY <1>1, <4>1, FS_RemoveElement DEF UpTo
      <4> QED
        BY <1>1, <2>2, <3>1, <4>1, <4>2 DEF UpTo
    <3>4. ASSUME NEW s \in UpTo(n - 1, S)
          PROVE  s \in UpTo(n, S) /\ g[s] = h[s]
      <4>1. s \in UpTo(n, S)
        BY <1>1, <2>2 DEF UpTo
      <4>2. h[s] = IF s = {} THEN 0 ELSE rows[c(s)].amount + h[s \ {c(s)}]
        BY <3>2 DEF Adds
      <4> QED
        BY <4>1, <4>2
    <3>5. ASSUME NEW s \in UpTo(n, S)
          PROVE  g[s] = IF s = {} THEN 0 ELSE rows[c(s)].amount + g[s \ {c(s)}]
      <4>1. g[s] = IF s = {} THEN 0 ELSE rows[c(s)].amount + h[s \ {c(s)}]
        OBVIOUS
      <4> HIDE DEF g
      <4> QED
        BY <3>3, <3>4, <4>1
    <3>6. Adds(g, rows, UpTo(n, S))
      <4>1. g = [s \in UpTo(n, S) |-> g[s]]
        OBVIOUS
      <4> HIDE DEF g
      <4> QED
        BY <3>5, <4>1 DEF Adds
    <3> QED
      BY <2>2, <3>6
  <2> QED
    BY <2>3, <2>4
<1>4. Cardinality(S) \in Nat /\ UpTo(Cardinality(S), S) = SUBSET S
  BY <1>1, FS_CardinalityType DEF UpTo
<1>5. \E g : Adds(g, rows, UpTo(Cardinality(S), S))
  BY <1>3, <1>4
<1> QED
  BY <1>4, <1>5

(* Solutions for a set and a subset of it agree where both are defined.    *)
LEMMA SumsAgree ==
  ASSUME NEW rows, NEW S, IsFiniteSet(S), NEW T \in SUBSET S, NEW g, NEW h,
         Adds(g, rows, SUBSET S), Adds(h, rows, SUBSET T)
  PROVE  \A s \in SUBSET T : g[s] = h[s]
<1> DEFINE F == {s \in SUBSET T : g[s] # h[s]}
<1> SUFFICES ASSUME F # {} PROVE FALSE
  OBVIOUS
<1>1. F \in SUBSET SUBSET T /\ IsFiniteSet(T)
  BY FS_Subset
<1>2. PICK s \in F : \A u \in F : u \subseteq s => u = s
  <2> HIDE DEF F
  <2> QED
    BY <1>1, LeastSubset
<1> DEFINE c == CHOOSE x \in s : TRUE
<1>3. s \in SUBSET T /\ s \in SUBSET S /\ g[s] # h[s]
  OBVIOUS
<1>4. /\ g[s] = IF s = {} THEN 0 ELSE rows[c].amount + g[s \ {c}]
      /\ h[s] = IF s = {} THEN 0 ELSE rows[c].amount + h[s \ {c}]
  BY <1>3 DEF Adds
<1>5. s # {}
  BY <1>3, <1>4
<1>6. s \ {c} # s /\ s \ {c} \in SUBSET T
  BY <1>3, <1>5
<1>7. g[s \ {c}] = h[s \ {c}]
  BY <1>2, <1>6
<1> QED
  BY <1>3, <1>4, <1>7

(* One step of the fold.                                                   *)
LEMMA SumStep ==
  ASSUME NEW rows, NEW S, IsFiniteSet(S)
  PROVE  LET c == CHOOSE x \in S : TRUE
         IN  SumOf(rows, S) = IF S = {} THEN 0 ELSE rows[c].amount + SumOf(rows, S \ {c})
<1> DEFINE c == CHOOSE x \in S : TRUE
           g == CHOOSE f : Adds(f, rows, SUBSET S)
           h == CHOOSE f : Adds(f, rows, SUBSET (S \ {c}))
<1>1. IsFiniteSet(S \ {c})
  BY FS_RemoveElement
<1>2. Adds(g, rows, SUBSET S)
  BY SumIterates
<1>3. Adds(h, rows, SUBSET (S \ {c}))
  BY <1>1, SumIterates
<1>4. SumOf(rows, S) = g[S] /\ SumOf(rows, S \ {c}) = h[S \ {c}]
  BY SumDef
<1> HIDE DEF g, h
<1>5. g[S] = IF S = {} THEN 0 ELSE rows[c].amount + g[S \ {c}]
  BY <1>2 DEF Adds
<1> HIDE DEF c
<1>6. g[S \ {c}] = h[S \ {c}]
  <2> DEFINE T == S \ {c}
  <2>1. T \in SUBSET S /\ Adds(h, rows, SUBSET T)
    BY <1>3
  <2> HIDE DEF T
  <2>2. \A s \in SUBSET T : g[s] = h[s]
    BY <1>2, <2>1, SumsAgree
  <2> QED
    BY <2>2 DEF T
<1> QED
  BY <1>4, <1>5, <1>6 DEF c

(* No rows sum to nothing.                                                 *)
LEMMA SumEmpty == ASSUME NEW rows PROVE SumOf(rows, {}) = 0
  BY SumStep, FS_EmptySet

(* Finitely many rows with amounts.                                        *)
Counted(rows, S) == IsFiniteSet(S) /\ \A t \in S : rows[t].amount \in Nat

(* Sums are naturals.                                                      *)
LEMMA SumIsNat ==
  ASSUME NEW rows, NEW S, Counted(rows, S)
  PROVE  \A s \in SUBSET S : IsFiniteSet(s) /\ SumOf(rows, s) \in Nat
<1> DEFINE F == {s \in SUBSET S : SumOf(rows, s) \notin Nat}
<1>1. \A s \in SUBSET S : IsFiniteSet(s)
  BY FS_Subset DEF Counted
<1> SUFFICES ASSUME F # {} PROVE FALSE
  BY <1>1
<1>2. PICK s \in F : \A u \in F : u \subseteq s => u = s
  <2>1. F \in SUBSET SUBSET S
    OBVIOUS
  <2> HIDE DEF F
  <2> QED
    BY <2>1, LeastSubset DEF Counted
<1> DEFINE c == CHOOSE x \in s : TRUE
<1>3. SumOf(rows, s) = IF s = {} THEN 0 ELSE rows[c].amount + SumOf(rows, s \ {c})
  BY <1>1, SumStep
<1>4. s # {}
  BY <1>3
<1>5. c \in s
  BY <1>4
<1> HIDE DEF c
<1>6. SumOf(rows, s \ {c}) \in Nat /\ rows[c].amount \in Nat
  BY <1>2, <1>5 DEF Counted
<1> QED
  BY <1>3, <1>4, <1>6

(* Any row may be taken out of the sum, whichever one the fold takes first. *)
LEMMA SumSplit ==
  ASSUME NEW rows, NEW S, Counted(rows, S), NEW t \in S
  PROVE  /\ SumOf(rows, S \ {t}) \in Nat
         /\ SumOf(rows, S) = rows[t].amount + SumOf(rows, S \ {t})
<1> DEFINE Splits(s, x) == SumOf(rows, s) = rows[x].amount + SumOf(rows, s \ {x})
           F == {s \in SUBSET S : \E x \in s : ~Splits(s, x)}
<1>1. \A s \in SUBSET S : IsFiniteSet(s) /\ SumOf(rows, s) \in Nat
  BY SumIsNat
<1>2. ASSUME F # {} PROVE FALSE
  <2>1. PICK s \in F : \A u \in F : u \subseteq s => u = s
    <3>1. F \in SUBSET SUBSET S
      OBVIOUS
    <3> HIDE DEF F
    <3> QED
      BY <1>2, <3>1, LeastSubset DEF Counted
  <2>2. PICK x \in s : ~Splits(s, x)
    OBVIOUS
  <2> DEFINE c == CHOOSE y \in s : TRUE
  <2>3. s \in SUBSET S /\ c \in s /\ Splits(s, c)
    BY <1>1, <2>2, SumStep
  <2> HIDE DEF c
  <2>4. x # c
    BY <2>2, <2>3
  <2>5. /\ s \ {c} \in SUBSET S /\ s \ {c} # s /\ x \in s \ {c}
        /\ s \ {x} \in SUBSET S /\ s \ {x} # s /\ c \in s \ {x}
    BY <2>2, <2>3, <2>4
  <2>6. Splits(s \ {c}, x) /\ Splits(s \ {x}, c)
    BY <2>1, <2>5
  <2>7. (s \ {c}) \ {x} = (s \ {x}) \ {c} /\ (s \ {c}) \ {x} \in SUBSET S
    BY <2>3
  <2>8. rows[x].amount \in Nat /\ rows[c].amount \in Nat
    BY <2>2, <2>3 DEF Counted
  <2>9. PICK n \in Nat : SumOf(rows, (s \ {c}) \ {x}) = n
    BY <1>1, <2>7
  <2>10. /\ SumOf(rows, s \ {c}) = rows[x].amount + n
         /\ SumOf(rows, s \ {x}) = rows[c].amount + n
    BY <2>6, <2>7, <2>9
  <2>11. SumOf(rows, s) = rows[c].amount + SumOf(rows, s \ {c})
    BY <2>3
  <2> HIDE DEF F
  <2>12. SumOf(rows, s) = rows[x].amount + SumOf(rows, s \ {x})
    BY <2>8, <2>9, <2>10, <2>11
  <2> QED
    BY <2>2, <2>12
<1>3. Splits(S, t)
  BY <1>2
<1> QED
  BY <1>1, <1>3

(* A row that is added brings its amount.                                  *)
LEMMA SumAdd ==
  ASSUME NEW rows, NEW S, NEW t, Counted(rows, S \cup {t}), t \notin S
  PROVE  SumOf(rows, S) \in Nat /\ SumOf(rows, S \cup {t}) = SumOf(rows, S) + rows[t].amount
<1>1. (S \cup {t}) \ {t} = S
  OBVIOUS
<1>2. rows[t].amount \in Nat
  BY DEF Counted
<1> QED
  BY <1>1, <1>2, SumSplit

(* The sum depends on the amounts of the rows only.                        *)
LEMMA SumSame ==
  ASSUME NEW a, NEW b, NEW S, Counted(a, S), \A t \in S : b[t].amount = a[t].amount
  PROVE  Counted(b, S) /\ SumOf(b, S) = SumOf(a, S)
<1> DEFINE F == {s \in SUBSET S : SumOf(b, s) # SumOf(a, s)}
<1>1. Counted(b, S)
  BY DEF Counted
<1>2. ASSUME F # {} PROVE FALSE
  <2>1. PICK s \in F : \A u \in F : u \subseteq s => u = s
    <3>1. F \in SUBSET SUBSET S
      OBVIOUS
    <3> HIDE DEF F
    <3> QED
      BY <1>2, <3>1, LeastSubset DEF Counted
  <2>2. s \in SUBSET S /\ SumOf(b, s) # SumOf(a, s)
    OBVIOUS
  <2>3. Counted(a, s) /\ Counted(b, s)
    BY <1>1, <2>2, FS_Subset DEF Counted
  <2>4. s # {}
    BY <2>2, SumEmpty
  <2>5. PICK x \in s : TRUE
    BY <2>4
  <2>6. SumOf(b, s \ {x}) = SumOf(a, s \ {x})
    BY <2>1, <2>5
  <2>7. /\ SumOf(a, s) = a[x].amount + SumOf(a, s \ {x})
        /\ SumOf(b, s) = b[x].amount + SumOf(b, s \ {x})
    BY <2>3, SumSplit
  <2> QED
    BY <2>2, <2>5, <2>6, <2>7
<1> QED
  BY <1>1, <1>2

(* More rows sum to more.                                                  *)
LEMMA SumGrows ==
  ASSUME NEW rows, NEW S, Counted(rows, S), NEW T \in SUBSET S
  PROVE  SumOf(rows, T) <= SumOf(rows, S)
<1> DEFINE F == {s \in SUBSET S : T \subseteq s /\ ~(SumOf(rows, T) <= SumOf(rows, s))}
<1>1. \A s \in SUBSET S : SumOf(rows, s) \in Nat
  BY SumIsNat
<1>2. ASSUME F # {} PROVE FALSE
  <2>1. PICK s \in F : \A u \in F : u \subseteq s => u = s
    <3>1. F \in SUBSET SUBSET S
      OBVIOUS
    <3> HIDE DEF F
    <3> QED
      BY <1>2, <3>1, LeastSubset DEF Counted
  <2>2. s \in SUBSET S /\ T \subseteq s /\ ~(SumOf(rows, T) <= SumOf(rows, s))
    OBVIOUS
  <2>3. s # T
    BY <1>1, <2>2
  <2>4. PICK x \in s : x \notin T
    BY <2>2, <2>3
  <2>5. SumOf(rows, T) <= SumOf(rows, s \ {x})
    BY <2>1, <2>4
  <2>6. Counted(rows, s) /\ rows[x].amount \in Nat
    BY <2>2, FS_Subset DEF Counted
  <2>7. SumOf(rows, s) = rows[x].amount + SumOf(rows, s \ {x})
    BY <2>6, SumSplit
  <2>8. s \ {x} \in SUBSET S
    BY <2>2
  <2> QED
    BY <1>1, <2>2, <2>5, <2>6, <2>7, <2>8
<1> QED
  BY <1>2
-----------------------------------------------------------------------------

(* Rows are complete: they belong to an intent that exists.                *)
RowsWellFormed ==
    \A t \in Txs : TxExists(t) =>
        /\ txs[t].amount \in Amounts
        /\ txs[t].intent \in Intents
        /\ intents[txs[t].intent].status # "absent"

AbsentIsEmpty ==
    \A i \in Intents : intents[i].status = "absent" =>
        intents[i].due = 0 /\ intents[i].paid = 0 /\ intents[i].refunded = 0

(* What the totals contain has been stored.                                *)
CreditedExist == credited \subseteq {t \in Txs : TxExists(t)}

TablesInv ==
    /\ TablesTypeOK
    /\ RowsWellFormed
    /\ AbsentIsEmpty
    /\ AmountsConserved
    /\ StatusMatchesTotals
    /\ CreditedExactly
    /\ CreditedExist
    /\ TotalsAreSums

(* Rows are never deleted and keep their intent.                           *)
Grows ==
    /\ \A t \in Txs : TxExists(t) =>
          TxExists(t)' /\ txs'[t].intent = txs[t].intent /\ txs'[t].amount = txs[t].amount
    /\ \A i \in Intents : intents[i].status # "absent" => intents'[i].status # "absent"

(* A payment that is not open stays so and is not credited any more.       *)
StaysClosed ==
    \A p \in Payments :
       TxExists(p) /\ txs[p].status \notin ConfirmableStatuses =>
          /\ txs'[p].status \notin ConfirmableStatuses
          /\ p \in credited' => p \in credited

(* And the intents change as the accounts of the abstract specification do.*)
Lawful == StaysClosed /\ [Account!Next]_(Account!accountVars)

NoRefund == credited' \cap Refunds = credited \cap Refunds

(* No account changes when no total and no credit does.                    *)
LEMMA AccountStutter ==
  ASSUME credited' = credited,
         \A i \in Intents : /\ intents'[i].due = intents[i].due
                            /\ intents'[i].paid = intents[i].paid
                            /\ intents'[i].refunded = intents[i].refunded
  PROVE  [Account!Next]_(Account!accountVars)
<1>1. /\ [i \in Intents |-> intents'[i].due] = [i \in Intents |-> intents[i].due]
      /\ [i \in Intents |-> intents'[i].paid] = [i \in Intents |-> intents[i].paid]
      /\ [i \in Intents |-> intents'[i].refunded] = [i \in Intents |-> intents[i].refunded]
  OBVIOUS
<1> QED
  BY <1>1 DEF Account!accountVars

(* The credited rows of an intent, incoming or outgoing.                   *)
CreditedOf(rows, i) == {t \in rows \cap credited : txs[t].intent = i}

(* They can be summed up.                                                  *)
LEMMA CreditedCount ==
  ASSUME RowsWellFormed, CreditedExist, NEW rows \in SUBSET Txs, IsFiniteSet(rows)
  PROVE  \A i \in Intents : Counted(txs, CreditedOf(rows, i))
<1> TAKE i \in Intents
<1>1. IsFiniteSet(CreditedOf(rows, i))
  BY FS_Subset DEF CreditedOf
<1>2. ASSUME NEW t \in CreditedOf(rows, i)
      PROVE  txs[t].amount \in Nat
  BY TablesAssumption DEF CreditedOf, CreditedExist, RowsWellFormed
<1> QED
  BY <1>1, <1>2 DEF Counted

(* Whatever else a step does, rows credited before and after count alike.  *)
LEMMA CreditedStay ==
  ASSUME RowsWellFormed, CreditedExist, Grows, credited' = credited,
         NEW rows \in SUBSET Txs, IsFiniteSet(rows), NEW i \in Intents
  PROVE  SumOf(txs', CreditedOf(rows, i)') = SumOf(txs, CreditedOf(rows, i))
<1>1. CreditedOf(rows, i)' = CreditedOf(rows, i)
  BY DEF CreditedOf, CreditedExist, Grows
<1>2. \A t \in CreditedOf(rows, i) : txs'[t].amount = txs[t].amount
  BY DEF CreditedOf, CreditedExist, Grows
<1> QED
  BY <1>1, <1>2, CreditedCount, SumSame

(* A row that becomes credited, stored before or by the same step, adds    *)
(* its amount to its intent's sum.                                         *)
LEMMA CreditedAdds ==
  ASSUME RowsWellFormed, CreditedExist, Grows,
         NEW rows \in SUBSET Txs, IsFiniteSet(rows), NEW i \in Intents,
         NEW t \in Txs, txs'[t].amount \in Nat, t \notin credited, credited' = credited \cup {t}
  PROVE  /\ SumOf(txs, CreditedOf(rows, i)) \in Nat
         /\ SumOf(txs', CreditedOf(rows, i)') =
              SumOf(txs, CreditedOf(rows, i))
              + IF t \in rows /\ txs'[t].intent = i THEN txs'[t].amount ELSE 0
<1> DEFINE old == CreditedOf(rows, i)
<1>1. Counted(txs, old) /\ SumOf(txs, old) \in Nat
  BY CreditedCount, SumIsNat
<1>2. \A u \in old : txs'[u].amount = txs[u].amount
  BY DEF CreditedOf, CreditedExist, Grows
<1>3. Counted(txs', old) /\ SumOf(txs', old) = SumOf(txs, old)
  BY <1>1, <1>2, SumSame
<1>4. CASE t \in rows /\ txs'[t].intent = i
  <2>1. CreditedOf(rows, i)' = old \cup {t}
    BY <1>4 DEF CreditedOf, CreditedExist, Grows
  <2>2. Counted(txs', old \cup {t}) /\ t \notin old
    BY <1>3, FS_AddElement DEF Counted, CreditedOf
  <2>3. SumOf(txs', old \cup {t}) = SumOf(txs', old) + txs'[t].amount
    BY <2>2, SumAdd
  <2> QED
    BY <1>1, <1>3, <1>4, <2>1, <2>3
<1>5. CASE ~(t \in rows /\ txs'[t].intent = i)
  <2>1. CreditedOf(rows, i)' = old
    BY <1>5 DEF CreditedOf, CreditedExist, Grows
  <2> QED
    BY <1>1, <1>3, <1>5, <2>1
<1> QED
  BY <1>4, <1>5

(* Totals and credits that do not change stay in agreement.                *)
LEMMA TotalsStay ==
  ASSUME RowsWellFormed, CreditedExist, TotalsAreSums, Grows, credited' = credited,
         \A i \in Intents : /\ intents'[i].paid = intents[i].paid
                            /\ intents'[i].refunded = intents[i].refunded
  PROVE  CreditedExist' /\ TotalsAreSums'
<1>1. Payments \in SUBSET Txs /\ IsFiniteSet(Payments) /\ Refunds \in SUBSET Txs /\ IsFiniteSet(Refunds)
  BY TablesAssumption DEF Txs
<1>2. CreditedExist'
  BY DEF CreditedExist, Grows, TxExists
<1>3. ASSUME NEW i \in Intents
      PROVE  /\ intents'[i].paid = SumOf(txs', CreditedOf(Payments, i)')
             /\ intents'[i].refunded = SumOf(txs', CreditedOf(Refunds, i)')
  <2>1. /\ intents[i].paid = SumOf(txs, CreditedOf(Payments, i))
        /\ intents[i].refunded = SumOf(txs, CreditedOf(Refunds, i))
    BY DEF TotalsAreSums, Total, CreditedOf
  <2> QED
    BY <1>1, <2>1, CreditedStay
<1> QED
  BY <1>2, <1>3 DEF TotalsAreSums, Total, CreditedOf

(* A credit and the total it is written to change together.                *)
LEMMA TotalsAdd ==
  ASSUME RowsWellFormed, CreditedExist, TotalsAreSums, Grows,
         NEW t \in Txs, TxExists(t), t \notin credited, credited' = credited \cup {t},
         \A i \in Intents :
           /\ intents'[i].paid = intents[i].paid +
                IF t \in Payments /\ txs[t].intent = i THEN txs[t].amount ELSE 0
           /\ intents'[i].refunded = intents[i].refunded +
                IF t \in Refunds /\ txs[t].intent = i THEN txs[t].amount ELSE 0
  PROVE  CreditedExist' /\ TotalsAreSums'
<1>1. Payments \in SUBSET Txs /\ IsFiniteSet(Payments) /\ Refunds \in SUBSET Txs /\ IsFiniteSet(Refunds)
  BY TablesAssumption DEF Txs
<1>2. CreditedExist'
  BY DEF CreditedExist, Grows, TxExists
<1>3. ASSUME NEW i \in Intents
      PROVE  /\ intents'[i].paid = SumOf(txs', CreditedOf(Payments, i)')
             /\ intents'[i].refunded = SumOf(txs', CreditedOf(Refunds, i)')
  <2>1. /\ intents[i].paid = SumOf(txs, CreditedOf(Payments, i))
        /\ intents[i].refunded = SumOf(txs, CreditedOf(Refunds, i))
    BY DEF TotalsAreSums, Total, CreditedOf
  <2>2. txs'[t].amount = txs[t].amount /\ txs'[t].intent = txs[t].intent /\ txs[t].amount \in Nat
    BY TablesAssumption DEF Grows, RowsWellFormed
  <2> QED
    BY <1>1, <2>1, <2>2, CreditedAdds
<1> QED
  BY <1>2, <1>3 DEF TotalsAreSums, Total, CreditedOf

(* The tables start empty.                                                 *)
LEMMA TablesStart == TablesInit => TablesInv
<1> SUFFICES ASSUME TablesInit PROVE TablesInv
  OBVIOUS
<1>1. CreditedExist /\ TotalsAreSums
  <2>1. credited = {} /\ \A i \in Intents : intents[i].paid = 0 /\ intents[i].refunded = 0
    BY DEF TablesInit
  <2>2. \A i \in Intents : /\ {p \in Payments \cap credited : txs[p].intent = i} = {}
                           /\ {r \in Refunds \cap credited : txs[r].intent = i} = {}
    BY <2>1
  <2> QED
    BY <2>1, <2>2, SumEmpty DEF CreditedExist, TotalsAreSums, Total
<1> QED
  BY <1>1, TablesAssumption DEF TablesInit, TablesInv, TablesTypeOK, RowsWellFormed,
     AbsentIsEmpty, AmountsConserved, StatusMatchesTotals, CreditedExactly, IntentRow, TxRow,
     TxExists, Txs

(* A step that leaves the tables alone preserves what is true of them.     *)
LEMMA TablesStutter ==
  ASSUME TablesInv, UNCHANGED tables
  PROVE  TablesInv' /\ Grows /\ Lawful /\ NoRefund
<1>1. TablesInv' /\ Grows /\ NoRefund
  BY DEF tables, TablesInv, TablesTypeOK, RowsWellFormed, AbsentIsEmpty, AmountsConserved,
     StatusMatchesTotals, CreditedExactly, CreditedExist, TotalsAreSums, Total, TxExists, Grows,
     NoRefund
<1>2. Lawful
  BY AccountStutter DEF tables, Lawful, StaysClosed, TxExists
<1> QED
  BY <1>1, <1>2

(* po_intents.create                                                       *)
LEMMA CreateIntentKeeps ==
  ASSUME TablesInv, NEW i \in Intents, NEW due \in Dues, NEW partial \in BOOLEAN,
         CreateIntent(i, due, partial)
  PROVE  TablesInv' /\ Grows /\ Lawful /\ NoRefund
<1> USE DEF CreateIntent, TablesInv
<1>1. due \in Nat /\ due > 0
  BY TablesAssumption
<1>2. TablesTypeOK'
  BY <1>1 DEF TablesTypeOK, IntentRow, IntentStatuses
<1>3. RowsWellFormed' /\ Grows
  BY <1>1 DEF RowsWellFormed, Grows, TxExists, TablesTypeOK, Txs
<1>4. AbsentIsEmpty'
  BY <1>1 DEF AbsentIsEmpty, TablesTypeOK
<1>5. AmountsConserved'
  BY <1>1 DEF AmountsConserved, TablesTypeOK
<1>6. StatusMatchesTotals'
  BY <1>1 DEF StatusMatchesTotals, TablesTypeOK
<1>7. CreditedExactly' /\ NoRefund
  BY DEF CreditedExactly, NoRefund
<1>8. Lawful
  <2>1. /\ intents[i].due = 0
        /\ \A j \in Intents : /\ intents'[j].due = IF j = i THEN due ELSE intents[j].due
                              /\ intents'[j].paid = intents[j].paid
                              /\ intents'[j].refunded = intents[j].refunded
    BY DEF AbsentIsEmpty, TablesTypeOK
  <2>2. Account!Open(i, due)
    BY <2>1 DEF Account!Open
  <2> QED
    BY <2>2 DEF Lawful, StaysClosed, Account!Next, TxExists
<1>9. CreditedExist' /\ TotalsAreSums'
  <2>1. \A j \in Intents : intents'[j].paid = intents[j].paid /\ intents'[j].refunded = intents[j].refunded
    BY DEF AbsentIsEmpty, TablesTypeOK
  <2> QED
    BY <1>3, <2>1, TotalsStay
<1> QED
  BY <1>2, <1>3, <1>4, <1>5, <1>6, <1>7, <1>8, <1>9

(* updateStatus of an intent by the expiry worker.                         *)
LEMMA ExpireIntentKeeps ==
  ASSUME TablesInv, NEW i \in Intents, SetIntentStatus(i, "expired")
  PROVE  TablesInv' /\ Grows /\ Lawful /\ NoRefund
<1> USE DEF SetIntentStatus, TablesInv
<1>1. TablesTypeOK'
  BY DEF TablesTypeOK, IntentRow, IntentStatuses
<1>2. RowsWellFormed' /\ Grows
  BY DEF RowsWellFormed, Grows, TxExists, TablesTypeOK, Txs
<1>3. AbsentIsEmpty' /\ AmountsConserved' /\ StatusMatchesTotals'
  BY DEF AbsentIsEmpty, AmountsConserved, StatusMatchesTotals, TablesTypeOK, IntentRow
<1>4. CreditedExactly' /\ NoRefund
  BY DEF CreditedExactly, NoRefund
<1>5. Lawful
  <2>1. \A j \in Intents : /\ intents'[j].due = intents[j].due
                          /\ intents'[j].paid = intents[j].paid
                          /\ intents'[j].refunded = intents[j].refunded
    BY DEF TablesTypeOK, IntentRow
  <2> QED
    BY <2>1, AccountStutter DEF Lawful, StaysClosed, TxExists
<1>6. CreditedExist' /\ TotalsAreSums'
  <2>1. \A j \in Intents : intents'[j].paid = intents[j].paid /\ intents'[j].refunded = intents[j].refunded
    BY DEF TablesTypeOK, IntentRow
  <2> QED
    BY <1>2, <2>1, TotalsStay
<1> QED
  BY <1>1, <1>2, <1>3, <1>4, <1>5, <1>6

(* Time passing changes no row.                                            *)
LEMMA PassDeadlineKeeps ==
  ASSUME TablesInv, PassDeadline
  PROVE  TablesInv' /\ Grows /\ Lawful /\ NoRefund
<1>1. TablesInv' /\ Grows /\ NoRefund
  BY DEF PassDeadline, TablesInv, TablesTypeOK, RowsWellFormed, AbsentIsEmpty, AmountsConserved,
     StatusMatchesTotals, CreditedExactly, CreditedExist, TotalsAreSums, Total, TxExists, Grows,
     NoRefund
<1>2. Lawful
  BY AccountStutter DEF PassDeadline, Lawful, StaysClosed, TxExists
<1> QED
  BY <1>1, <1>2

(* po_transactions.create                                                  *)
LEMMA InsertTxKeeps ==
  ASSUME TablesInv, NEW t \in Txs, NEW row \in TxRow, InsertTx(t, row),
         row.status \in {"pending", "requires_action", "failed"},
         row.amount \in Amounts, row.intent \in Intents, intents[row.intent].status # "absent"
  PROVE  TablesInv' /\ Grows /\ Lawful /\ NoRefund
<1> USE DEF InsertTx, TablesInv
<1>1. TablesTypeOK'
  BY DEF TablesTypeOK
<1>2. RowsWellFormed' /\ Grows
  BY DEF RowsWellFormed, Grows, TxExists, TablesTypeOK
<1>3. AbsentIsEmpty' /\ AmountsConserved' /\ StatusMatchesTotals'
  BY DEF AbsentIsEmpty, AmountsConserved, StatusMatchesTotals
<1>4. CreditedExactly' /\ NoRefund
  BY DEF CreditedExactly, TxExists, TablesTypeOK, Txs, ConfirmableStatuses, NoRefund
<1>5. Lawful
  BY AccountStutter DEF Lawful, StaysClosed, TxExists, TablesTypeOK, Txs
<1>6. CreditedExist' /\ TotalsAreSums'
  BY <1>2, TotalsStay
<1> QED
  BY <1>1, <1>2, <1>3, <1>4, <1>5, <1>6

(* updateStatus of a transaction: it never says succeeded, and it never    *)
(* opens a payment.                                                        *)
LEMMA SetTxStatusKeeps ==
  ASSUME TablesInv, NEW t \in Txs, NEW status \in TransactionStatuses, SetTxStatus(t, status),
         TxExists(t), status # "succeeded",
         t \in Payments => status \notin ConfirmableStatuses
  PROVE  TablesInv' /\ Grows /\ Lawful /\ NoRefund
<1> USE DEF SetTxStatus, TablesInv
<1>0. status # "absent"
  BY DEF TransactionStatuses
<1>1. TablesTypeOK'
  BY DEF TablesTypeOK, TxRow
<1>2. RowsWellFormed' /\ Grows
  BY <1>0 DEF RowsWellFormed, Grows, TxExists, TablesTypeOK, TxRow
<1>3. AbsentIsEmpty' /\ AmountsConserved' /\ StatusMatchesTotals'
  BY DEF AbsentIsEmpty, AmountsConserved, StatusMatchesTotals
<1>4. CreditedExactly' /\ NoRefund
  BY <1>0 DEF CreditedExactly, TablesTypeOK, TxRow, Txs, NoRefund
<1>5. Lawful
  BY AccountStutter DEF Lawful, StaysClosed, TxExists, TablesTypeOK, TxRow, Txs
<1>6. CreditedExist' /\ TotalsAreSums'
  BY <1>2, TotalsStay
<1> QED
  BY <1>1, <1>2, <1>3, <1>4, <1>5, <1>6

(* Any write that closes a transaction without success and leaves its      *)
(* amount and intent alone, as a void does.                                *)
LEMMA CloseTxKeeps ==
  ASSUME TablesInv, NEW t \in Txs, NEW row \in TxRow,
         txs' = [txs EXCEPT ![t] = row], UNCHANGED <<intents, overdue, credited>>,
         TxExists(t), row.amount = txs[t].amount, row.intent = txs[t].intent,
         row.status \notin ConfirmableStatuses \cup {"absent", "succeeded"}
  PROVE  TablesInv' /\ Grows /\ Lawful /\ NoRefund
<1> USE DEF TablesInv
<1>1. TablesTypeOK'
  BY DEF TablesTypeOK
<1>2. RowsWellFormed' /\ Grows
  BY DEF RowsWellFormed, Grows, TxExists, TablesTypeOK
<1>3. AbsentIsEmpty' /\ AmountsConserved' /\ StatusMatchesTotals'
  BY DEF AbsentIsEmpty, AmountsConserved, StatusMatchesTotals
<1>4. CreditedExactly' /\ NoRefund
  BY DEF CreditedExactly, TablesTypeOK, Txs, NoRefund
<1>5. Lawful
  BY AccountStutter DEF Lawful, StaysClosed, TxExists, TablesTypeOK, Txs
<1>6. CreditedExist' /\ TotalsAreSums'
  BY <1>2, TotalsStay
<1> QED
  BY <1>1, <1>2, <1>3, <1>4, <1>5, <1>6

(* What crediting a payment writes in the intent's row.                    *)
LEMMA PaidRowIs ==
  ASSUME NEW row \in IntentRow, NEW a
  PROVE  /\ PaidRow(row, a).status = ComputeIntentStatus(row.due, row.paid + a)
         /\ PaidRow(row, a).due = row.due
         /\ PaidRow(row, a).paid = row.paid + a
         /\ PaidRow(row, a).refunded = row.refunded
         /\ PaidRow(row, a).remaining = row.remaining - a
         /\ /\ row.paid + a \in Nat /\ row.remaining - a \in Nat
            /\ ComputeIntentStatus(row.due, row.paid + a) \in IntentStatuses
            => PaidRow(row, a) \in IntentRow
  BY DEF PaidRow, IntentRow

(* What crediting a refund writes in the intent's row.                     *)
LEMMA RefundedRowIs ==
  ASSUME NEW row \in IntentRow, NEW a
  PROVE  /\ RefundedRow(row, a).status = StatusAfterRefund(row.status, row.paid, row.refunded + a)
         /\ RefundedRow(row, a).due = row.due
         /\ RefundedRow(row, a).paid = row.paid
         /\ RefundedRow(row, a).refunded = row.refunded + a
         /\ RefundedRow(row, a).remaining = row.remaining
         /\ /\ row.refunded + a \in Nat
            /\ StatusAfterRefund(row.status, row.paid, row.refunded + a) \in IntentStatuses
            => RefundedRow(row, a) \in IntentRow
  BY DEF RefundedRow, IntentRow

(* applySucceededPayment                                                   *)
LEMMA CreditPaymentKeeps ==
  ASSUME TablesInv, NEW p \in Payments, CreditPayment(p)
  PROVE  /\ TablesInv' /\ Grows /\ Lawful /\ NoRefund
         /\ TxExists(p) /\ txs[p].intent \in Intents
         /\ intents'[txs[p].intent].status \in IntentStatuses
<1> DEFINE i == txs[p].intent
           a == txs[p].amount
           row == intents[i]
           status == ComputeIntentStatus(row.due, row.paid + a)
           new == PaidRow(row, a)
<1>0. /\ TablesTypeOK /\ RowsWellFormed /\ AbsentIsEmpty
      /\ AmountsConserved /\ StatusMatchesTotals /\ CreditedExactly
  BY DEF TablesInv
<1>1. /\ p \in Txs /\ txs[p].status \in ConfirmableStatuses /\ row.remaining >= a
      /\ TxExists(p) /\ p \notin credited
  <2>1. p \in Txs
    BY DEF Txs
  <2>2. txs[p].status \in ConfirmableStatuses /\ row.remaining >= a
    BY DEF CreditPayment, PaymentOutcome, ConfirmableStatuses
  <2> QED
    BY <1>0, <2>1, <2>2 DEF TxExists, ConfirmableStatuses, CreditedExactly
<1>2. i \in Intents /\ a \in Amounts /\ row.status # "absent"
  BY <1>0, <1>1 DEF RowsWellFormed
<1>3. /\ txs' = [txs EXCEPT ![p].status = "succeeded"]
      /\ intents' = [intents EXCEPT ![i] = new]
      /\ credited' = credited \cup {p}
      /\ overdue' = overdue
  BY DEF CreditPayment
<1>4. row \in IntentRow
  BY <1>0, <1>2 DEF TablesTypeOK
<1>5. /\ row.paid + row.remaining = row.due /\ row.paid <= row.due /\ row.refunded <= row.paid
  BY <1>0, <1>2 DEF AmountsConserved
<1> HIDE DEF i, a, row
<1>6. /\ row.due \in Nat /\ row.paid \in Nat /\ row.refunded \in Nat /\ row.remaining \in Nat
      /\ a \in Nat /\ a > 0
  BY <1>2, <1>4, TablesAssumption DEF IntentRow
<1>7. status = IF row.paid + a < row.due THEN "partially_paid" ELSE "paid"
  BY <1>1, <1>5, <1>6 DEF ComputeIntentStatus
<1> HIDE DEF status
<1>8. /\ new.status = status /\ new.due = row.due /\ new.paid = row.paid + a
      /\ new.refunded = row.refunded /\ new.remaining = row.remaining - a
  BY <1>4, PaidRowIs DEF status
<1>9. new \in IntentRow
  <2>1. status \in IntentStatuses /\ row.paid + a \in Nat /\ row.remaining - a \in Nat
    BY <1>1, <1>6, <1>7 DEF IntentStatuses
  <2> QED
    BY <1>4, <2>1, PaidRowIs DEF status
<1> HIDE DEF new
<1>10. TablesTypeOK'
  <2>1. txs' \in [Txs -> TxRow]
    BY <1>0, <1>1, <1>3 DEF TablesTypeOK, TxRow, TransactionStatuses
  <2> QED
    BY <1>0, <1>1, <1>2, <1>3, <1>9, <2>1 DEF TablesTypeOK
<1>11. /\ intents'[i] = new
       /\ \A j \in Intents : j # i => intents'[j] = intents[j]
       /\ txs'[p].status = "succeeded"
       /\ txs'[p].amount = txs[p].amount /\ txs'[p].intent = txs[p].intent
       /\ \A t \in Txs : t # p => txs'[t] = txs[t]
  BY <1>0, <1>1, <1>2, <1>3 DEF TablesTypeOK, TxRow
<1>12. Grows
  BY <1>2, <1>7, <1>8, <1>11 DEF Grows, TxExists
<1>13. RowsWellFormed'
  <2> SUFFICES ASSUME NEW t \in Txs, TxExists(t)'
               PROVE  (/\ txs[t].amount \in Amounts
                       /\ txs[t].intent \in Intents
                       /\ intents[txs[t].intent].status # "absent")'
    BY DEF RowsWellFormed
  <2>1. TxExists(t)
    BY <1>1, <1>11 DEF TxExists
  <2> QED
    BY <1>0, <1>12, <2>1 DEF RowsWellFormed, Grows
<1>14. AbsentIsEmpty' /\ AmountsConserved'
  BY <1>0, <1>1, <1>5, <1>6, <1>7, <1>8, <1>11 DEF AbsentIsEmpty, AmountsConserved
<1>15. StatusMatchesTotals'
  BY <1>0, <1>5, <1>6, <1>7, <1>8, <1>11 DEF StatusMatchesTotals
<1>16. CreditedExactly'
  BY <1>0, <1>1, <1>3, <1>11 DEF CreditedExactly, ConfirmableStatuses
<1>17. Lawful
  <2>1. PICK j \in Intents, b \in Amounts : j = i /\ b = a
    BY <1>2
  <2>2. Account!Pay(j, p, b)
    <3>1. /\ intents'[j].paid = intents[j].paid + b
          /\ \A k \in Intents : /\ intents'[k].due = intents[k].due
                                /\ intents'[k].refunded = intents[k].refunded
                                /\ k # j => intents'[k].paid = intents[k].paid
      BY <1>8, <1>11, <2>1 DEF row
    <3>2. intents[j].paid + b <= intents[j].due
      BY <1>1, <1>5, <1>6, <2>1 DEF row
    <3>3. /\ [k \in Intents |-> intents'[k].due] = [k \in Intents |-> intents[k].due]
          /\ [k \in Intents |-> intents'[k].refunded] = [k \in Intents |-> intents[k].refunded]
      BY <3>1
    <3>4. [k \in Intents |-> intents'[k].paid] =
            [[k \in Intents |-> intents[k].paid] EXCEPT ![j] = intents[j].paid + b]
      BY <3>1
    <3> QED
      BY <1>1, <1>3, <3>2, <3>3, <3>4 DEF Account!Pay
  <2>3. Account!Next
    BY <2>2 DEF Account!Next
  <2>4. \A q \in Payments : TxExists(q) /\ txs[q].status \notin ConfirmableStatuses =>
          /\ txs'[q].status \notin ConfirmableStatuses
          /\ q \in credited' => q \in credited
    BY <1>1, <1>3, <1>11 DEF Txs
  <2> QED
    BY <2>3, <2>4 DEF Lawful, StaysClosed
<1>18. NoRefund
  BY <1>3, TablesAssumption DEF NoRefund
<1>19. CreditedExist' /\ TotalsAreSums'
  <2>1. p \notin Refunds
    BY TablesAssumption
  <2>2. \A j \in Intents :
          /\ intents'[j].paid = intents[j].paid +
               IF p \in Payments /\ txs[p].intent = j THEN txs[p].amount ELSE 0
          /\ intents'[j].refunded = intents[j].refunded +
               IF p \in Refunds /\ txs[p].intent = j THEN txs[p].amount ELSE 0
    BY <1>0, <1>2, <1>8, <1>11, <2>1 DEF TablesTypeOK, IntentRow, i, a, row
  <2> QED
    BY <1>0, <1>1, <1>3, <1>12, <2>2, TotalsAdd DEF TablesInv
<1> QED
  BY <1>1, <1>2, <1>7, <1>8, <1>10, <1>11, <1>12, <1>13, <1>14, <1>15, <1>16, <1>17, <1>18, <1>19
     DEF TablesInv, IntentStatuses, i

(* applySucceededRefund                                                    *)
LEMMA CreditRefundKeeps ==
  ASSUME TablesInv, NEW r \in Refunds, CreditRefund(r), TxExists(r), r \notin credited
  PROVE  /\ TablesInv' /\ Grows /\ Lawful
         /\ txs[r].intent \in Intents
         /\ intents'[txs[r].intent].status \in IntentStatuses
<1> DEFINE i == txs[r].intent
           a == txs[r].amount
           row == intents[i]
           status == StatusAfterRefund(row.status, row.paid, row.refunded + a)
           new == RefundedRow(row, a)
<1>0. /\ TablesTypeOK /\ RowsWellFormed /\ AbsentIsEmpty
      /\ AmountsConserved /\ StatusMatchesTotals /\ CreditedExactly
  BY DEF TablesInv
<1>1. r \in Txs /\ r \notin Payments
  BY TablesAssumption DEF Txs
<1>2. i \in Intents /\ a \in Amounts /\ row.status # "absent"
  BY <1>0, <1>1 DEF RowsWellFormed
<1>3. row \in IntentRow
  BY <1>0, <1>2 DEF TablesTypeOK
<1>4. /\ txs' = [txs EXCEPT ![r].status = "succeeded"]
      /\ intents' = [intents EXCEPT ![i] = new]
      /\ credited' = credited \cup {r}
      /\ overdue' = overdue
      /\ row.refunded + a <= row.paid
  BY DEF CreditRefund, RefundFits
<1>5. row.paid + row.remaining = row.due /\ row.paid <= row.due /\ row.refunded <= row.paid
  BY <1>0, <1>2 DEF AmountsConserved
<1> HIDE DEF i, a, row
<1>6. /\ row.due \in Nat /\ row.paid \in Nat /\ row.refunded \in Nat /\ row.remaining \in Nat
      /\ row.status \in IntentStatuses
      /\ a \in Nat /\ a > 0
  BY <1>2, <1>3, TablesAssumption DEF IntentRow
<1>7. status = IF row.refunded + a = row.paid THEN "refunded" ELSE row.status
  BY <1>4, <1>5, <1>6 DEF StatusAfterRefund
<1> HIDE DEF status
<1>8. /\ new.status = status /\ new.due = row.due /\ new.paid = row.paid
      /\ new.refunded = row.refunded + a /\ new.remaining = row.remaining
  BY <1>3, RefundedRowIs DEF status
<1>9. new \in IntentRow
  <2>1. status \in IntentStatuses /\ row.refunded + a \in Nat
    BY <1>6, <1>7 DEF IntentStatuses
  <2> QED
    BY <1>3, <2>1, RefundedRowIs DEF status
<1> HIDE DEF new
<1>10. TablesTypeOK'
  <2>1. txs' \in [Txs -> TxRow]
    BY <1>0, <1>1, <1>4 DEF TablesTypeOK, TxRow, TransactionStatuses
  <2> QED
    BY <1>0, <1>1, <1>2, <1>4, <1>9, <2>1 DEF TablesTypeOK
<1>11. /\ intents'[i] = new
       /\ \A j \in Intents : j # i => intents'[j] = intents[j]
       /\ txs'[r].status = "succeeded"
       /\ txs'[r].amount = txs[r].amount /\ txs'[r].intent = txs[r].intent
       /\ \A t \in Txs : t # r => txs'[t] = txs[t]
  BY <1>0, <1>1, <1>2, <1>4 DEF TablesTypeOK, TxRow
<1>12. Grows
  BY <1>2, <1>7, <1>8, <1>11 DEF Grows, TxExists
<1>13. RowsWellFormed'
  <2> SUFFICES ASSUME NEW t \in Txs, TxExists(t)'
               PROVE  (/\ txs[t].amount \in Amounts
                       /\ txs[t].intent \in Intents
                       /\ intents[txs[t].intent].status # "absent")'
    BY DEF RowsWellFormed
  <2>1. TxExists(t)
    BY <1>1, <1>11 DEF TxExists
  <2> QED
    BY <1>0, <1>12, <2>1 DEF RowsWellFormed, Grows
<1>14. AbsentIsEmpty' /\ AmountsConserved'
  BY <1>0, <1>2, <1>4, <1>5, <1>6, <1>7, <1>8, <1>11 DEF AbsentIsEmpty, AmountsConserved
<1>15. StatusMatchesTotals'
  <2>1. row.status # "expired" =>
          \/ row.status = "requires_payment" /\ row.paid = 0
          \/ row.status = "refunded" /\ row.paid > 0 /\ row.refunded = row.paid
          \/ /\ row.paid > row.refunded
             /\ row.status = IF row.paid < row.due THEN "partially_paid" ELSE "paid"
    BY <1>0, <1>2 DEF StatusMatchesTotals, row
  <2> QED
    BY <1>0, <1>4, <1>5, <1>6, <1>7, <1>8, <1>11, <2>1 DEF StatusMatchesTotals
<1>16. CreditedExactly'
  BY <1>0, <1>1, <1>4, <1>11 DEF CreditedExactly, Txs
<1>17. Lawful
  <2>1. PICK j \in Intents, b \in Amounts : j = i /\ b = a
    BY <1>2
  <2>2. Account!Refund(j, r, b)
    <3>1. /\ intents'[j].refunded = intents[j].refunded + b
          /\ \A k \in Intents : /\ intents'[k].due = intents[k].due
                                /\ intents'[k].paid = intents[k].paid
                                /\ k # j => intents'[k].refunded = intents[k].refunded
      BY <1>8, <1>11, <2>1 DEF row
    <3>2. intents[j].refunded + b <= intents[j].paid
      BY <1>4, <2>1 DEF row
    <3>3. /\ [k \in Intents |-> intents'[k].due] = [k \in Intents |-> intents[k].due]
          /\ [k \in Intents |-> intents'[k].paid] = [k \in Intents |-> intents[k].paid]
      BY <3>1
    <3>4. [k \in Intents |-> intents'[k].refunded] =
            [[k \in Intents |-> intents[k].refunded] EXCEPT ![j] = intents[j].refunded + b]
      BY <3>1
    <3> QED
      BY <1>4, <3>2, <3>3, <3>4 DEF Account!Refund
  <2>3. Account!Next
    BY <2>2 DEF Account!Next
  <2>4. \A q \in Payments : TxExists(q) /\ txs[q].status \notin ConfirmableStatuses =>
          /\ txs'[q].status \notin ConfirmableStatuses
          /\ q \in credited' => q \in credited
    BY <1>1, <1>4, <1>11 DEF Txs
  <2> QED
    BY <2>3, <2>4 DEF Lawful, StaysClosed
<1>18. CreditedExist' /\ TotalsAreSums'
  <2>1. \A j \in Intents :
          /\ intents'[j].paid = intents[j].paid +
               IF r \in Payments /\ txs[r].intent = j THEN txs[r].amount ELSE 0
          /\ intents'[j].refunded = intents[j].refunded +
               IF r \in Refunds /\ txs[r].intent = j THEN txs[r].amount ELSE 0
    BY <1>0, <1>1, <1>2, <1>8, <1>11 DEF TablesTypeOK, IntentRow, i, a, row
  <2> QED
    BY <1>0, <1>1, <1>4, <1>12, <2>1, TotalsAdd DEF TablesInv
<1> QED
  BY <1>1, <1>2, <1>6, <1>7, <1>8, <1>10, <1>11, <1>12, <1>13, <1>14, <1>15, <1>16, <1>17, <1>18
     DEF TablesInv, IntentStatuses, i
=============================================================================
