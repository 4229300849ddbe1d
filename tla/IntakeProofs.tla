---------------------------- MODULE IntakeProofs ----------------------------
(***************************************************************************)
(* How work comes in and is taken up, for any rows, batch, files,          *)
(* directories and channel.  The lookahead buffer implements a queue that  *)
(* claims one due row at a time, and serves a webhook's row next; no       *)
(* change on disk falls between two stages of the watcher, and no debounce *)
(* that is over is without its scan.  Sequences are handled in lemmas, on  *)
(* a cut of the buffer, a refill, and the events before and after one is   *)
(* queued or taken.                                                        *)
(***************************************************************************)
EXTENDS Lookahead, FiniteSetTheorems, SequenceTheorems, TLAPS

(* A cut keeps the rows asked for, each once, in the order of the buffer. *)
LEMMA CutShape ==
    ASSUME NEW b \in Seq(Rows), IsInjective(b), NEW K \in SUBSET Rows, NEW c \in Cut(b, K)
    PROVE  /\ c \in Seq(Rows) /\ Len(c) <= Len(b) /\ IsInjective(c)
           /\ Range(c) = K
           /\ \A i, j \in 1..Len(c) : i < j =>
                 \E k, l \in 1..Len(b) : k < l /\ b[k] = c[i] /\ b[l] = c[j]
<1>1. PICK n \in 0..Len(b) : c \in [1..n -> K]
  BY DEF Cut
<1>2. c \in Seq(Rows) /\ Len(c) = n /\ DOMAIN c = 1..n
  BY <1>1
<1>3. ASSUME NEW i \in 1..n, NEW j \in 1..n, i < j
      PROVE  \E k, l \in 1..Len(b) : k < l /\ b[k] = c[i] /\ b[l] = c[j]
  <2>1. \A p, q \in DOMAIN c : p < q =>
           \E k, l \in DOMAIN b : k < l /\ b[k] = c[p] /\ b[l] = c[q]
    BY DEF Cut
  <2>2. \E k, l \in DOMAIN b : k < l /\ b[k] = c[i] /\ b[l] = c[j]
    <3>1. i \in DOMAIN c /\ j \in DOMAIN c
      BY <1>2
    <3> QED BY <1>3, <2>1, <3>1, Zenon
  <2>3. DOMAIN b = 1..Len(b)
    OBVIOUS
  <2> QED BY <2>2, <2>3
<1>4. ASSUME NEW i \in 1..n, NEW j \in 1..n, i < j PROVE c[i] # c[j]
  <2>1. PICK k, l \in 1..Len(b) : k < l /\ b[k] = c[i] /\ b[l] = c[j]
    BY <1>3, <1>4
  <2> QED BY <2>1 DEF IsInjective
<1>5. IsInjective(c)
  <2> SUFFICES ASSUME NEW i \in 1..n, NEW j \in 1..n, c[i] = c[j] PROVE i = j
    BY <1>2 DEF IsInjective
  <2> QED BY <1>2, <1>4
<1> QED BY <1>1, <1>2, <1>3, <1>5 DEF Cut

(* A draw takes free rows, each once, and no more than there is room for;   *)
(* a low one only after every high one; and some row if any is free.        *)
LEMMA DrawShape ==
    ASSUME TypeOK, NEW c \in Seq(Rows), Len(c) <= BatchSize, NEW s \in Draws(c)
    PROVE  /\ s \in Seq(Free(c)) /\ IsInjective(s)
           /\ Len(c) + Len(s) <= BatchSize
           /\ Len(c) = 0 /\ Free(c) # {} => Len(s) > 0
           /\ \A i \in 1..Len(s), r \in Free(c) :
                 high[r] /\ ~high[s[i]] => \E j \in 1..Len(s) : j < i /\ s[j] = r
<1> DEFINE limit == IF BatchSize > Len(c) THEN BatchSize - Len(c) ELSE 0
           n == IF Cardinality(Free(c)) < limit THEN Cardinality(Free(c)) ELSE limit
<1>1. IsFiniteSet(Free(c)) /\ Cardinality(Free(c)) \in Nat
  BY RowsAssumption, FS_Subset, FS_CardinalityType DEF Free
<1>2. Free(c) # {} => Cardinality(Free(c)) # 0
  BY <1>1, FS_EmptySet
<1>3. limit \in Nat /\ Len(c) + limit <= BatchSize /\ (Len(c) = 0 => limit > 0)
  BY BatchSizeAssumption
<1>4. n \in Nat /\ n <= limit /\ (Len(c) = 0 /\ Free(c) # {} => n > 0)
  BY <1>1, <1>2, <1>3
<1>5. /\ s \in [1..n -> Free(c)]
      /\ \A i, j \in 1..n : i # j => s[i] # s[j]
      /\ \A i \in 1..n, r \in Free(c) : high[r] /\ ~high[s[i]] =>
            \E j \in 1..n : j < i /\ s[j] = r
  BY DEF Draws
<1> HIDE DEF n, limit
<1>6. s \in Seq(Free(c)) /\ Len(s) = n /\ DOMAIN s = 1..n
  BY <1>4, <1>5
<1>7. IsInjective(s)
  BY <1>5, <1>6 DEF IsInjective
<1>8. Len(c) + Len(s) <= BatchSize
  BY <1>3, <1>4, <1>6, BatchSizeAssumption
<1>9. Len(c) = 0 /\ Free(c) # {} => Len(s) > 0
  BY <1>4, <1>6
<1> QED BY <1>5, <1>6, <1>7, <1>8, <1>9

(* Every row of F stands in b before any row a webhook did not ask for. *)
Ahead(b, F) ==
    \A i \in 1..Len(b), f \in F : ~high[b[i]] => \E j \in 1..Len(b) : j < i /\ b[j] = f

(* A cut that drops none of F keeps F ahead. *)
LEMMA CutAhead ==
    ASSUME NEW b \in Seq(Rows), IsInjective(b), NEW K \in SUBSET Range(b), NEW c \in Cut(b, K),
           NEW F \in SUBSET Rows, Ahead(b, F), F \cap Range(b) \subseteq K,
           \A f \in F : high[f]
    PROVE  Ahead(c, F)
<1> SUFFICES ASSUME NEW i \in 1..Len(c), NEW f \in F, ~high[c[i]]
             PROVE  \E j \in 1..Len(c) : j < i /\ c[j] = f
  BY DEF Ahead
<1>1. DOMAIN b = 1..Len(b) /\ Range(b) \subseteq Rows
  BY DEF Range
<1>2. /\ c \in Seq(Rows) /\ Range(c) = K
      /\ \A p, q \in 1..Len(c) : p < q =>
            \E k, l \in 1..Len(b) : k < l /\ b[k] = c[p] /\ b[l] = c[q]
  <2>1. K \in SUBSET Rows
    BY <1>1
  <2> QED BY <2>1, CutShape
<1>3. DOMAIN c = 1..Len(c)
  BY <1>2
<1>4. PICK k \in 1..Len(b) : b[k] = c[i]
  <2>1. c[i] \in Range(b)
    BY <1>2, <1>3 DEF Range
  <2> QED BY <1>1, <2>1 DEF Range
<1>5. PICK j \in 1..Len(b) : j < k /\ b[j] = f
  BY <1>4 DEF Ahead
<1>6. PICK m \in 1..Len(c) : c[m] = f
  <2>1. f \in Range(c)
    BY <1>1, <1>2, <1>5 DEF Range
  <2> QED BY <1>3, <2>1 DEF Range
<1>7. m # i
  BY <1>6
<1>8. ASSUME i < m PROVE FALSE
  <2>1. PICK p, q \in 1..Len(b) : p < q /\ b[p] = c[i] /\ b[q] = c[m]
    BY <1>2, <1>8
  <2>2. p = k /\ q = j
    BY <1>1, <1>4, <1>5, <1>6, <2>1 DEF IsInjective
  <2> QED BY <1>5, <2>1, <2>2
<1>9. m < i
  BY <1>2, <1>7, <1>8
<1> QED BY <1>6, <1>9

-----------------------------------------------------------------------------
(* A row a webhook has asked for, until it is claimed or put off, is due, of *)
(* high priority, and ahead of every scan row in the buffer; a stamp stands *)
(* on no row that is gone or in flight.                                     *)
HookInv ==
    /\ \A f \in fresh : Eligible(f) /\ high[f]
    /\ Ahead(buf, fresh)
    /\ \A i \in 1..Len(buf) : status[buf[i]] \in {"queued", "settled"}

(* The buffer a dequeue claims from: full or with nothing left to draw, all *)
(* of it due, and the webhooks' rows ahead.                                 *)
LEMMA RefillShape ==
    ASSUME TypeOK, NEW b \in Refilled(buf)
    PROVE  /\ b \in Seq(Rows) /\ Len(b) <= BatchSize /\ IsInjective(b)
           /\ \A i \in 1..Len(b) : Eligible(b[i])
           /\ Len(b) = 0 => \A r \in Rows : ~Eligible(r)
           /\ HookInv => Ahead(b, fresh)
<1> DEFINE K == {r \in Range(buf) : Eligible(r)}
<1>0. PICK c \in Cut(buf, K) : \E s \in Draws(c) : b = c \o s
  BY DEF Refilled, ClearStale
<1>1. PICK s \in Draws(c) : b = c \o s
  BY <1>0
<1>2. buf \in Seq(Rows) /\ IsInjective(buf) /\ Len(buf) <= BatchSize
  BY DEF TypeOK
<1>3. K \in SUBSET Range(buf) /\ K \in SUBSET Rows
  BY <1>2 DEF Range
<1> HIDE DEF K
<1>4. c \in Seq(Rows) /\ Len(c) <= Len(buf) /\ IsInjective(c) /\ Range(c) = K
  BY <1>1, <1>2, <1>3, CutShape
<1>5. Len(c) <= BatchSize
  BY <1>2, <1>4, BatchSizeAssumption
<1>6. /\ s \in Seq(Free(c)) /\ IsInjective(s)
      /\ Len(c) + Len(s) <= BatchSize
      /\ Len(c) = 0 /\ Free(c) # {} => Len(s) > 0
      /\ \A i \in 1..Len(s), r \in Free(c) :
            high[r] /\ ~high[s[i]] => \E j \in 1..Len(s) : j < i /\ s[j] = r
  BY <1>1, <1>4, <1>5, DrawShape
<1>7. s \in Seq(Rows)
  BY <1>6 DEF Free
<1>8. /\ b \in Seq(Rows) /\ Len(b) = Len(c) + Len(s)
      /\ \A i \in 1..Len(c) : b[i] = c[i]
      /\ \A i \in 1..Len(s) : b[Len(c) + i] = s[i]
  BY <1>1, <1>4, <1>7
\* a position of b is one of c or one of s
<1>9. ASSUME NEW i \in 1..Len(b)
      PROVE  i \in 1..Len(c) \/ \E j \in 1..Len(s) : i = Len(c) + j
  <2>1. CASE i > Len(c)
    <3>1. i - Len(c) \in 1..Len(s) /\ i = Len(c) + (i - Len(c))
      BY <1>4, <1>7, <1>8, <2>1
    <3> QED BY <3>1
  <2> QED BY <1>4, <2>1
<1>10. \A i \in 1..Len(c) : c[i] \in K
  BY <1>4 DEF Range
<1>11. \A i \in 1..Len(s) : s[i] \in Free(c)
  BY <1>6
<1>12. \A i \in 1..Len(b) : Eligible(b[i])
  BY <1>8, <1>9, <1>10, <1>11 DEF K, Free
<1>13. IsInjective(b)
  <2> SUFFICES ASSUME NEW i \in 1..Len(b), NEW j \in 1..Len(b), b[i] = b[j] PROVE i = j
    BY <1>8 DEF IsInjective
  <2>1. \A p \in 1..Len(c), q \in 1..Len(s) : c[p] # s[q]
    BY <1>4, <1>10, <1>11 DEF Free
  <2>2. \A p, q \in 1..Len(c) : c[p] = c[q] => p = q
    BY <1>4 DEF IsInjective
  <2>3. \A p, q \in 1..Len(s) : s[p] = s[q] => p = q
    BY <1>7, <1>6 DEF IsInjective
  <2> QED BY <1>8, <1>9, <2>1, <2>2, <2>3
<1>14. ASSUME Len(b) = 0, NEW r \in Rows PROVE ~Eligible(r)
  <2>1. Len(c) = 0 /\ Len(s) = 0
    BY <1>4, <1>7, <1>8, <1>14
  <2>2. r \notin Range(c)
    BY <1>4, <2>1 DEF Range
  <2> QED BY <1>6, <2>1, <2>2 DEF Free
<1>15. ASSUME HookInv PROVE Ahead(b, fresh)
  <2> SUFFICES ASSUME NEW i \in 1..Len(b), NEW f \in fresh, ~high[b[i]]
               PROVE  \E j \in 1..Len(b) : j < i /\ b[j] = f
    BY DEF Ahead
  <2>1. fresh \in SUBSET Rows /\ \A g \in fresh : Eligible(g) /\ high[g]
    BY <1>15 DEF TypeOK, HookInv
  <2>2. Ahead(c, fresh)
    <3>1. Ahead(buf, fresh) /\ \A g \in fresh : high[g]
      BY <1>15, <2>1 DEF HookInv
    <3>2. fresh \cap Range(buf) \subseteq K
      BY <2>1 DEF K
    <3> QED BY <1>0, <1>2, <1>3, <2>1, <3>1, <3>2, CutAhead
  <2>3. CASE i \in 1..Len(c)
    <3>1. ~high[c[i]]
      BY <1>8, <2>3
    <3>2. PICK j \in 1..Len(c) : j < i /\ c[j] = f
      BY <2>2, <2>3, <3>1 DEF Ahead
    <3>3. j \in 1..Len(b) /\ b[j] = f
      BY <1>4, <1>7, <1>8, <3>2
    <3> QED BY <3>2, <3>3
  <2>4. ASSUME NEW k \in 1..Len(s), i = Len(c) + k PROVE \E j \in 1..Len(b) : j < i /\ b[j] = f
    <3>1. CASE f \in Range(c)
      <4>1. PICK j \in 1..Len(c) : c[j] = f
        BY <1>4, <3>1 DEF Range
      <4> QED BY <1>4, <1>7, <1>8, <2>4, <4>1
    <3>2. CASE f \notin Range(c)
      <4>1. f \in Free(c)
        BY <2>1, <3>2 DEF Free
      <4>2. ~high[s[k]]
        BY <1>8, <2>4
      <4>3. PICK j \in 1..Len(s) : j < k /\ s[j] = f
        BY <1>6, <2>1, <4>1, <4>2
      <4>4. Len(c) + j \in 1..Len(b) /\ Len(c) + j < i /\ b[Len(c) + j] = f
        BY <1>4, <1>7, <1>8, <2>4, <4>3
      <4> QED BY <4>4
    <3> QED BY <3>1, <3>2
  <2> QED BY <1>9, <2>3, <2>4
<1> QED BY <1>5, <1>6, <1>8, <1>12, <1>13, <1>14, <1>15

(* A dequeue claims the first of the refilled buffer, or there is none. *)
Claimed(b) ==
    /\ Len(b) > 0 /\ b[1] \in Rows /\ Eligible(b[1])
    /\ status' = [status EXCEPT ![b[1]] = "processing"]
    /\ buf' \in Seq(Rows) /\ Len(buf') = Len(b) - 1
    /\ \A i \in 1..Len(buf') : buf'[i] = b[i + 1]
    /\ fresh' = fresh \ {b[1]}
    /\ empty' = FALSE
    /\ UNCHANGED <<due, high>>

Nothing(b) ==
    /\ \A r \in Rows : ~Eligible(r)
    /\ buf' = b /\ empty' = TRUE /\ UNCHANGED <<status, due, high, fresh>>

LEMMA DequeueShape ==
    ASSUME TypeOK, Dequeue
    PROVE  \E b \in Refilled(buf) : Claimed(b) \/ Nothing(b)
<1> DEFINE ready(b) == {i \in 1..Len(b) : Eligible(b[i])}
           first(b) == CHOOSE i \in ready(b) : \A j \in ready(b) : i <= j
<1>1. PICK b \in Refilled(buf) :
         IF ready(b) = {}
         THEN buf' = b /\ empty' = TRUE /\ UNCHANGED <<status, due, high, fresh>>
         ELSE /\ status' = [status EXCEPT ![b[first(b)]] = "processing"]
              /\ buf' = RemoveAt(b, first(b))
              /\ fresh' = fresh \ {b[first(b)]}
              /\ empty' = FALSE
              /\ UNCHANGED <<due, high>>
  BY DEF Dequeue
<1>2. /\ b \in Seq(Rows) /\ \A i \in 1..Len(b) : Eligible(b[i])
      /\ Len(b) = 0 => \A r \in Rows : ~Eligible(r)
  BY RefillShape
<1>3. ready(b) = 1..Len(b)
  BY <1>2
<1>4. CASE Len(b) = 0
  <2>1. ready(b) = {}
    BY <1>3, <1>4
  <2> QED BY <1>1, <1>2, <1>4, <2>1 DEF Nothing
<1>5. CASE Len(b) # 0
  <2>1. Len(b) \in Nat /\ Len(b) > 0 /\ 1 \in ready(b)
    BY <1>2, <1>3, <1>5
  <2>2. first(b) = 1
    <3>1. 1 \in ready(b) /\ \A j \in ready(b) : 1 <= j
      BY <2>1
    <3>2. first(b) \in ready(b) /\ \A j \in ready(b) : first(b) <= j
      BY <3>1
    <3> HIDE DEF first
    <3> QED BY <1>3, <2>1, <3>1, <3>2
  <2> HIDE DEF first
  <2>3. /\ status' = [status EXCEPT ![b[1]] = "processing"]
        /\ buf' = RemoveAt(b, 1)
        /\ fresh' = fresh \ {b[1]} /\ empty' = FALSE /\ UNCHANGED <<due, high>>
    BY <1>1, <2>1, <2>2
  <2>4. b[1] \in Rows /\ Eligible(b[1])
    BY <1>2, <2>1
  <2>5. buf' = SubSeq(b, 1, 0) \o SubSeq(b, 2, Len(b))
    BY <2>3 DEF RemoveAt
  <2>6. /\ SubSeq(b, 1, 0) \in Seq(Rows) /\ Len(SubSeq(b, 1, 0)) = 0
        /\ SubSeq(b, 2, Len(b)) \in Seq(Rows) /\ Len(SubSeq(b, 2, Len(b))) = Len(b) - 1
        /\ \A i \in 1..Len(b) - 1 : SubSeq(b, 2, Len(b))[i] = b[i + 1]
    <3>1. SubSeq(b, 1, 0) \in Seq(Rows) /\ Len(SubSeq(b, 1, 0)) = 0
      <4>1. \A i \in 1..0 : b[i] \in Rows
        OBVIOUS
      <4> QED BY <4>1, SubSeqProperties
    <3>2. SubSeq(b, 2, Len(b)) \in Seq(Rows) /\ Len(SubSeq(b, 2, Len(b))) = Len(b) - 1
      <4>1. Len(b) \in Int /\ \A i \in 2..Len(b) : b[i] \in Rows
        BY <1>2, <2>1
      <4>2. /\ SubSeq(b, 2, Len(b)) \in Seq(Rows)
            /\ Len(SubSeq(b, 2, Len(b))) = IF 2 <= Len(b) THEN Len(b) - 2 + 1 ELSE 0
        BY <4>1, SubSeqProperties
      <4> QED BY <2>1, <4>2
    <3>3. \A i \in 1..Len(b) - 1 : SubSeq(b, 2, Len(b))[i] = b[i + 1]
      BY <1>2, <2>1
    <3> QED BY <3>1, <3>2, <3>3
  <2>7. /\ buf' \in Seq(Rows) /\ Len(buf') = Len(b) - 1
        /\ \A i \in 1..Len(buf') : buf'[i] = b[i + 1]
    BY <2>1, <2>5, <2>6
  <2> QED BY <2>1, <2>3, <2>4, <2>7 DEF Claimed
<1> QED BY <1>4, <1>5

-----------------------------------------------------------------------------
(* Every step keeps the types, and with them the buffer within its batch    *)
(* size and without a row stamped twice.                                    *)
LEMMA TypeStep == TypeOK /\ [Next]_vars => TypeOK'
<1> SUFFICES ASSUME TypeOK, [Next]_vars PROVE TypeOK'
  OBVIOUS
<1> USE DEF TypeOK
<1>1. CASE Dequeue
  <2>1. PICK b \in Refilled(buf) : Claimed(b) \/ Nothing(b)
    BY <1>1, DequeueShape
  <2>2. b \in Seq(Rows) /\ Len(b) <= BatchSize /\ IsInjective(b)
    BY RefillShape
  <2>3. CASE Nothing(b)
    BY <2>2, <2>3 DEF Nothing
  <2>4. CASE Claimed(b)
    <3>1. buf' \in Seq(Rows) /\ Len(buf') <= BatchSize
      BY <2>2, <2>4, BatchSizeAssumption DEF Claimed
    <3>2. IsInjective(buf')
      <4> SUFFICES ASSUME NEW i \in 1..Len(buf'), NEW j \in 1..Len(buf'), buf'[i] = buf'[j]
                   PROVE  i = j
        BY <3>1 DEF IsInjective
      <4>1. /\ i + 1 \in 1..Len(b) /\ j + 1 \in 1..Len(b)
            /\ b[i + 1] = b[j + 1]
        BY <2>2, <2>4 DEF Claimed
      <4>2. i + 1 = j + 1
        BY <2>2, <4>1 DEF IsInjective
      <4> QED BY <4>2
    <3>3. /\ status' \in [Rows -> {"none", "queued", "processing", "settled"}]
          /\ due' \in [Rows -> BOOLEAN] /\ high' \in [Rows -> BOOLEAN]
          /\ fresh' \subseteq Rows /\ empty' \in BOOLEAN
      BY <2>4 DEF Claimed
    <3> QED BY <3>1, <3>2, <3>3
  <2> QED BY <2>1, <2>3, <2>4
<1>2. ASSUME NEW r \in Rows, NEW w \in BOOLEAN, Enqueue(r, w) PROVE TypeOK'
  <2>1. buf' = buf \/ buf' = <<>>
    BY <1>2 DEF Enqueue
  <2>2. <<>> \in Seq(Rows) /\ Len(<<>>) <= BatchSize /\ IsInjective(<<>>)
    BY BatchSizeAssumption DEF IsInjective
  <2>3. buf' \in Seq(Rows) /\ Len(buf') <= BatchSize /\ IsInjective(buf')
    BY <2>1, <2>2
  <2>4. /\ status' \in [Rows -> {"none", "queued", "processing", "settled"}]
        /\ due' \in [Rows -> BOOLEAN] /\ high' \in [Rows -> BOOLEAN]
        /\ fresh' \subseteq Rows /\ empty' \in BOOLEAN
    BY <1>2 DEF Enqueue
  <2> QED BY <2>3, <2>4
<1>3. ASSUME NEW r \in Rows, Settle(r) PROVE TypeOK'
  BY <1>3 DEF Settle
<1>4. ASSUME NEW r \in Rows, Outside(r) PROVE TypeOK'
  <2>1. CASE buf' = buf
    BY <1>4, <2>1 DEF Outside
  <2>2. CASE buf' \in Cut(buf, Range(buf) \ {r})
    <3>1. Range(buf) \ {r} \in SUBSET Rows
      BY DEF Range
    <3>2. buf' \in Seq(Rows) /\ Len(buf') <= Len(buf) /\ IsInjective(buf')
      BY <2>2, <3>1, CutShape
    <3>3. Len(buf') <= BatchSize
      BY <3>2, BatchSizeAssumption
    <3>4. /\ status' \in [Rows -> {"none", "queued", "processing", "settled"}]
          /\ due' \in [Rows -> BOOLEAN] /\ high' \in [Rows -> BOOLEAN]
          /\ fresh' \subseteq Rows /\ empty' \in BOOLEAN
      BY <1>4 DEF Outside
    <3> QED BY <3>2, <3>3, <3>4
  <2> QED BY <1>4, <2>1, <2>2 DEF Outside
<1>5. ASSUME NEW r \in Rows, Reopen(r) \/ TimePasses(r) PROVE TypeOK'
  BY <1>5 DEF Reopen, TimePasses
<1>6. CASE UNCHANGED vars
  BY <1>6 DEF vars
<1> QED BY <1>1, <1>2, <1>3, <1>4, <1>5, <1>6 DEF Next

(* The buffer holds at most BatchSize rows, none of them twice, however     *)
(* dequeues, webhooks, sweeps and operators interleave (refillBuffer).      *)
THEOREM LookaheadTypes == Spec => []TypeOK
<1>1. Init => TypeOK
  <2>1. IsInjective(<<>>)
    BY DEF IsInjective
  <2>2. Init => buf = <<>> /\ buf \in Seq(Rows) /\ Len(buf) <= BatchSize
    BY BatchSizeAssumption DEF Init
  <2> QED BY <2>1, <2>2 DEF Init, TypeOK
<1> QED BY <1>1, TypeStep, PTL DEF Spec

-----------------------------------------------------------------------------
(* Every step of the buffered queue is one of the queue without a buffer. *)
LEMMA ClaimStep == TypeOK /\ [Next]_vars => [Abstract!Next]_(Abstract!vars)
<1> SUFFICES ASSUME TypeOK, [Next]_vars PROVE [Abstract!Next]_(Abstract!vars)
  OBVIOUS
<1>0. /\ status \in [Rows -> {"none", "queued", "processing", "settled"}]
      /\ due \in [Rows -> BOOLEAN]
  BY DEF TypeOK
\* a step that changes one row, to a status it may have
<1>a. ASSUME NEW r \in Rows, NEW s, NEW t \in BOOLEAN,
             s \in {"none", "queued", "settled", status[r]},
             status' = [status EXCEPT ![r] = s], due' = [due EXCEPT ![r] = t], empty' = FALSE
      PROVE  Abstract!Next
  BY <1>a DEF Abstract!Next, Abstract!Change
<1>b. \A r \in Rows : status = [status EXCEPT ![r] = status[r]]
                     /\ due = [due EXCEPT ![r] = due[r]] /\ due[r] \in BOOLEAN
  BY <1>0
<1>1. CASE Dequeue
  <2>1. PICK b \in Refilled(buf) : Claimed(b) \/ Nothing(b)
    BY <1>1, DequeueShape
  <2>2. CASE Nothing(b)
    BY <2>2 DEF Nothing, Eligible, Abstract!Next, Abstract!NothingDue, Abstract!Eligible
  <2>3. CASE Claimed(b)
    BY <2>3 DEF Claimed, Eligible, Abstract!Next, Abstract!Claim, Abstract!Eligible
  <2> QED BY <2>1, <2>2, <2>3
<1>2. ASSUME NEW r \in Rows, NEW w \in BOOLEAN, Enqueue(r, w) PROVE Abstract!Next
  <2> DEFINE s == IF status[r] = "none" THEN "queued" ELSE status[r]
             t == status[r] = "none" \/ due[r] \/ (status[r] = "queued" /\ w)
  <2>1. s \in {"none", "queued", "settled", status[r]} /\ t \in BOOLEAN
    OBVIOUS
  <2>2. status' = [status EXCEPT ![r] = s] /\ due' = [due EXCEPT ![r] = t] /\ empty' = FALSE
    BY <1>2 DEF Enqueue
  <2> QED BY <1>a, <2>1, <2>2
<1>3. ASSUME NEW r \in Rows, Settle(r) PROVE Abstract!Next
  BY <1>3, <1>a, <1>b DEF Settle
<1>4. ASSUME NEW r \in Rows, Outside(r) PROVE Abstract!Next
  BY <1>4, <1>a, <1>b DEF Outside
<1>5. ASSUME NEW r \in Rows, Reopen(r) \/ TimePasses(r) PROVE Abstract!Next
  BY <1>5, <1>a, <1>b DEF Reopen, TimePasses
<1>6. CASE UNCHANGED vars
  BY <1>6 DEF vars, Abstract!vars
<1> QED BY <1>1, <1>2, <1>3, <1>4, <1>5, <1>6 DEF Next

(* The order is all that batching decides: the buffered queue claims only    *)
(* due rows, one at a time, and answers that it is empty only when no row is *)
(* due, whatever stamps there are of rows that stopped being due             *)
(* (dequeueBatched).                                                         *)
THEOREM LookaheadImplements == Spec => ImplementsClaims
<1>1. Init => Abstract!Init
  BY DEF Init, Abstract!Init
<1> QED BY <1>1, ClaimStep, LookaheadTypes, PTL DEF Spec, ImplementsClaims, Abstract!Spec

-----------------------------------------------------------------------------
LEMMA HookStep == TypeOK /\ HookInv /\ [Next]_vars => HookInv'
<1> SUFFICES ASSUME TypeOK, HookInv, [Next]_vars PROVE HookInv'
  OBVIOUS
<1>0. /\ status \in [Rows -> {"none", "queued", "processing", "settled"}]
      /\ due \in [Rows -> BOOLEAN] /\ high \in [Rows -> BOOLEAN]
      /\ buf \in Seq(Rows) /\ IsInjective(buf) /\ fresh \subseteq Rows
  BY DEF TypeOK
<1>1. CASE Dequeue
  <2>1. PICK b \in Refilled(buf) : Claimed(b) \/ Nothing(b)
    BY <1>1, DequeueShape
  <2>2. /\ b \in Seq(Rows) /\ IsInjective(b) /\ Ahead(b, fresh)
        /\ \A i \in 1..Len(b) : Eligible(b[i])
    BY RefillShape
  <2>3. CASE Nothing(b)
    BY <2>2, <2>3 DEF Nothing, HookInv, Ahead, Eligible
  <2>4. CASE Claimed(b)
    <3>1. \A i \in 1..Len(buf') : i + 1 \in 1..Len(b) /\ buf'[i] = b[i + 1] /\ b[i + 1] # b[1]
      BY <2>2, <2>4 DEF Claimed, IsInjective
    <3>2. \A f \in fresh' : Eligible(f)' /\ high'[f]
      BY <1>0, <2>4 DEF Claimed, HookInv, Eligible
    <3>3. ASSUME NEW i \in 1..Len(buf'), NEW f \in fresh', ~high'[buf'[i]]
          PROVE  \E j \in 1..Len(buf') : j < i /\ buf'[j] = f
      <4>1. f \in fresh /\ f # b[1] /\ ~high[b[i + 1]] /\ i + 1 \in 1..Len(b)
        BY <2>4, <3>1, <3>3 DEF Claimed
      <4>2. PICK j \in 1..Len(b) : j < i + 1 /\ b[j] = f
        BY <2>2, <4>1 DEF Ahead
      <4>3. j # 1
        BY <4>1, <4>2
      <4>4. j - 1 \in 1..Len(buf') /\ j - 1 < i /\ buf'[j - 1] = f
        BY <2>2, <2>4, <4>2, <4>3 DEF Claimed
      <4> QED BY <4>4
    <3>4. \A i \in 1..Len(buf') : status'[buf'[i]] \in {"queued", "settled"}
      BY <1>0, <2>2, <2>4, <3>1 DEF Claimed, Eligible
    <3> QED BY <3>2, <3>3, <3>4 DEF HookInv, Ahead
  <2> QED BY <2>1, <2>3, <2>4
<1>2. ASSUME NEW r \in Rows, NEW w \in BOOLEAN, Enqueue(r, w) PROVE HookInv'
  <2>1. CASE w
    <3>1. buf' = <<>> /\ Len(buf') = 0
      BY <1>2, <2>1 DEF Enqueue
    <3>2. \A f \in fresh' : Eligible(f)' /\ high'[f]
      BY <1>0, <1>2, <2>1 DEF Enqueue, HookInv, Eligible
    <3> QED BY <3>1, <3>2 DEF HookInv, Ahead
  <2>2. CASE ~w
    BY <1>0, <1>2, <2>2 DEF Enqueue, HookInv, Ahead, Eligible
  <2> QED BY <2>1, <2>2
<1>3. ASSUME NEW r \in Rows, Settle(r) PROVE HookInv'
  BY <1>0, <1>3 DEF Settle, HookInv, Ahead, Eligible
<1>4. ASSUME NEW r \in Rows, Outside(r) PROVE HookInv'
  <2>1. fresh' = fresh \ {r} /\ high' = high
    BY <1>4 DEF Outside
  <2>2. \A f \in fresh' : Eligible(f)' /\ high'[f]
    BY <1>0, <1>4 DEF Outside, HookInv, Eligible
  <2>3. CASE buf' = buf /\ status'[r] \in {"queued", "settled"}
    BY <1>0, <1>4, <2>1, <2>2, <2>3 DEF Outside, HookInv, Ahead
  <2>4. CASE buf' \in Cut(buf, Range(buf) \ {r})
    <3>1. Range(buf) \ {r} \in SUBSET Range(buf) /\ Range(buf) \subseteq Rows
      BY <1>0 DEF Range
    <3>2. /\ Ahead(buf, fresh') /\ fresh' \in SUBSET Rows /\ \A f \in fresh' : high[f]
          /\ fresh' \cap Range(buf) \subseteq Range(buf) \ {r}
      BY <1>0, <2>1 DEF HookInv, Ahead
    <3>3. Ahead(buf', fresh')
      BY <1>0, <2>4, <3>1, <3>2, CutAhead
    <3>4. buf' \in Seq(Rows) /\ Range(buf') = Range(buf) \ {r}
      BY <1>0, <2>4, <3>1, CutShape
    <3>5. \A i \in 1..Len(buf') : status'[buf'[i]] \in {"queued", "settled"}
      <4> SUFFICES ASSUME NEW i \in 1..Len(buf') PROVE status'[buf'[i]] \in {"queued", "settled"}
        OBVIOUS
      <4>d. DOMAIN buf' = 1..Len(buf')
        BY <3>4
      <4>r. buf'[i] \in Range(buf')
        BY <4>d DEF Range
      <4>1. buf'[i] \in Range(buf) \ {r}
        BY <3>4, <4>r
      <4>2. PICK j \in 1..Len(buf) : buf[j] = buf'[i]
        BY <1>0, <4>1 DEF Range
      <4>3. status'[buf[j]] = status[buf[j]]
        BY <1>0, <1>4, <4>1, <4>2 DEF Outside
      <4> QED BY <4>2, <4>3 DEF HookInv
    <3> QED BY <2>1, <2>2, <3>3, <3>5 DEF HookInv, Ahead
  <2> QED BY <1>0, <1>4, <2>3, <2>4 DEF Outside
<1>5. ASSUME NEW r \in Rows, Reopen(r) \/ TimePasses(r) PROVE HookInv'
  BY <1>0, <1>5 DEF Reopen, TimePasses, HookInv, Ahead, Eligible
<1>6. CASE UNCHANGED vars
  BY <1>6 DEF vars, HookInv, Ahead, Eligible
<1> QED BY <1>1, <1>2, <1>3, <1>4, <1>5, <1>6 DEF Next

(* A row a webhook has just asked for is claimed before any scan row,        *)
(* however full of scan rows the buffer was (Enqueue's buffer invalidation). *)
THEOREM LookaheadServesWebhook == Spec => WebhookServedNext
<1>1. Init => HookInv
  BY DEF Init, HookInv, Ahead
<1>2. ASSUME TypeOK, HookInv, [Next]_vars, NEW r \in Rows,
             status[r] = "queued", status'[r] = "processing", ~high[r], NEW f \in fresh
      PROVE  FALSE
  <2>1. Dequeue
    BY <1>2 DEF Next, vars, TypeOK, Enqueue, Settle, Outside, Reopen, TimePasses
  <2>2. PICK b \in Refilled(buf) : Claimed(b) \/ Nothing(b)
    BY <1>2, <2>1, DequeueShape
  <2>3. Claimed(b) /\ r = b[1]
    BY <1>2, <2>2 DEF Claimed, Nothing, TypeOK
  <2>4. Ahead(b, fresh) /\ b \in Seq(Rows)
    BY <1>2, RefillShape
  <2>5. \E j \in 1..Len(b) : j < 1 /\ b[j] = f
    BY <1>2, <2>3, <2>4 DEF Claimed, Ahead
  <2> QED BY <2>5
<1>3. TypeOK /\ HookInv /\ [Next]_vars
         => [\A r \in Rows : status[r] = "queued" /\ status'[r] = "processing" /\ ~high[r] =>
                \A f \in fresh : ~Eligible(f)]_vars
  BY <1>2
<1> QED BY <1>1, <1>3, HookStep, LookaheadTypes, PTL DEF Spec, WebhookServedNext

-----------------------------------------------------------------------------
(* The watcher. *)

CONSTANTS Paths, Dirs, DirOf, EventBuffer, MaxChanges

VARIABLES exists, seen, recorded, chan, hand, timer, orphan, fired, scanning,
          missed, changes

Wa == INSTANCE Watch

(* An unseen file that is there is on its way at some stage, and one that   *)
(* is gone has its Remove or Rename still queued, the only event that       *)
(* prunes it.                                                               *)
Events == [path : Paths, gone : BOOLEAN]
Queued(p) == \E i \in 1..Len(chan) : chan[i].path = p
QueuedGone(p) == \E i \in 1..Len(chan) : chan[i].path = p /\ chan[i].gone
Owed(p) == hand = <<DirOf[p]>> \/ timer[DirOf[p]] # "none"
OnItsWay(p) == IF exists[p] THEN Queued(p) \/ Owed(p) ELSE QueuedGone(p)
WatchInv ==
    /\ exists \in [Paths -> BOOLEAN] /\ seen \in [Paths -> BOOLEAN] /\ chan \in Seq(Events)
    /\ timer \in [Dirs -> {"none", "running", "fired"}]
    /\ hand \in {<<>>} \cup {<<d>> : d \in Dirs}
    /\ \A p \in Paths : seen[p] \/ p \in missed \/ OnItsWay(p)

(* A debounce that is over has its scan queued: an entry whose timer has    *)
(* gone off leads to a scan, even when an event has reset it meanwhile.     *)
FiredIsQueued ==
    \A d \in Dirs : timer[d] = "fired" => \E i \in 1..Len(fired) : fired[i] = d

(* A queued event is delivered or stays queued. *)
LEMMA Delivered ==
    ASSUME NEW s \in Seq(Events), NEW p, s # <<>>
    PROVE  /\ Head(s) \in Events /\ Tail(s) \in Seq(Events)
           /\ \A i \in 1..Len(s) :
                 s[i] = Head(s) \/ \E j \in 1..Len(Tail(s)) : Tail(s)[j] = s[i]
<1>1. Head(s) \in Events /\ Tail(s) \in Seq(Events)
  OBVIOUS
<1>2. ASSUME NEW i \in 1..Len(s), i # 1
      PROVE  i - 1 \in 1..Len(Tail(s)) /\ Tail(s)[i - 1] = s[i]
  BY <1>2
<1>3. \A i \in 1..Len(s) : i = 1 => s[i] = Head(s)
  OBVIOUS
<1> QED BY <1>1, <1>2, <1>3

(* One appended joins those queued before it. *)
LEMMA Appended ==
    ASSUME NEW s \in Seq(Events), NEW e \in Events
    PROVE  /\ Append(s, e) \in Seq(Events)
           /\ \A i \in 1..Len(s) : i \in 1..Len(Append(s, e)) /\ Append(s, e)[i] = s[i]
           /\ Len(s) + 1 \in 1..Len(Append(s, e)) /\ Append(s, e)[Len(s) + 1] = e
OBVIOUS

(* What a notification adds to the queue, or marks as missed. *)
LEMMA Notified ==
    ASSUME WatchInv, NEW p \in Paths, NEW gone \in BOOLEAN, Wa!Notify(p, gone)
    PROVE  /\ chan' \in Seq(Events)
           /\ \A q \in Paths : (Queued(q) => Queued(q)') /\ (QueuedGone(q) => QueuedGone(q)')
                               /\ (q \in missed => q \in missed')
           /\ p \in missed' \/ (Queued(p)' /\ (gone => QueuedGone(p)'))
<1>1. chan \in Seq(Events) /\ [path |-> p, gone |-> gone] \in Events
  BY DEF WatchInv, Events
<1>2. CASE chan' = chan /\ missed' = missed \cup {p}
  BY <1>1, <1>2 DEF Queued, QueuedGone
<1>3. CASE chan' = Append(chan, [path |-> p, gone |-> gone]) /\ missed' = missed
  <2> DEFINE e == [path |-> p, gone |-> gone]
  <2>1. e \in Events /\ e.path = p /\ e.gone = gone /\ chan' = Append(chan, e)
    BY <1>1, <1>3
  <2> HIDE DEF e
  <2>2. /\ chan' \in Seq(Events)
        /\ \A i \in 1..Len(chan) : i \in 1..Len(chan') /\ chan'[i] = chan[i]
        /\ Len(chan) + 1 \in 1..Len(chan') /\ chan'[Len(chan) + 1] = e
    BY <1>1, <2>1, Appended
  <2>3. \A q \in Paths : (Queued(q) => Queued(q)') /\ (QueuedGone(q) => QueuedGone(q)')
    BY <2>2 DEF Queued, QueuedGone
  <2>4. Queued(p)' /\ (gone => QueuedGone(p)')
    BY <2>1, <2>2 DEF Queued, QueuedGone
  <2> QED BY <1>3, <2>2, <2>3, <2>4
<1> QED BY <1>2, <1>3 DEF Wa!Notify

LEMMA ChangesKeep ==
    ASSUME WatchInv, NEW p \in Paths, Wa!External(p) \/ Wa!SelfWrite(p) PROVE WatchInv'
<1>1. CASE Wa!External(p)
  <2>1. PICK there \in BOOLEAN : exists' = [exists EXCEPT ![p] = there] /\ Wa!Notify(p, ~there)
    BY <1>1 DEF Wa!External
  <2>2. seen' = [seen EXCEPT ![p] = FALSE] /\ hand' = hand /\ timer' = timer
    BY <1>1 DEF Wa!External
  <2>3. /\ chan' \in Seq(Events)
        /\ \A q \in Paths : (Queued(q) => Queued(q)') /\ (QueuedGone(q) => QueuedGone(q)')
                            /\ (q \in missed => q \in missed')
        /\ p \in missed' \/ (Queued(p)' /\ (~there => QueuedGone(p)'))
    BY <2>1, Notified
  <2>4. exists' \in [Paths -> BOOLEAN] /\ seen' \in [Paths -> BOOLEAN]
    BY <2>1, <2>2 DEF WatchInv
  <2>5. ASSUME NEW q \in Paths PROVE seen'[q] \/ q \in missed' \/ OnItsWay(q)'
    <3>1. CASE q = p
      <4>1. exists'[p] = there
        BY <2>1 DEF WatchInv
      <4> QED BY <2>3, <3>1, <4>1 DEF OnItsWay
    <3>2. CASE q # p
      <4>1. exists'[q] = exists[q] /\ seen'[q] = seen[q]
        BY <2>1, <2>2, <3>2 DEF WatchInv
      <4> QED BY <2>2, <2>3, <4>1 DEF OnItsWay, Owed, WatchInv
    <3> QED BY <3>1, <3>2
  <2> QED BY <2>2, <2>3, <2>4, <2>5 DEF WatchInv
<1>2. CASE Wa!SelfWrite(p)
  <2>1. /\ exists' = [exists EXCEPT ![p] = TRUE] /\ Wa!Notify(p, FALSE)
        /\ seen' = seen /\ hand' = hand /\ timer' = timer
    BY <1>2 DEF Wa!SelfWrite
  <2>2. /\ chan' \in Seq(Events)
        /\ \A q \in Paths : (Queued(q) => Queued(q)') /\ (QueuedGone(q) => QueuedGone(q)')
                            /\ (q \in missed => q \in missed')
        /\ p \in missed' \/ Queued(p)'
    BY <2>1, Notified
  <2>3. exists' \in [Paths -> BOOLEAN]
    BY <2>1 DEF WatchInv
  <2>4. ASSUME NEW q \in Paths PROVE seen'[q] \/ q \in missed' \/ OnItsWay(q)'
    <3>1. CASE q = p
      <4>1. exists'[p] = TRUE
        BY <2>1 DEF WatchInv
      <4> QED BY <2>2, <3>1, <4>1 DEF OnItsWay
    <3>2. CASE q # p
      <4>1. exists'[q] = exists[q]
        BY <2>1, <3>2 DEF WatchInv
      <4> QED BY <2>1, <2>2, <4>1 DEF OnItsWay, Owed, WatchInv
    <3> QED BY <3>1, <3>2
  <2> QED BY <2>1, <2>2, <2>3, <2>4 DEF WatchInv
<1> QED BY <1>1, <1>2

LEMMA translateKeeps ==
    ASSUME DirOf \in [Paths -> Dirs], WatchInv, Wa!translate PROVE WatchInv'
<1> DEFINE ev == Head(chan)
<1>1. chan \in Seq(Events) /\ chan # <<>> /\ hand = <<>> /\ chan' = Tail(chan)
  BY DEF WatchInv, Wa!translate
<1>2. /\ ev \in Events /\ chan' \in Seq(Events)
      /\ \A i \in 1..Len(chan) : chan[i] = ev \/ \E j \in 1..Len(chan') : chan'[j] = chan[i]
  BY <1>1, Delivered
<1>3. ev.path \in Paths /\ DirOf[ev.path] \in Dirs
  BY <1>2 DEF Events
<1>4. /\ exists' = exists /\ timer' = timer
      /\ \/ hand' = hand /\ seen' = seen /\ missed' = (IF seen[ev.path] THEN missed ELSE missed \cup {ev.path})
         \/ hand' = <<DirOf[ev.path]>> /\ missed' = missed
               /\ seen' = (IF Wa!Pruned(ev) THEN [seen EXCEPT ![ev.path] = TRUE] ELSE seen)
         \/ hand' = <<DirOf[ev.path]>> /\ Wa!Pruned(ev) /\ missed' = missed \cup {ev.path} /\ seen' = seen
  BY DEF Wa!translate
<1> HIDE DEF ev
<1>5. hand' \in {<<>>} \cup {<<d>> : d \in Dirs} /\ seen' \in [Paths -> BOOLEAN]
  BY <1>1, <1>3, <1>4 DEF WatchInv
<1>6. ASSUME NEW q \in Paths PROVE seen'[q] \/ q \in missed' \/ OnItsWay(q)'
  <2>1. \A r \in Paths : (seen[r] => seen'[r]) /\ (r \in missed => r \in missed')
    BY <1>3, <1>4 DEF WatchInv
  <2>2. Queued(q) => Queued(q)' \/ ev.path = q
    BY <1>2 DEF Queued
  <2>3. QueuedGone(q) => QueuedGone(q)' \/ (ev.path = q /\ ev.gone)
    BY <1>2 DEF QueuedGone
  <2>4. ev.path = q => seen'[q] \/ q \in missed' \/ hand' = <<DirOf[q]>>
    BY <1>4
  <2>5. ev.path = q /\ ev.gone /\ ~exists[q] => seen'[q] \/ q \in missed'
    BY <1>3, <1>4 DEF Wa!Pruned, WatchInv
  <2>6. timer' = timer /\ exists' = exists /\ hand # <<DirOf[q]>>
    BY <1>1, <1>4
  <2> QED BY <2>1, <2>2, <2>3, <2>4, <2>5, <2>6 DEF WatchInv, OnItsWay, Owed
<1> QED BY <1>2, <1>4, <1>5, <1>6 DEF WatchInv

LEMMA scanStartKeeps == ASSUME WatchInv, Wa!scanStart PROVE WatchInv'
<1> DEFINE d == Head(fired)
           found == {p \in Paths : DirOf[p] = d /\ exists[p]}
<1>1. exists' = exists /\ chan' = chan /\ hand' = hand
  BY DEF Wa!scanStart
<1>2. CASE UNCHANGED <<timer, seen, missed>>
  BY <1>1, <1>2 DEF WatchInv, OnItsWay, Queued, QueuedGone, Owed
<1>3. CASE /\ timer' = [timer EXCEPT ![d] = "none"]
           /\ \/ seen' = [p \in Paths |-> seen[p] \/ p \in found] /\ missed' = missed \ found
              \/ missed' = missed \cup found /\ seen' = seen
  <2>1. timer' \in [Dirs -> {"none", "running", "fired"}] /\ seen' \in [Paths -> BOOLEAN]
    BY <1>3 DEF WatchInv
  <2>2. ASSUME NEW q \in Paths PROVE seen'[q] \/ q \in missed' \/ OnItsWay(q)'
    <3>1. CASE q \in found
      BY <1>3, <3>1
    <3>2. CASE q \notin found
      <4>1. (seen[q] => seen'[q]) /\ (q \in missed => q \in missed')
        BY <1>3, <3>2
      <4>2. exists[q] => DirOf[q] # d
        BY <3>2
      <4>3. exists[q] /\ timer[DirOf[q]] # "none" => timer'[DirOf[q]] # "none"
        BY <1>3, <4>2 DEF WatchInv
      <4> QED BY <1>1, <4>1, <4>3 DEF WatchInv, OnItsWay, Queued, QueuedGone, Owed
    <3> QED BY <3>1, <3>2
  <2> QED BY <1>1, <2>1, <2>2 DEF WatchInv
<1> QED BY <1>2, <1>3 DEF Wa!scanStart

LEMMA WatchStep == ASSUME DirOf \in [Paths -> Dirs], WatchInv, [Wa!Next]_(Wa!vars) PROVE WatchInv'
<1>1. ASSUME NEW p \in Paths, Wa!External(p) \/ Wa!SelfWrite(p) PROVE WatchInv'
  BY <1>1, ChangesKeep
<1>2. CASE Wa!translate
  BY <1>2, translateKeeps
<1>3. CASE Wa!arm
  <2>1. /\ hand # <<>> /\ timer' = [timer EXCEPT ![hand[1]] = "running"] /\ hand' = <<>>
        /\ exists' = exists /\ seen' = seen /\ chan' = chan /\ missed' = missed
    BY <1>3 DEF Wa!arm
  <2>2. PICK d \in Dirs : hand = <<d>>
    BY <2>1 DEF WatchInv
  <2>3. /\ timer' \in [Dirs -> {"none", "running", "fired"}] /\ timer'[d] = "running"
        /\ \A e \in Dirs : timer[e] # "none" => timer'[e] # "none"
    BY <2>1, <2>2 DEF WatchInv
  <2>4. ASSUME NEW q \in Paths, Owed(q) PROVE Owed(q)'
    <3>1. DirOf[q] \in Dirs
      OBVIOUS
    <3>2. hand = <<DirOf[q]>> => DirOf[q] = d
      BY <2>2
    <3> QED BY <2>3, <2>4, <3>1, <3>2 DEF Owed
  <2> QED BY <2>1, <2>3, <2>4 DEF WatchInv, OnItsWay, Queued, QueuedGone
<1>4. ASSUME NEW d \in Dirs, Wa!TimerFires(d) PROVE WatchInv'
  <2>1. /\ timer' \in [Dirs -> {"none", "running", "fired"}]
        /\ \A e \in Dirs : timer[e] # "none" => timer'[e] # "none"
    BY <1>4 DEF WatchInv, Wa!TimerFires
  <2>2. exists' = exists /\ seen' = seen /\ chan' = chan /\ missed' = missed /\ hand' = hand
    BY <1>4 DEF Wa!TimerFires
  <2>3. ASSUME NEW q \in Paths, Owed(q) PROVE Owed(q)'
    BY <2>1, <2>2, <2>3 DEF Owed
  <2> QED BY <2>1, <2>2, <2>3 DEF WatchInv, OnItsWay, Queued, QueuedGone
<1>5. CASE Wa!scanStart
  BY <1>5, scanStartKeeps
<1>6. CASE Wa!RunOnce
  <2>1. /\ seen' = [p \in Paths |-> seen[p] \/ exists[p]] /\ missed' = {p \in missed : ~exists[p]}
        /\ exists' = exists /\ chan' = chan /\ timer' = timer /\ hand' = hand
    BY <1>6 DEF Wa!RunOnce
  <2>2. seen' \in [Paths -> BOOLEAN]
    BY <2>1 DEF WatchInv
  <2>3. ASSUME NEW q \in Paths PROVE seen'[q] \/ q \in missed' \/ OnItsWay(q)'
    BY <2>1 DEF WatchInv, OnItsWay, Queued, QueuedGone, Owed
  <2> QED BY <2>1, <2>2, <2>3 DEF WatchInv
<1>7. CASE UNCHANGED <<exists, seen, chan, hand, timer, missed>>
  BY <1>7 DEF WatchInv, OnItsWay, Queued, QueuedGone, Owed
<1>8. Wa!scanEnd \/ (\E p \in Paths : Wa!Expire(p)) \/ UNCHANGED Wa!vars
        => UNCHANGED <<exists, seen, chan, hand, timer, missed>>
  BY DEF Wa!scanEnd, Wa!Expire, Wa!vars
<1> QED BY <1>1, <1>2, <1>3, <1>4, <1>5, <1>6, <1>7, <1>8 DEF Wa!Next, Wa!Watcher

(* No change is forgotten between notify's channel and the scan, whatever  *)
(* overflows, fails or is suppressed on the way, for any files, directories *)
(* and channel (NothingForgotten).                                          *)
THEOREM NothingIsForgotten ==
    ASSUME DirOf \in [Paths -> Dirs] PROVE Wa!Spec => []Wa!NothingForgotten
<1>1. Wa!Init => WatchInv
  BY DEF Wa!Init, WatchInv
<1>2. WatchInv /\ [Wa!Next]_(Wa!vars) => WatchInv'
  BY WatchStep
<1>3. WatchInv => Wa!NothingForgotten
  BY DEF WatchInv, Wa!NothingForgotten, OnItsWay, Queued, QueuedGone, Owed
<1> QED BY <1>1, <1>2, <1>3, PTL DEF Wa!Spec

(* A fired debounce is scanned: its directory stays queued for dispatch     *)
(* until the scan that deletes its entry (watcher.go's fired channel).      *)
THEOREM FiredScansAreQueued == Wa!Spec => []FiredIsQueued
<1> DEFINE J == /\ timer \in [Dirs -> {"none", "running", "fired"}] /\ fired \in Seq(Dirs)
                /\ FiredIsQueued
<1>1. Wa!Init => J
  BY DEF Wa!Init, FiredIsQueued
<1>2. ASSUME J, [Wa!Next]_(Wa!vars) PROVE J'
  <2>1. CASE Wa!arm
    <3>1. fired' = fired /\ timer' = [timer EXCEPT ![hand[1]] = "running"]
      BY <2>1 DEF Wa!arm
    <3> QED BY <1>2, <3>1 DEF FiredIsQueued
  <2>2. ASSUME NEW d \in Dirs, Wa!TimerFires(d) PROVE J'
    <3>1. fired' = Append(fired, d) /\ \A e \in Dirs : e # d => timer'[e] = timer[e]
      BY <1>2, <2>2 DEF Wa!TimerFires
    <3>2. timer' \in [Dirs -> {"none", "running", "fired"}]
      BY <1>2, <2>2 DEF Wa!TimerFires
    <3>3. /\ fired' \in Seq(Dirs) /\ Len(fired) + 1 \in 1..Len(fired') /\ fired'[Len(fired) + 1] = d
          /\ \A i \in 1..Len(fired) : i \in 1..Len(fired') /\ fired'[i] = fired[i]
      BY <1>2, <3>1
    <3> QED BY <1>2, <3>1, <3>2, <3>3 DEF FiredIsQueued
  <2>3. CASE Wa!scanStart
    <3> DEFINE d == Head(fired)
    <3>1. /\ fired # <<>> /\ fired' = Tail(fired)
          /\ \/ timer' = timer /\ timer[d] = "none"
             \/ timer' = [timer EXCEPT ![d] = "none"]
      BY <2>3 DEF Wa!scanStart
    <3>2. \A e \in Dirs : timer'[e] = "fired" => e # d /\ timer[e] = "fired"
      BY <1>2, <3>1
    <3>3. /\ timer' \in [Dirs -> {"none", "running", "fired"}] /\ fired' \in Seq(Dirs)
      BY <1>2, <3>1
    <3>4. \A i \in 1..Len(fired) : fired[i] = d \/ \E j \in 1..Len(fired') : fired'[j] = fired[i]
      <4>1. ASSUME NEW i \in 1..Len(fired), i # 1 PROVE i - 1 \in 1..Len(fired') /\ fired'[i - 1] = fired[i]
        BY <1>2, <3>1, <4>1
      <4>2. \A i \in 1..Len(fired) : i = 1 => fired[i] = d
        OBVIOUS
      <4> QED BY <4>1, <4>2
    <3> QED BY <1>2, <3>2, <3>3, <3>4 DEF FiredIsQueued
  <2>4. CASE UNCHANGED <<timer, fired>>
    BY <1>2, <2>4 DEF FiredIsQueued
  <2>5. ASSUME \/ Wa!translate \/ Wa!scanEnd \/ Wa!RunOnce \/ UNCHANGED Wa!vars
               \/ \E p \in Paths : Wa!External(p) \/ Wa!SelfWrite(p) \/ Wa!Expire(p)
        PROVE  UNCHANGED <<timer, fired>>
    BY <2>5 DEF Wa!translate, Wa!scanEnd, Wa!RunOnce, Wa!External, Wa!SelfWrite, Wa!Expire, Wa!vars
  <2> QED BY <1>2, <2>1, <2>2, <2>3, <2>4, <2>5 DEF Wa!Next, Wa!Watcher
<1>3. J => FiredIsQueued
  OBVIOUS
<1> QED BY <1>1, <1>2, <1>3, PTL DEF Wa!Spec

(* The pipeline keeps its shape: the channel never outgrows its capacity    *)
(* and translate hands over one event at a time, for any files,             *)
(* directories and channel capacity (watcher.go's channels).                *)
THEOREM WatchTypesHold ==
    ASSUME DirOf \in [Paths -> Dirs], EventBuffer \in Nat PROVE Wa!Spec => []Wa!TypeOK
<1> DEFINE J == /\ WatchInv /\ Len(chan) <= EventBuffer
                /\ recorded \subseteq Paths /\ missed \subseteq Paths
<1>1. Wa!Init => J
  BY DEF Wa!Init, WatchInv
<1>2. ASSUME J, [Wa!Next]_(Wa!vars) PROVE J'
  <2>1. WatchInv' /\ chan \in Seq(Events) /\ Len(chan) \in Nat
    BY <1>2, WatchStep DEF WatchInv
  <2>2. ASSUME NEW p \in Paths, Wa!External(p) \/ Wa!SelfWrite(p) PROVE J'
    <3>1. PICK gone \in BOOLEAN : Wa!Notify(p, gone)
      BY <2>2 DEF Wa!External, Wa!SelfWrite
    <3>2. \A e : Len(Append(chan, e)) = Len(chan) + 1
      BY <2>1
    <3>3. Len(chan') <= EventBuffer /\ missed' \subseteq Paths
      BY <1>2, <2>1, <3>1, <3>2 DEF Wa!Notify
    <3>4. recorded' \subseteq Paths
      BY <1>2, <2>2 DEF Wa!External, Wa!SelfWrite
    <3> QED BY <2>1, <3>3, <3>4
  <2>3. CASE Wa!translate
    <3>1. chan # <<>> /\ chan' = Tail(chan) /\ recorded' = recorded
      BY <2>3 DEF Wa!translate
    <3>2. Len(chan') <= Len(chan) /\ Len(chan') \in Nat /\ Head(chan) \in Events
      BY <2>1, <3>1
    <3>3. missed' \subseteq missed \cup {Head(chan).path}
      BY <2>3 DEF Wa!translate
    <3>4. Head(chan).path \in Paths
      BY <3>2 DEF Events
    <3> QED BY <1>2, <2>1, <3>1, <3>2, <3>3, <3>4
  <2>4. CASE Wa!scanStart
    <3>1. UNCHANGED <<chan, recorded>> /\ missed' \subseteq Paths
      BY <1>2, <2>4 DEF Wa!scanStart
    <3> QED BY <1>2, <2>1, <3>1
  <2>5. ASSUME \/ Wa!arm \/ Wa!scanEnd \/ Wa!RunOnce \/ UNCHANGED Wa!vars
               \/ \E d \in Dirs : Wa!TimerFires(d)
               \/ \E p \in Paths : Wa!Expire(p)
        PROVE  chan' = chan /\ recorded' \subseteq recorded /\ missed' \subseteq missed
    BY <2>5 DEF Wa!arm, Wa!scanEnd, Wa!RunOnce, Wa!TimerFires, Wa!Expire, Wa!vars
  <2> QED BY <1>2, <2>1, <2>2, <2>3, <2>4, <2>5 DEF Wa!Next, Wa!Watcher
<1>3. J => Wa!TypeOK
  <2>1. \A d : Len(<<d>>) = 1
    OBVIOUS
  <2>2. Len(<<>>) = 0
    OBVIOUS
  <2>3. ASSUME WatchInv PROVE Len(hand) <= 1
    <3>1. hand = <<>> \/ \E d \in Dirs : hand = <<d>>
      BY <2>3 DEF WatchInv
    <3>2. CASE hand = <<>>
      BY <2>2, <3>2
    <3>3. ASSUME NEW d \in Dirs, hand = <<d>> PROVE Len(hand) <= 1
      <4>1. Len(hand) = 1
        BY <3>3
      <4> QED BY <4>1
    <3> QED BY <3>1, <3>2, <3>3
  <2> QED BY <2>3 DEF WatchInv, Wa!TypeOK
<1> QED BY <1>1, <1>2, <1>3, PTL DEF Wa!Spec
=============================================================================
