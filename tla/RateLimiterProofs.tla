------------------------- MODULE RateLimiterProofs -------------------------
(***************************************************************************)
(* Proofs about RateLimiter, for any senders, limit and interval: the      *)
(* window that Allow keeps per sender against everything it ever accepted. *)
(***************************************************************************)
EXTENDS RateLimiter, TLAPS, FiniteSetTheorems

-----------------------------------------------------------------------------
(* Filtering a sorted sequence.                                            *)

\* A set of positions that holds all smaller ones is an interval.
LEMMA InitialPositions ==
    ASSUME NEW n \in Nat, NEW D \in SUBSET (1 .. n), \A i \in D : \A j \in 1 .. i : j \in D
    PROVE  Cardinality(D) \in 0 .. n /\ D = 1 .. Cardinality(D)
<1> DEFINE c == Cardinality(D)
<1>1. IsFiniteSet(1 .. n) /\ Cardinality(1 .. n) = n
      BY FS_Interval
<1>2. IsFiniteSet(D) /\ c \in Nat /\ c <= n
      BY <1>1, FS_Subset, FS_CardinalityType
<1>3. ASSUME NEW i \in D PROVE i <= c
  <2>1. 1 .. i \subseteq D /\ i \in Nat
        OBVIOUS
  <2>2. Cardinality(1 .. i) = i
        BY <2>1, FS_Interval
  <2>3. Cardinality(1 .. i) <= c
        BY <1>2, <2>1, FS_Subset
  <2> QED BY <2>2, <2>3
<1>4. ASSUME NEW i \in 1 .. n, i \notin D PROVE c < i
  <2>1. D \subseteq 1 .. (i - 1)
        BY <1>4
  <2>2. IsFiniteSet(1 .. (i - 1)) /\ Cardinality(1 .. (i - 1)) = i - 1
        BY FS_Interval
  <2>3. c <= i - 1
        BY <2>1, <2>2, FS_Subset
  <2> QED BY <1>2, <2>3
<1> HIDE DEF c
<1>5. D \subseteq 1 .. c
      BY <1>2, <1>3
<1>6. 1 .. c \subseteq D
      BY <1>2, <1>4
<1>7. D = 1 .. c
      BY <1>5, <1>6, Zenon
<1>8. c \in 0 .. n
      BY <1>2
<1> QED BY <1>7, <1>8 DEF c

\* The elements of a sequence behind position m.
LEMMA LaterElements ==
    ASSUME NEW S, NEW seq \in Seq(S), NEW m \in 0 .. Len(seq),
           NEW kept, kept = m + 1 .. Len(seq)
    PROVE  /\ DOMAIN InOrder(seq, kept) = 1 .. Len(seq) - m
           /\ \A k \in 1 .. Len(seq) - m : InOrder(seq, kept)[k] = seq[m + k]
<1> DEFINE n == Len(seq)
           f == InOrder(seq, kept)
<1>1. n \in Nat /\ m \in Nat /\ m <= n /\ \A i \in 1 .. n : seq[i] \in S
      OBVIOUS
<1>2. Cardinality(kept) = n - m
  <2>1. m + 1 \in Int /\ n \in Int /\ n - (m + 1) + 1 = n - m /\ (m + 1 > n => n - m = 0)
        BY <1>1
  <2>2. Cardinality((m + 1) .. n) = IF m + 1 > n THEN 0 ELSE n - (m + 1) + 1
        BY <2>1, FS_Interval
  <2> QED BY <2>1, <2>2
<1>3. ASSUME NEW i \in kept PROVE Cardinality({j \in kept : j < i}) = i - 1 - m
  <2>1. {j \in kept : j < i} = m + 1 .. i - 1
    <3>1. /\ i \in m + 1 .. n
          /\ \A j : j \in kept /\ j < i <=> j \in m + 1 .. n /\ j < i
          OBVIOUS
    <3>2. \A j : j \in m + 1 .. n /\ j < i <=> j \in m + 1 .. i - 1
          BY <1>1, <3>1
    <3> QED BY <3>1, <3>2
  <2>2. Cardinality(m + 1 .. i - 1) = i - 1 - m
        BY <1>1, FS_Interval
  <2> QED BY <2>1, <2>2
<1>4. ASSUME NEW k \in 1 .. n - m
      PROVE  (CHOOSE i \in kept : Cardinality({j \in kept : j < i}) = k - 1) = m + k
  <2>1. m + k \in kept /\ m + k - 1 - m = k - 1
        BY <1>1
  <2>2. Cardinality({j \in kept : j < m + k}) = k - 1
        BY <1>3, <2>1
  <2>3. \A i \in kept : Cardinality({j \in kept : j < i}) = k - 1 => i = m + k
        BY <1>1, <1>3
  <2> QED BY <2>1, <2>2, <2>3
<1>5. \A k \in 1 .. n - m : f[k] = seq[m + k]
      BY <1>2, <1>4 DEF InOrder
<1>6. DOMAIN f = 1 .. n - m
      BY <1>2 DEF InOrder
<1> QED BY <1>5, <1>6

LEMMA LaterSequence ==
    ASSUME NEW S, NEW seq \in Seq(S), NEW m \in 0 .. Len(seq),
           NEW kept, kept = m + 1 .. Len(seq)
    PROVE  InOrder(seq, kept) \in Seq(S) /\ Len(InOrder(seq, kept)) = Len(seq) - m
<1> DEFINE n == Len(seq)
           f == InOrder(seq, kept)
<1>1. n \in Nat /\ m \in Nat /\ m <= n /\ \A i \in 1 .. n : seq[i] \in S
      OBVIOUS
<1>2. DOMAIN f = 1 .. n - m
      BY LaterElements
<1>3. \A k \in 1 .. n - m : f[k] = seq[m + k]
      BY LaterElements
<1>4. f = [k \in DOMAIN f |-> f[k]]
      BY DEF InOrder
<1> HIDE DEF f
<1>5. \A k \in 1 .. n - m : m + k \in 1 .. n /\ f[k] \in S
      BY <1>1, <1>3
<1>6. f \in [1 .. n - m -> S] /\ n - m \in Nat
      BY <1>1, <1>2, <1>4, <1>5
<1>7. f \in Seq(S) /\ Len(f) = n - m
      BY <1>6
<1> QED BY <1>7 DEF f

\* Of a sorted sequence the filter drops the first f elements, which are out.
LEMMA SortedKept ==
    ASSUME NEW t \in Nat, NEW M \in Seq(0 .. t), NEW w \in Nat,
           \A i, j \in 1 .. Len(M) : i <= j => M[i] <= M[j],
           NEW kept, kept = {i \in DOMAIN M : t - M[i] <= w}
    PROVE  \E f \in 0 .. Len(M) :
              /\ kept = f + 1 .. Len(M)
              /\ \A i \in 1 .. Len(M) : (t - M[i] > w) <=> i <= f
<1> DEFINE out == {i \in 1 .. Len(M) : t - M[i] > w}
           f == Cardinality(out)
<1>1. Len(M) \in Nat /\ DOMAIN M = 1 .. Len(M) /\ \A i \in 1 .. Len(M) : M[i] \in 0 .. t
      OBVIOUS
<1>2. f \in 0 .. Len(M) /\ out = 1 .. f
  <2>1. out \in SUBSET (1 .. Len(M))
        OBVIOUS
  <2>2. ASSUME NEW i \in out, NEW j \in 1 .. i PROVE j \in out
    <3>1. i \in 1 .. Len(M) /\ j \in 1 .. Len(M) /\ M[j] <= M[i] /\ t - M[i] > w
          BY <1>1
    <3>2. M[i] \in Nat /\ M[j] \in Nat
          BY <1>1, <3>1
    <3>3. \A a, b \in Nat : b <= a /\ t - a > w => t - b > w
          OBVIOUS
    <3> QED BY <3>1, <3>2, <3>3, Zenon
  <2> HIDE DEF out
  <2> QED BY <1>1, <2>1, <2>2, InitialPositions
<1>3. \A i \in 1 .. Len(M) : (t - M[i] > w) <=> i \in out
      OBVIOUS
<1> HIDE DEF f, out
<1>4. \A i \in 1 .. Len(M) : (t - M[i] > w) <=> i <= f
      BY <1>1, <1>2, <1>3
<1>5. kept = f + 1 .. Len(M)
  <2>1. \A i : i \in kept <=> i \in 1 .. Len(M) /\ ~(t - M[i] > w)
        BY <1>1
  <2>2. \A i : i \in kept <=> i \in 1 .. Len(M) /\ ~(i <= f)
        BY <1>4, <2>1
  <2> QED BY <1>1, <1>2, <2>2
<1> QED BY <1>2, <1>4, <1>5

-----------------------------------------------------------------------------

\* The accepted messages of a sender that are not counted any more.
Dropped(s) == Len(accepted[s]) - Len(messages[s])

\* A sender's counted messages are the last ones accepted; those before are out of the
\* interval, and time does not go back.
Window(s) ==
    /\ \A i \in DOMAIN messages[s] : messages[s][i] = accepted[s][Dropped(s) + i]
    /\ \A i, j \in DOMAIN accepted[s] : i <= j => accepted[s][i] <= accepted[s][j]
    /\ \A i \in 1 .. Dropped(s) : now - accepted[s][i] > Interval

Types ==
    /\ now \in 0 .. MaxTime
    /\ messages \in [Senders -> Seq(0 .. now)]
    /\ accepted \in [Senders -> Seq(0 .. now)]
    /\ \A s \in Senders : Len(messages[s]) <= Limit /\ Len(messages[s]) <= Len(accepted[s])

LimiterInv ==
    /\ Types
    /\ \A s \in Senders : Window(s)
    /\ NeverAboveLimit

\* What Allow finds: the window without the accepted messages that left the interval
\* since, f of them.
LEMMA FilteredWindow ==
    ASSUME LimiterInv, NEW s \in Senders
    PROVE  \E f \in 0 .. Len(messages[s]) :
              /\ Filtered(s) \in Seq(0 .. now)
              /\ Len(Filtered(s)) = Len(messages[s]) - f
              /\ \A k \in 1 .. Len(messages[s]) - f : Filtered(s)[k] = messages[s][f + k]
              /\ \A i \in 1 .. Len(messages[s]) : (now - messages[s][i] > Interval) <=> i <= f
<1>1. PICK M, A, d, kept :
         /\ M = messages[s] /\ A = accepted[s] /\ d = Dropped(s)
         /\ kept = {i \in DOMAIN M : now - M[i] <= Interval}
      OBVIOUS
<1>2. /\ now \in Nat /\ Interval \in Nat
      /\ M \in Seq(0 .. now) /\ A \in Seq(0 .. now)
      /\ d = Len(A) - Len(M) /\ Len(M) <= Len(A)
      BY <1>1, LimiterAssumptions DEF LimiterInv, Types, Window, Dropped
<1>3. \A i, j \in 1 .. Len(M) : i <= j => M[i] <= M[j]
  <2>1. /\ \A i \in DOMAIN M : M[i] = A[d + i]
        /\ \A i, j \in DOMAIN A : i <= j => A[i] <= A[j]
        BY <1>1 DEF LimiterInv, Window
  <2>2. /\ Len(M) \in Nat /\ DOMAIN M = 1 .. Len(M)
        /\ Len(A) \in Nat /\ DOMAIN A = 1 .. Len(A)
        BY <1>2
  <2>3. /\ \A i \in 1 .. Len(M) : d + i \in 1 .. Len(A)
        /\ \A i, j \in 1 .. Len(M) : i <= j => d + i <= d + j
        BY <1>2, <2>2
  <2> QED BY <2>1, <2>2, <2>3, Zenon
<1>4. Filtered(s) = InOrder(M, kept)
      BY <1>1 DEF Filtered
<1>5. PICK f \in 0 .. Len(M) :
         /\ kept = f + 1 .. Len(M)
         /\ \A i \in 1 .. Len(M) : (now - M[i] > Interval) <=> i <= f
  <2>1. PICK t, w : t = now /\ w = Interval
        OBVIOUS
  <2>2. t \in Nat /\ w \in Nat /\ M \in Seq(0 .. t) /\ kept = {i \in DOMAIN M : t - M[i] <= w}
        BY <1>1, <1>2, <2>1
  <2>3. \E f \in 0 .. Len(M) :
           /\ kept = f + 1 .. Len(M)
           /\ \A i \in 1 .. Len(M) : (t - M[i] > w) <=> i <= f
        BY <1>3, <2>2, SortedKept
  <2> QED BY <2>1, <2>3
<1>6. InOrder(M, kept) \in Seq(0 .. now) /\ Len(InOrder(M, kept)) = Len(M) - f
      BY <1>2, <1>5, LaterSequence
<1>7. \A k \in 1 .. Len(M) - f : InOrder(M, kept)[k] = M[f + k]
  <2>1. PICK S : S = 0 .. now
        OBVIOUS
  <2>2. M \in Seq(S) /\ kept = f + 1 .. Len(M)
        BY <1>2, <1>5, <2>1
  <2> QED BY <2>2, LaterElements
<1> QED BY <1>1, <1>4, <1>5, <1>6, <1>7

\* The filtered messages are the accepted ones that are not older than the interval.
LEMMA FilteredAccepted ==
    ASSUME LimiterInv, NEW s \in Senders, NEW F, F = Filtered(s), NEW A, A = accepted[s]
    PROVE  /\ F \in Seq(0 .. now) /\ Len(F) <= Limit /\ Len(F) <= Len(A)
           /\ \A i \in 1 .. Len(F) : F[i] = A[Len(A) - Len(F) + i]
           /\ \A i \in 1 .. Len(A) : (now - A[i] > Interval) <=> i <= Len(A) - Len(F)
<1>1. PICK M, d : M = messages[s] /\ d = Dropped(s)
      OBVIOUS
<1>2. PICK f \in 0 .. Len(M) :
         /\ F \in Seq(0 .. now) /\ Len(F) = Len(M) - f
         /\ \A k \in 1 .. Len(M) - f : F[k] = M[f + k]
         /\ \A i \in 1 .. Len(M) : (now - M[i] > Interval) <=> i <= f
  <2>1. \E f \in 0 .. Len(messages[s]) :
           /\ Filtered(s) \in Seq(0 .. now) /\ Len(Filtered(s)) = Len(messages[s]) - f
           /\ \A k \in 1 .. Len(messages[s]) - f : Filtered(s)[k] = messages[s][f + k]
           /\ \A i \in 1 .. Len(messages[s]) : (now - messages[s][i] > Interval) <=> i <= f
        BY FilteredWindow
  <2> QED BY <1>1, <2>1, Zenon
<1>3. /\ M \in Seq(0 .. now) /\ A \in Seq(0 .. now)
      /\ Len(M) <= Limit /\ Len(M) <= Len(A) /\ d = Len(A) - Len(M)
      /\ Limit \in Nat /\ Interval \in Nat /\ now \in Nat
      BY <1>1, LimiterAssumptions DEF LimiterInv, Types, Window, Dropped
<1>4. /\ Len(M) \in Nat /\ DOMAIN M = 1 .. Len(M)
      /\ Len(A) \in Nat /\ DOMAIN A = 1 .. Len(A)
      BY <1>3
<1>5. \A i \in 1 .. Len(M) : M[i] = A[d + i]
      BY <1>1, <1>4 DEF LimiterInv, Window
<1>6. \A i \in 1 .. d : now - A[i] > Interval
      BY <1>1 DEF LimiterInv, Window
<1>7. /\ f \in Nat /\ d \in Nat /\ Len(A) - Len(F) = d + f
      /\ Len(F) <= Limit /\ Len(F) <= Len(A) /\ Len(A) = d + Len(M)
      BY <1>2, <1>3, <1>4
<1>8. ASSUME NEW i \in 1 .. Len(F) PROVE F[i] = A[Len(A) - Len(F) + i]
  <2>1. F[i] = M[f + i] /\ f + i \in 1 .. Len(M)
        BY <1>2, <1>4
  <2>2. M[f + i] = A[d + (f + i)]
        BY <1>5, <2>1
  <2> QED BY <1>2, <1>4, <1>7, <2>1, <2>2
<1>9. ASSUME NEW i \in 1 .. Len(A) PROVE (now - A[i] > Interval) <=> i <= Len(A) - Len(F)
  <2>1. CASE i <= d
        BY <1>6, <1>7, <2>1
  <2>2. CASE i > d
    <3>1. PICK j \in 1 .. Len(M) : i = d + j
      <4>1. i \in Nat /\ i <= Len(A)
            BY <1>4
      <4>2. i - d \in 1 .. Len(M) /\ i = d + (i - d)
            BY <1>4, <1>7, <2>2, <4>1
      <4> QED BY <4>2
    <3>2. (now - A[i] > Interval) <=> j <= f
          BY <1>2, <1>5, <3>1
    <3> QED BY <1>4, <1>7, <3>1, <3>2
  <2> QED BY <1>7, <2>1, <2>2
<1> QED BY <1>2, <1>7, <1>8, <1>9

\* A call of Allow by s: it keeps the filtered messages, and Accept adds one more.
LEMMA SendersApart ==
    ASSUME LimiterInv, NEW s \in Senders, Accept(s) \/ Refuse(s)
    PROVE  /\ now' = now
           /\ messages'[s] = IF Accept(s) THEN Append(Filtered(s), now) ELSE Filtered(s)
           /\ accepted'[s] = IF Accept(s) THEN Append(accepted[s], now) ELSE accepted[s]
           /\ messages' \in [Senders -> Seq(0 .. now)]
           /\ accepted' \in [Senders -> Seq(0 .. now)]
           /\ \A r \in Senders \ {s} : messages'[r] = messages[r] /\ accepted'[r] = accepted[r]
<1>1. PICK F, A : F = Filtered(s) /\ A = accepted[s]
      OBVIOUS
<1>2. F \in Seq(0 .. now) /\ A \in Seq(0 .. now) /\ now \in 0 .. now
      BY <1>1, FilteredAccepted, LimiterAssumptions DEF LimiterInv, Types
<1>3. Append(F, now) \in Seq(0 .. now) /\ Append(A, now) \in Seq(0 .. now)
      BY <1>2
<1>4. CASE Accept(s)
  <2>1. /\ messages' = [messages EXCEPT ![s] = Append(F, now)]
        /\ accepted' = [accepted EXCEPT ![s] = Append(A, now)] /\ now' = now
        BY <1>1, <1>4 DEF Accept
  <2> QED BY <1>1, <1>3, <1>4, <2>1 DEF LimiterInv, Types
<1>5. CASE Refuse(s) /\ ~Accept(s)
  <2>1. messages' = [messages EXCEPT ![s] = F] /\ accepted' = accepted /\ now' = now
        BY <1>1, <1>5 DEF Refuse
  <2> QED BY <1>1, <1>2, <1>5, <2>1 DEF LimiterInv, Types
<1> QED BY <1>4, <1>5

LEMMA InitLimiterInv == Init => LimiterInv
<1> SUFFICES ASSUME Init PROVE LimiterInv
    OBVIOUS
<1>1. Types
      BY LimiterAssumptions DEF Init, Types
<1>2. \A s \in Senders : Window(s)
      BY DEF Init, Window, Dropped
<1>3. NeverAboveLimit
      BY DEF Init, NeverAboveLimit
<1> QED BY <1>1, <1>2, <1>3 DEF LimiterInv

LEMMA TickLimiterInv ==
    ASSUME LimiterInv, Tick
    PROVE  LimiterInv'
<1>1. /\ now \in Nat /\ now' = now + 1 /\ now' \in 0 .. MaxTime /\ Interval \in Nat
      /\ UNCHANGED <<messages, accepted>>
      BY LimiterAssumptions DEF LimiterInv, Types, Tick
<1>2. Types'
  <2>1. \A q \in Seq(0 .. now) : q \in Seq(0 .. now + 1)
        BY <1>1
  <2> QED BY <1>1, <2>1 DEF LimiterInv, Types
<1>3. ASSUME NEW s \in Senders PROVE Window(s)'
  <2>1. \A i \in 1 .. Dropped(s) : accepted[s][i] \in Nat /\ now - accepted[s][i] > Interval
    <3>1. PICK A, d : A = accepted[s] /\ d = Dropped(s)
          OBVIOUS
    <3>2. A \in Seq(0 .. now) /\ Len(A) \in Nat /\ d \in Int /\ d <= Len(A)
          BY <3>1 DEF LimiterInv, Types, Dropped
    <3>3. \A i \in 1 .. d : A[i] \in 0 .. now
      <4>1. PICK S : S = 0 .. now
            OBVIOUS
      <4>2. A \in Seq(S)
            BY <3>2, <4>1
      <4>3. \A i \in 1 .. Len(A) : A[i] \in S
            BY <4>2
      <4> QED BY <3>2, <4>1, <4>3
    <3>4. \A i \in 1 .. d : now - A[i] > Interval
          BY <3>1 DEF LimiterInv, Window
    <3> QED BY <1>1, <3>1, <3>3, <3>4
  <2>2. \A i \in 1 .. Dropped(s) : now' - accepted[s][i] > Interval
        BY <1>1, <2>1
  <2> QED BY <1>1, <2>2 DEF LimiterInv, Window, Dropped
<1>4. NeverAboveLimit'
      BY <1>1 DEF LimiterInv, NeverAboveLimit
<1> QED BY <1>2, <1>3, <1>4 DEF LimiterInv

\* The elements of a sequence and of the one with one more element.
LEMMA OneMore ==
    ASSUME NEW S, NEW q \in Seq(S), NEW e \in S, NEW r, r = Append(q, e)
    PROVE  /\ Len(q) \in Nat /\ Len(r) = Len(q) + 1
           /\ DOMAIN q = 1 .. Len(q) /\ DOMAIN r = 1 .. Len(q) + 1
           /\ \A i \in 1 .. Len(q) : r[i] = q[i]
           /\ r[Len(q) + 1] = e
OBVIOUS

\* After a call of Allow.
LEMMA AllowWindow ==
    ASSUME LimiterInv, NEW s \in Senders, Accept(s) \/ Refuse(s)
    PROVE  /\ Window(s)'
           /\ Len(messages'[s]) <= Limit /\ Len(messages'[s]) <= Len(accepted'[s])
           /\ \A i \in DOMAIN accepted'[s] :
                 i + Limit \in DOMAIN accepted'[s] =>
                     accepted'[s][i + Limit] - accepted'[s][i] > Interval
<1>1. PICK F, A, d, F2, A2 :
         /\ F = Filtered(s) /\ A = accepted[s] /\ d = Len(A) - Len(F)
         /\ F2 = messages'[s] /\ A2 = accepted'[s]
      OBVIOUS
<1>2. /\ F \in Seq(0 .. now) /\ Len(F) <= Limit /\ Len(F) <= Len(A)
      /\ \A i \in 1 .. Len(F) : F[i] = A[d + i]
      /\ \A i \in 1 .. Len(A) : (now - A[i] > Interval) <=> i <= d
  <2>1. /\ F \in Seq(0 .. now) /\ Len(F) <= Limit /\ Len(F) <= Len(A)
        /\ \A i \in 1 .. Len(F) : F[i] = A[Len(A) - Len(F) + i]
        /\ \A i \in 1 .. Len(A) : (now - A[i] > Interval) <=> i <= Len(A) - Len(F)
        BY <1>1, FilteredAccepted, Zenon
  <2> QED BY <1>1, <2>1
<1>3. /\ now \in Nat /\ Limit \in Nat /\ Interval \in Nat /\ A \in Seq(0 .. now)
      /\ now' = now
      BY <1>1, LimiterAssumptions, SendersApart DEF LimiterInv, Types
<1>4. /\ \A i, j \in DOMAIN A : i <= j => A[i] <= A[j]
      /\ \A i \in DOMAIN A : i + Limit \in DOMAIN A => A[i + Limit] - A[i] > Interval
      BY <1>1 DEF LimiterInv, Window, NeverAboveLimit
<1>5. /\ \A i \in DOMAIN F2 : F2[i] = A2[d + i]
      /\ \A i, j \in DOMAIN A2 : i <= j => A2[i] <= A2[j]
      /\ \A i \in 1 .. d : now - A2[i] > Interval
      /\ Len(A2) - Len(F2) = d /\ Len(F2) <= Limit /\ Len(F2) <= Len(A2)
      /\ \A i \in DOMAIN A2 : i + Limit \in DOMAIN A2 => A2[i + Limit] - A2[i] > Interval
  <2>1. /\ Len(A) \in Nat /\ Len(F) \in Nat /\ d \in Nat /\ Len(A) = d + Len(F)
        /\ DOMAIN A = 1 .. Len(A) /\ DOMAIN F = 1 .. Len(F)
        BY <1>1, <1>2, <1>3
  <2>2. PICK S : S = 0 .. now
        OBVIOUS
  <2>3. F \in Seq(S) /\ A \in Seq(S) /\ now \in S
        BY <1>2, <1>3, <2>2
  <2>4. CASE Accept(s)
    <3>1. Len(F) < Limit /\ F2 = Append(F, now) /\ A2 = Append(A, now)
          BY <1>1, <2>4, SendersApart DEF Accept
    <3>2. /\ Len(F2) = Len(F) + 1 /\ DOMAIN F2 = 1 .. Len(F) + 1
          /\ \A i \in 1 .. Len(F) : F2[i] = F[i]
          /\ F2[Len(F) + 1] = now
          BY <2>3, <3>1, OneMore
    <3>3. /\ Len(A2) = Len(A) + 1 /\ DOMAIN A2 = 1 .. Len(A) + 1
          /\ \A i \in 1 .. Len(A) : A2[i] = A[i]
          /\ A2[Len(A) + 1] = now
          BY <2>3, <3>1, OneMore
    <3>4. Len(A2) - Len(F2) = d /\ Len(F2) <= Limit /\ Len(F2) <= Len(A2)
          BY <1>3, <2>1, <3>1, <3>2, <3>3
    <3>5. \A i \in 1 .. Len(A) : A[i] \in Nat /\ A[i] <= now
      <4>1. \A i \in 1 .. Len(A) : A[i] \in S
            BY <2>1, <2>3
      <4> QED BY <1>3, <2>2, <4>1
    <3>6. ASSUME NEW i \in DOMAIN F2 PROVE F2[i] = A2[d + i]
      <4>1. CASE i \in 1 .. Len(F)
        <5>1. d + i \in 1 .. Len(A)
              BY <2>1, <4>1
        <5> QED BY <1>2, <3>2, <3>3, <4>1, <5>1
      <4>2. CASE i = Len(F) + 1
        <5>1. d + i = Len(A) + 1
              BY <2>1, <4>2
        <5> QED BY <3>2, <3>3, <4>2, <5>1
      <4> QED BY <2>1, <3>2, <4>1, <4>2
    <3>7. ASSUME NEW i \in DOMAIN A2, NEW j \in DOMAIN A2, i <= j
          PROVE  A2[i] <= A2[j]
      <4>1. CASE j \in 1 .. Len(A)
        <5>1. i \in 1 .. Len(A)
              BY <2>1, <3>3, <3>7, <4>1
        <5> QED BY <1>4, <2>1, <3>3, <3>7, <4>1, <5>1
      <4>2. CASE j = Len(A) + 1
        <5>1. A2[i] <= now
              BY <1>3, <2>1, <3>3, <3>5
        <5> QED BY <3>3, <4>2, <5>1
      <4> QED BY <2>1, <3>3, <4>1, <4>2
    <3>8. \A i \in 1 .. d : now - A2[i] > Interval
      <4>1. \A i \in 1 .. d : i \in 1 .. Len(A) /\ i <= d
            BY <2>1
      <4> QED BY <1>2, <3>3, <4>1
    <3>9. ASSUME NEW i \in DOMAIN A2, i + Limit \in DOMAIN A2
          PROVE  A2[i + Limit] - A2[i] > Interval
      <4>1. CASE i + Limit \in 1 .. Len(A)
        <5>1. i \in 1 .. Len(A)
              BY <1>3, <2>1, <3>3, <4>1
        <5> QED BY <1>4, <2>1, <3>3, <4>1, <5>1
      <4>2. CASE i + Limit = Len(A) + 1
        \* Fewer than Limit messages were in the interval, and i is before them.
        <5>1. i \in 1 .. d
              BY <1>3, <2>1, <3>1, <3>3, <4>2
        <5> QED BY <3>3, <3>8, <4>2, <5>1
      <4>3. i + Limit \in 1 .. Len(A) \/ i + Limit = Len(A) + 1
            BY <2>1, <3>3, <3>9
      <4> QED BY <4>1, <4>2, <4>3
    <3> QED BY <3>4, <3>6, <3>7, <3>8, <3>9
  <2>5. CASE Refuse(s) /\ ~Accept(s)
    <3>1. F2 = F /\ A2 = A
          BY <1>1, <2>5, SendersApart
    <3>2. \A i \in 1 .. d : i \in 1 .. Len(A) /\ i <= d
          BY <2>1
    <3> QED BY <1>1, <1>2, <1>4, <2>1, <3>1, <3>2
  <2> QED BY <2>4, <2>5
<1>6. Dropped(s)' = d
      BY <1>1, <1>5 DEF Dropped
<1>7. Window(s)'
      BY <1>1, <1>3, <1>5, <1>6 DEF Window
<1> QED BY <1>1, <1>5, <1>7

LEMMA NextLimiterInv == LimiterInv /\ [Next]_vars => LimiterInv'
<1> SUFFICES ASSUME LimiterInv, [Next]_vars PROVE LimiterInv'
    OBVIOUS
<1>1. CASE Tick
      BY <1>1, TickLimiterInv
<1>2. ASSUME NEW s \in Senders, Accept(s) \/ Refuse(s) PROVE LimiterInv'
  <2>1. now' = now /\ messages' \in [Senders -> Seq(0 .. now)]
        /\ accepted' \in [Senders -> Seq(0 .. now)]
        /\ \A r \in Senders \ {s} : messages'[r] = messages[r] /\ accepted'[r] = accepted[r]
        BY <1>2, SendersApart
  <2>2. /\ Window(s)'
        /\ Len(messages'[s]) <= Limit /\ Len(messages'[s]) <= Len(accepted'[s])
        /\ \A i \in DOMAIN accepted'[s] :
              i + Limit \in DOMAIN accepted'[s] =>
                  accepted'[s][i + Limit] - accepted'[s][i] > Interval
        BY <1>2, AllowWindow
  <2>3. ASSUME NEW r \in Senders \ {s}
        PROVE  /\ Window(r)'
               /\ Len(messages'[r]) <= Limit /\ Len(messages'[r]) <= Len(accepted'[r])
               /\ \A i \in DOMAIN accepted'[r] :
                     i + Limit \in DOMAIN accepted'[r] =>
                         accepted'[r][i + Limit] - accepted'[r][i] > Interval
    <3>1. messages'[r] = messages[r] /\ accepted'[r] = accepted[r] /\ r \in Senders
          BY <2>1
    <3>2. Window(r)'
          BY <2>1, <3>1 DEF LimiterInv, Window, Dropped
    <3>3. Len(messages[r]) <= Limit /\ Len(messages[r]) <= Len(accepted[r])
          BY <3>1 DEF LimiterInv, Types
    <3>4. \A i \in DOMAIN accepted[r] :
             i + Limit \in DOMAIN accepted[r] => accepted[r][i + Limit] - accepted[r][i] > Interval
          BY <3>1 DEF LimiterInv, NeverAboveLimit
    <3> QED BY <3>1, <3>2, <3>3, <3>4
  <2>4. Types'
        BY <2>1, <2>2, <2>3 DEF LimiterInv, Types
  <2>5. NeverAboveLimit'
        BY <2>2, <2>3 DEF NeverAboveLimit
  <2>6. \A r \in Senders : Window(r)'
        BY <2>2, <2>3
  <2> QED BY <2>4, <2>5, <2>6 DEF LimiterInv
<1>3. CASE UNCHANGED vars
      BY <1>3 DEF LimiterInv, Types, NeverAboveLimit, Window, Dropped, vars
<1> QED BY <1>1, <1>2, <1>3 DEF Next

-----------------------------------------------------------------------------

\* At every reachable state a sender's window is, message by message, the end of the list
\* of those accepted, no longer than the limit.
THEOREM TypeCorrect == Spec => []TypeOK
<1>1. LimiterInv => TypeOK
      BY DEF LimiterInv, Types, TypeOK, Window, Dropped
<1> QED BY <1>1, InitLimiterInv, NextLimiterInv, PTL DEF Spec

\* However the calls of Allow and the ticks follow each other, no Limit + 1 messages of
\* a sender are accepted within an interval.
THEOREM NeverTooMany == Spec => []NeverAboveLimit
<1>1. LimiterInv => NeverAboveLimit
      BY DEF LimiterInv
<1> QED BY <1>1, InitLimiterInv, NextLimiterInv, PTL DEF Spec

\* A message is refused only after Limit accepted ones of its sender in the interval.
THEOREM RefusedWithReason == Spec => []RefusedOnlyAtLimit
<1>1. ASSUME LimiterInv PROVE RefusedOnlyAtLimit
  <2>1. ASSUME NEW s \in Senders
        PROVE  Cardinality({i \in DOMAIN accepted[s] : now - accepted[s][i] <= Interval})
                  = Len(Filtered(s))
    <3>1. PICK F, A, d : F = Filtered(s) /\ A = accepted[s] /\ d = Len(A) - Len(F)
          OBVIOUS
    <3>2. /\ F \in Seq(0 .. now) /\ Len(F) <= Len(A)
          /\ \A i \in 1 .. Len(A) : (now - A[i] > Interval) <=> i <= Len(A) - Len(F)
          BY <1>1, <3>1, FilteredAccepted, Zenon
    <3>3. A \in Seq(0 .. now) /\ now \in Nat /\ Interval \in Nat
          BY <1>1, <3>1, LimiterAssumptions DEF LimiterInv, Types
    <3>4. /\ Len(A) \in Nat /\ DOMAIN A = 1 .. Len(A) /\ Len(F) \in Nat /\ d \in Nat
          /\ \A i \in 1 .. Len(A) : A[i] \in 0 .. now
      <4>1. PICK S : S = 0 .. now
            OBVIOUS
      <4>2. A \in Seq(S) /\ F \in Seq(S)
            BY <3>2, <3>3, <4>1
      <4>3. Len(A) \in Nat /\ DOMAIN A = 1 .. Len(A) /\ Len(F) \in Nat
            BY <4>2
      <4>4. \A i \in 1 .. Len(A) : A[i] \in S
            BY <4>2
      <4> QED BY <3>1, <3>2, <4>1, <4>3, <4>4
    <3>5. ASSUME NEW i \in 1 .. Len(A) PROVE now - A[i] <= Interval <=> ~(i <= d)
      <4>1. A[i] \in Nat /\ ((now - A[i] > Interval) <=> i <= d)
            BY <3>1, <3>2, <3>4
      <4>2. \A a \in Nat : now - a <= Interval <=> ~(now - a > Interval)
            BY <3>3
      <4> QED BY <4>1, <4>2
    <3>6. {i \in DOMAIN A : now - A[i] <= Interval} = d + 1 .. Len(A)
      <4>1. {i \in DOMAIN A : now - A[i] <= Interval} = {i \in 1 .. Len(A) : ~(i <= d)}
            BY <3>4, <3>5, Zenon
      <4> QED BY <3>4, <4>1
    <3>7. Cardinality(d + 1 .. Len(A)) = Len(F)
      <4> d + 1 \in Int /\ Len(A) \in Int
          BY <3>4
      <4>1. PICK e \in Int, n \in Int : e = d + 1 /\ n = Len(A)
            OBVIOUS
      <4>2. Cardinality(e .. n) = IF e > n THEN 0 ELSE n - e + 1
            BY FS_Interval
      <4>3. Len(F) = IF e > n THEN 0 ELSE n - e + 1
            BY <3>1, <3>4, <4>1
      <4> QED BY <4>1, <4>2, <4>3
    <3> QED BY <3>1, <3>6, <3>7
  <2> QED BY <2>1 DEF RefusedOnlyAtLimit
<1> QED BY <1>1, InitLimiterInv, NextLimiterInv, PTL DEF Spec
=============================================================================
