----------------------------- MODULE ImportProofs -----------------------------
(* Theorems about the document that key import reads, for every document, gap *)
(* and place where it is cut off: the scanner (ImportJson) against the JSON   *)
(* it was written from (Json).                                                *)
EXTENDS OneShotProofs

-----------------------------------------------------------------------------
(* Recursion from the end of a text *)

\* Induction downwards.
LEMMA Downward ==
    ASSUME NEW P, NEW N \in Nat, \A i \in 1 .. N : (\A j \in i + 1 .. N : j \in P) => i \in P
    PROVE  \A i \in 1 .. N : i \in P
<1>1. PICK T : T = {n \in 0 .. N : n # N /\ N - n \notin P}
  OBVIOUS
<1>2. SUFFICES ASSUME NEW i \in 1 .. N, i \notin P PROVE FALSE
  OBVIOUS
<1>3. N - i \in T
  <2>1. N - i \in 0 .. N /\ N - i # N /\ N - (N - i) = i
    OBVIOUS
  <2>. QED
    BY <1>1, <1>2, <2>1
<1>4. T \subseteq Nat /\ T # {}
  <2>1. \A n \in 0 .. N : n \in Nat
    OBVIOUS
  <2>. QED
    BY <1>1, <1>3, <2>1
<1>5. PICK n \in T : \A m \in T : n <= m
  BY <1>4, Least
<1>6. PICK k \in 1 .. N : k = N - n /\ n = N - k /\ k \notin P
  <2>1. N - n \in 1 .. N /\ n = N - (N - n) /\ N - n \notin P
    BY <1>1, <1>5
  <2>. QED
    BY <2>1
<1>7. ASSUME NEW j \in k + 1 .. N PROVE j \in P
  <2>1. N - j \in 0 .. N /\ N - j # N /\ N - (N - j) = j /\ ~(n <= N - j)
    BY <1>6
  <2>2. N - j \notin T
    BY <1>5, <2>1
  <2>. QED
    BY <1>1, <2>1, <2>2
<1>. QED
  BY <1>2, <1>6, <1>7

\* A function on 1 .. N that is given by its value at a later place, if the next
\* one to look at is one.
Chasing(N, S, next, combine, stop) ==
    \E f \in [1 .. N -> S] : \A i \in 1 .. N :
        f[i] = IF next[i] \in i + 1 .. N THEN combine[<<i, f[next[i]]>>] ELSE stop[i]

LEMMA Chased ==
    ASSUME NEW N \in Nat, NEW S, NEW next \in [1 .. N -> Nat],
           NEW combine \in [(1 .. N) \X S -> S], NEW stop \in [1 .. N -> S]
    PROVE  Chasing(N, S, next, combine, stop)
<1>0. CASE N = 0
  <2>1. PICK f : f = [i \in 1 .. N |-> stop[i]]
    OBVIOUS
  <2>. QED
    BY <1>0, <2>1 DEF Chasing
<1>. SUFFICES ASSUME N # 0 PROVE Chasing(N, S, next, combine, stop)
  BY <1>0
<1>1. PICK M \in Nat : M = N - 1 /\ N = M + 1
  <2>1. N - 1 \in Nat /\ N = (N - 1) + 1
    OBVIOUS
  <2>. QED
    BY <2>1
<1>2. S # {}
  <2>1. 1 \in 1 .. N
    OBVIOUS
  <2>2. stop[1] \in S
    BY <2>1
  <2>. QED
    BY <2>2
<1>. DEFINE Value(i, g) == IF next[N - i] \in (N - i) + 1 .. N
                           THEN combine[<<N - i, g[N - next[N - i]]>>] ELSE stop[N - i]
<1>3. PICK step : step = [p \in (0 .. M) \X [0 .. M -> S] |-> Value(p[1], p[2])]
  OBVIOUS
<1>4. ASSUME NEW i \in 0 .. M PROVE N - i \in 1 .. N
  BY <1>1
<1>5. ASSUME NEW i \in 0 .. M, next[N - i] \in (N - i) + 1 .. N
      PROVE  N - next[N - i] \in 0 .. i - 1 /\ N - next[N - i] \in 0 .. M
  <2>1. PICK k \in Nat : k = next[N - i]
    BY <1>4
  <2>. QED
    BY <1>1, <1>5, <2>1
<1>6. ASSUME NEW i \in 0 .. M, NEW g \in [0 .. M -> S]
      PROVE  step[<<i, g>>] = Value(i, g) /\ Value(i, g) \in S
  <2>1. step[<<i, g>>] = Value(i, g)
    BY <1>3
  <2>2. CASE next[N - i] \in (N - i) + 1 .. N
    <3>1. g[N - next[N - i]] \in S /\ N - i \in 1 .. N
      BY <1>4, <1>5, <2>2
    <3>2. combine[<<N - i, g[N - next[N - i]]>>] \in S
      BY <3>1
    <3>. QED
      BY <2>1, <2>2, <3>2
  <2>3. CASE ~(next[N - i] \in (N - i) + 1 .. N)
    <3>1. stop[N - i] \in S
      BY <1>4
    <3>. QED
      BY <2>1, <2>3, <3>1
  <2>. QED
    BY <2>2, <2>3
<1>7. step \in StepsUp(M, S)
  <2>1. step \in [(0 .. M) \X [0 .. M -> S] -> S]
    <3>. HIDE DEF Value
    <3>. QED
      BY <1>3, <1>6
  <2>2. ASSUME NEW i \in 0 .. M, NEW g \in [0 .. M -> S], NEW h \in [0 .. M -> S],
               \A j \in 0 .. i - 1 : g[j] = h[j]
        PROVE  step[<<i, g>>] = step[<<i, h>>]
    <3>1. CASE next[N - i] \in (N - i) + 1 .. N
      <4>1. g[N - next[N - i]] = h[N - next[N - i]]
        BY <1>5, <2>2, <3>1
      <4>2. Value(i, g) = Value(i, h)
        BY <3>1, <4>1
      <4>. HIDE DEF Value
      <4>. QED
        BY <1>6, <4>2
    <3>2. CASE ~(next[N - i] \in (N - i) + 1 .. N)
      BY <1>6, <3>2
    <3>. QED
      BY <3>1, <3>2
  <2>. QED
    BY <2>1, <2>2 DEF StepsUp
<1>8. PICK g \in [0 .. M -> S] : \A i \in 0 .. M : g[i] = step[<<i, g>>]
  <2>1. Recursive(0 .. M, S, step)
    BY <1>2, <1>7, Upwards
  <2>. QED
    BY <2>1 DEF Recursive
<1>9. ASSUME NEW i \in 0 .. M PROVE g[i] = Value(i, g)
  <2>. HIDE DEF Value
  <2>. QED
    BY <1>6, <1>8
<1>10. PICK f : f = [i \in 1 .. N |-> g[N - i]]
  OBVIOUS
<1>11. ASSUME NEW i \in 1 .. N PROVE N - i \in 0 .. M /\ N - (N - i) = i
  BY <1>1
<1>12. f \in [1 .. N -> S]
  BY <1>10, <1>11
<1>13. ASSUME NEW i \in 1 .. N
       PROVE  f[i] = IF next[i] \in i + 1 .. N THEN combine[<<i, f[next[i]]>>] ELSE stop[i]
  <2>1. f[i] = g[N - i] /\ g[N - i] = Value(N - i, g) /\ N - (N - i) = i
    <3>1. f[i] = g[N - i]
      BY <1>10
    <3>2. g[N - i] = Value(N - i, g)
      <4>. HIDE DEF Value
      <4>. QED
        BY <1>9, <1>11
    <3>. QED
      BY <1>11, <3>1, <3>2
  <2>2. f[i] = IF next[i] \in i + 1 .. N THEN combine[<<i, g[N - next[i]]>>] ELSE stop[i]
    BY <2>1
  <2>3. next[i] \in i + 1 .. N => g[N - next[i]] = f[next[i]]
    <3>1. next[i] \in Nat
      OBVIOUS
    <3>2. next[i] \in i + 1 .. N => next[i] \in 1 .. N
      BY <3>1
    <3>. QED
      BY <1>10, <3>2
  <2>. QED
    BY <2>2, <2>3
<1>. QED
  BY <1>12, <1>13 DEF Chasing

-----------------------------------------------------------------------------
(* Positions in a text *)

Token == STRING \union {"\"", "\\", "LF", "CR", "TAB", "BS", "FF", "X", "HILO", "/", " ", ":", ",",
                        "{", "}", "[", "]", "1", "-", "+", ".", "true", "uHI", "uLO", "end"}

\* The text stands in s, from i on.
HasAt(s, i, text) ==
    /\ i \in Nat \ {0} /\ i + Len(text) <= Len(s) + 1
    /\ \A k \in 1 .. Len(text) : Get(s, i + k - 1) = text[k]

LEMMA HasParts ==
    ASSUME NEW S, NEW s \in Seq(S), NEW i \in Nat, NEW T, NEW a \in Seq(T), NEW b \in Seq(T),
           HasAt(s, i, a \o b)
    PROVE  HasAt(s, i, a) /\ HasAt(s, i + Len(a), b)
<1>1. PICK M \in Nat, N \in Nat, L \in Nat : M = Len(a) /\ N = Len(b) /\ L = Len(s)
  OBVIOUS
<1>2. PICK ab : ab = a \o b
  OBVIOUS
<1>3. /\ Len(ab) = M + N
      /\ \A k \in 1 .. M : ab[k] = a[k]
      /\ \A k \in 1 .. N : ab[M + k] = b[k]
  BY <1>1, <1>2
<1>4. i # 0 /\ i + (M + N) <= L + 1 /\ \A k \in 1 .. M + N : Get(s, i + k - 1) = ab[k]
  BY <1>1, <1>2, <1>3 DEF HasAt
<1>5. HasAt(s, i, a)
  <2>1. \A k \in 1 .. M : k \in 1 .. M + N
    OBVIOUS
  <2>. QED
    BY <1>1, <1>3, <1>4, <2>1 DEF HasAt
<1>6. ASSUME NEW k \in 1 .. N PROVE Get(s, i + M + k - 1) = b[k]
  <2>1. M + k \in 1 .. M + N /\ i + (M + k) - 1 = i + M + k - 1
    OBVIOUS
  <2>2. Get(s, i + (M + k) - 1) = ab[M + k]
    BY <1>4, <2>1
  <2>. QED
    BY <1>3, <2>1, <2>2
<1>7. HasAt(s, i + M, b)
  <2>1. i + M \in Nat \ {0} /\ i + M + N <= L + 1
    BY <1>4
  <2>. QED
    BY <1>1, <1>6, <2>1 DEF HasAt
<1>. QED
  BY <1>1, <1>5, <1>7

\* The first token.
LEMMA HasFirst ==
    ASSUME NEW S, NEW s \in Seq(S), NEW i \in Nat, NEW T, NEW c \in T, HasAt(s, i, <<c>>)
    PROVE  i \in 1 .. Len(s) /\ Get(s, i) = c
<1>1. PICK a : a = <<c>>
  OBVIOUS
<1>2. Len(a) = 1 /\ a[1] = c
  BY <1>1
<1>3. Get(s, i + 1 - 1) = a[1]
  BY <1>1, <1>2 DEF HasAt
<1>. QED
  BY <1>1, <1>2, <1>3 DEF HasAt

LEMMA Skipped ==
    ASSUME NEW S, NEW s \in Seq(S), NEW i \in Nat \ {0}, NEW tokens, "end" \notin tokens
    PROVE  /\ SkipAll(s, i, tokens) \in i .. i + Len(s)
           /\ Get(s, SkipAll(s, i, tokens)) \notin tokens
           /\ \A k \in i .. SkipAll(s, i, tokens) - 1 : Get(s, k) \in tokens
<1>1. PICK N \in Nat : N = Len(s) /\ DOMAIN s = 1 .. N
  OBVIOUS
<1>2. PICK T : T = {j \in i .. i + N : Get(s, j) \notin tokens}
  OBVIOUS
<1>3. i + N \in T
  <2>1. i + N \notin 1 .. N /\ i + N \in i .. i + N
    OBVIOUS
  <2>2. Get(s, i + N) = "end"
    BY <1>1, <2>1 DEF Get
  <2>. QED
    BY <1>2, <2>1, <2>2
<1>4. T \subseteq Nat /\ T # {}
  <2>1. \A j \in i .. i + N : j \in Nat
    OBVIOUS
  <2>. QED
    BY <1>2, <1>3, <2>1
<1>5. PICK j \in T : \A k \in T : j <= k
  BY <1>4, Least
<1>6. /\ j \in i .. i + N /\ Get(s, j) \notin tokens
      /\ \A k \in i .. j - 1 : Get(s, k) \in tokens
  <2>1. j \in i .. i + N /\ Get(s, j) \notin tokens
    BY <1>2
  <2>2. ASSUME NEW k \in i .. j - 1 PROVE Get(s, k) \in tokens
    <3>1. k \in i .. i + N /\ ~(j <= k)
      BY <2>1
    <3>. QED
      BY <1>2, <1>5, <3>1
  <2>. QED
    BY <2>1, <2>2
<1>. DEFINE Here(q) == Get(s, q) \notin tokens /\ \A k \in i .. q - 1 : Get(s, k) \in tokens
<1>7. SkipAll(s, i, tokens) = CHOOSE q \in i .. i + N : Here(q)
  BY <1>1 DEF SkipAll
<1>8. \E q \in i .. i + N : Here(q)
  BY <1>6
<1>9. SkipAll(s, i, tokens) \in i .. i + N /\ Here(SkipAll(s, i, tokens))
  <2>. HIDE DEF Here
  <2>. QED
    BY <1>7, <1>8
<1>. QED
  BY <1>1, <1>9

LEMMA SkippedTo ==
    ASSUME NEW S, NEW s \in Seq(S), NEW i \in Nat \ {0}, NEW tokens, "end" \notin tokens,
           NEW j \in Nat, i <= j, Get(s, j) \notin tokens,
           \A k \in i .. j - 1 : Get(s, k) \in tokens
    PROVE  SkipAll(s, i, tokens) = j
<1>1. PICK q : q = SkipAll(s, i, tokens)
  OBVIOUS
<1>2. PICK N \in Nat : N = Len(s)
  OBVIOUS
<1>3. /\ q \in i .. i + N
      /\ Get(s, q) \notin tokens
      /\ \A k \in i .. q - 1 : Get(s, k) \in tokens
  BY <1>1, <1>2, Skipped
<1>4. ~(q < j)
  <2>1. q < j => q \in i .. j - 1
    BY <1>3
  <2>. QED
    BY <1>3, <2>1
<1>5. ~(j < q)
  <2>1. j < q => j \in i .. q - 1
    BY <1>3
  <2>. QED
    BY <1>3, <2>1
<1>. QED
  BY <1>1, <1>3, <1>4, <1>5

\* t is s cut off.
IsCut(t, s) ==
    /\ Len(t) <= Len(s)
    /\ \A i : Get(t, i) # "end" => Get(s, i) = Get(t, i)

LEMMA SkippedInCut ==
    ASSUME NEW S, NEW s \in Seq(S), NEW t \in Seq(S), IsCut(t, s),
           NEW i \in Nat \ {0}, NEW tokens, "end" \notin tokens,
           Get(t, SkipAll(t, i, tokens)) # "end"
    PROVE  SkipAll(s, i, tokens) = SkipAll(t, i, tokens)
<1>1. PICK q : q = SkipAll(t, i, tokens)
  OBVIOUS
<1>2. PICK N \in Nat : N = Len(t)
  OBVIOUS
<1>3. /\ q \in i .. i + N
      /\ Get(t, q) \notin tokens
      /\ \A k \in i .. q - 1 : Get(t, k) \in tokens
  BY <1>1, <1>2, Skipped
<1>4. Get(s, q) \notin tokens /\ \A k \in i .. q - 1 : Get(s, k) \in tokens
  BY <1>1, <1>3 DEF IsCut
<1>. QED
  BY <1>1, <1>3, <1>4, SkippedTo

\* Spaces are skipped.
LEMMA SkippedText ==
    ASSUME NEW S, NEW s \in Seq(S), NEW i \in Nat, NEW tokens, "end" \notin tokens,
           NEW text \in Seq(tokens), HasAt(s, i, text), Get(s, i + Len(text)) \notin tokens
    PROVE  SkipAll(s, i, tokens) = i + Len(text)
<1>1. PICK N \in Nat : N = Len(text) /\ \A k \in 1 .. N : text[k] \in tokens
  OBVIOUS
<1>2. i # 0 /\ \A k \in 1 .. N : Get(s, i + k - 1) \in tokens
  BY <1>1 DEF HasAt
<1>3. ASSUME NEW k \in i .. (i + N) - 1 PROVE Get(s, k) \in tokens
  <2>1. k - i + 1 \in 1 .. N /\ i + (k - i + 1) - 1 = k
    OBVIOUS
  <2>. QED
    BY <1>2, <2>1
<1>4. i + N \in Nat /\ i <= i + N /\ i \in Nat \ {0}
  BY <1>2
<1>. QED
  BY <1>1, <1>3, <1>4, SkippedTo

LEMMA NoSpaces == "end" \notin Spaces /\ "end" \notin ScalarBytes /\ Spaces \intersect ScalarBytes = {}
BY DEF Spaces, ScalarBytes

-----------------------------------------------------------------------------
(* Where a string ends *)

LEMMA StringEnds ==
    ASSUME NEW S, NEW s \in Seq(S), NEW i \in 1 .. Len(s) + 1
    PROVE  StringEnd(s)[i] =
              IF Get(s, i) = "\"" THEN i + 1
              ELSE IF Get(s, i) = "\\" THEN IF Get(s, i + 1) = "end" THEN 0 ELSE StringEnd(s)[i + 2]
              ELSE IF Get(s, i) \in ControlBytes \union {"end"} THEN 0
              ELSE StringEnd(s)[i + 1]
<1>1. PICK N \in Nat : N = Len(s) + 1 /\ DOMAIN s = 1 .. N - 1
  <2>1. PICK L \in Nat : L = Len(s) /\ DOMAIN s = 1 .. L
    OBVIOUS
  <2>2. L + 1 \in Nat /\ (L + 1) - 1 = L
    OBVIOUS
  <2>. QED
    BY <2>1, <2>2
<1>. DEFINE Equation(end) == end = [k \in 1 .. Len(s) + 1 |->
                IF Get(s, k) = "\"" THEN k + 1
                ELSE IF Get(s, k) = "\\" THEN IF Get(s, k + 1) = "end" THEN 0 ELSE end[k + 2]
                ELSE IF Get(s, k) \in ControlBytes \union {"end"} THEN 0
                ELSE end[k + 1]]
            string == CHOOSE end : Equation(end)
<1>2. PICK next : next = [k \in 1 .. N |->
                IF Get(s, k) = "\"" THEN 0
                ELSE IF Get(s, k) = "\\" THEN IF Get(s, k + 1) = "end" THEN 0 ELSE k + 2
                ELSE IF Get(s, k) \in ControlBytes \union {"end"} THEN 0
                ELSE k + 1]
  OBVIOUS
<1>3. PICK combine : combine = [p \in (1 .. N) \X Nat |-> p[2]]
  OBVIOUS
<1>4. PICK stop : stop = [k \in 1 .. N |-> IF Get(s, k) = "\"" THEN k + 1 ELSE 0]
  OBVIOUS
<1>5. next \in [1 .. N -> Nat] /\ combine \in [(1 .. N) \X Nat -> Nat] /\ stop \in [1 .. N -> Nat]
  <2>0. \A k \in 1 .. N : k + 1 \in Nat /\ k + 2 \in Nat /\ 0 \in Nat
    OBVIOUS
  <2>1. next \in [1 .. N -> Nat]
    BY <1>2, <2>0, Zenon
  <2>2. combine \in [(1 .. N) \X Nat -> Nat]
    BY <1>3
  <2>3. stop \in [1 .. N -> Nat]
    BY <1>4, <2>0, Zenon
  <2>. QED
    BY <2>1, <2>2, <2>3
<1>6. Chasing(N, Nat, next, combine, stop)
  BY <1>5, Chased
<1>7. PICK f \in [1 .. N -> Nat] : \A k \in 1 .. N :
          f[k] = IF next[k] \in k + 1 .. N THEN combine[<<k, f[next[k]]>>] ELSE stop[k]
  BY <1>6 DEF Chasing
<1>8. ASSUME NEW k \in 1 .. N, NEW j \in k + 1 .. N, next[k] = j PROVE f[k] = f[j]
  <2>1. j \in 1 .. N /\ f[j] \in Nat
    OBVIOUS
  <2>2. combine[<<k, f[j]>>] = f[j]
    BY <1>3, <2>1
  <2>. QED
    BY <1>7, <1>8, <2>2
<1>9. ASSUME NEW k \in 1 .. N, next[k] = 0 PROVE f[k] = stop[k]
  <2>1. next[k] \notin k + 1 .. N
    BY <1>9
  <2>. QED
    BY <1>7, <2>1
<1>10. ASSUME NEW k \in 1 .. N
       PROVE  f[k] = IF Get(s, k) = "\"" THEN k + 1
                     ELSE IF Get(s, k) = "\\" THEN IF Get(s, k + 1) = "end" THEN 0 ELSE f[k + 2]
                     ELSE IF Get(s, k) \in ControlBytes \union {"end"} THEN 0
                     ELSE f[k + 1]
  <2>1. ASSUME Get(s, k) # "end" PROVE k + 1 \in k + 1 .. N
    BY <1>1, <2>1 DEF Get
  <2>2. ASSUME Get(s, k + 1) # "end" PROVE k + 2 \in k + 1 .. N
    BY <1>1, <2>2 DEF Get
  <2>3. CASE Get(s, k) = "\""
    <3>1. next[k] = 0 /\ stop[k] = k + 1
      BY <1>2, <1>4, <2>3
    <3>. QED
      BY <1>9, <2>3, <3>1
  <2>4. CASE Get(s, k) = "\\"
    <3>1. CASE Get(s, k + 1) = "end"
      <4>1. next[k] = 0 /\ stop[k] = 0
        BY <1>2, <1>4, <2>4, <3>1
      <4>. QED
        BY <1>9, <2>4, <3>1, <4>1
    <3>2. CASE Get(s, k + 1) # "end"
      <4>1. next[k] = k + 2
        BY <1>2, <2>4, <3>2
      <4>2. f[k] = f[k + 2]
        BY <1>8, <2>2, <3>2, <4>1
      <4>. QED
        BY <2>4, <3>2, <4>2
    <3>. QED
      BY <3>1, <3>2
  <2>5. CASE Get(s, k) \notin {"\"", "\\"} /\ Get(s, k) \in ControlBytes \union {"end"}
    <3>1. next[k] = 0 /\ stop[k] = 0
      BY <1>2, <1>4, <2>5
    <3>. QED
      BY <1>9, <2>5, <3>1
  <2>6. CASE Get(s, k) \notin {"\"", "\\"} /\ Get(s, k) \notin ControlBytes \union {"end"}
    <3>1. next[k] = k + 1
      BY <1>2, <2>6
    <3>2. f[k] = f[k + 1]
      BY <1>8, <2>1, <2>6, <3>1
    <3>. QED
      BY <2>6, <3>2
  <2>. QED
    BY <2>3, <2>4, <2>5, <2>6
<1>11. Equation(f)
  BY <1>1, <1>10
<1>12. Equation(string)
  BY <1>11
<1>13. StringEnd(s) = string
  BY DEF StringEnd
<1>. HIDE DEF string
<1>. QED
  BY <1>12, <1>13

StringEndRange(s, i) == {0} \union (i + 1 .. Len(s) + 1)

LEMMA StringEndType ==
    ASSUME NEW S, NEW s \in Seq(S)
    PROVE  \A i \in 1 .. Len(s) + 1 : StringEnd(s)[i] \in StringEndRange(s, i)
<1>1. PICK N \in Nat : N = Len(s) + 1 /\ DOMAIN s = 1 .. N - 1
  <2>1. PICK L \in Nat : L = Len(s) /\ DOMAIN s = 1 .. L
    OBVIOUS
  <2>2. L + 1 \in Nat /\ (L + 1) - 1 = L
    OBVIOUS
  <2>. QED
    BY <2>1, <2>2
<1>2. PICK P : P = {i \in 1 .. N : StringEnd(s)[i] \in StringEndRange(s, i)}
  OBVIOUS
<1>3. ASSUME NEW i \in 1 .. N, \A j \in i + 1 .. N : j \in P PROVE i \in P
  <2>1. ASSUME NEW j \in i + 1 .. N, StringEnd(s)[i] = StringEnd(s)[j] PROVE i \in P
    <3>1. StringEnd(s)[j] \in {0} \union (j + 1 .. N)
      BY <1>1, <1>2, <1>3 DEF StringEndRange
    <3>. QED
      BY <1>1, <1>2, <2>1, <3>1 DEF StringEndRange
  <2>2. CASE Get(s, i) = "\""
    <3>1. StringEnd(s)[i] = i + 1 /\ i \in 1 .. N - 1
      BY <1>1, <2>2, StringEnds DEF Get
    <3>. QED
      BY <1>1, <1>2, <3>1 DEF StringEndRange
  <2>3. CASE Get(s, i) = "\\"
    <3>1. CASE Get(s, i + 1) = "end"
      <4>1. StringEnd(s)[i] = 0
        BY <1>1, <2>3, <3>1, StringEnds
      <4>. QED
        BY <1>2, <4>1 DEF StringEndRange
    <3>2. CASE Get(s, i + 1) # "end"
      <4>1. i + 1 \in 1 .. N - 1
        BY <1>1, <3>2 DEF Get
      <4>2. StringEnd(s)[i] = StringEnd(s)[i + 2]
        BY <1>1, <2>3, <3>2, StringEnds
      <4>3. i + 2 \in i + 1 .. N
        BY <4>1
      <4>. QED
        BY <2>1, <4>2, <4>3
    <3>. QED
      BY <3>1, <3>2
  <2>4. CASE Get(s, i) \notin {"\"", "\\"} /\ Get(s, i) \in ControlBytes \union {"end"}
    <3>1. StringEnd(s)[i] = 0
      BY <1>1, <2>4, StringEnds
    <3>. QED
      BY <1>2, <3>1 DEF StringEndRange
  <2>5. CASE Get(s, i) \notin {"\"", "\\"} /\ Get(s, i) \notin ControlBytes \union {"end"}
    <3>1. i \in 1 .. N - 1
      BY <1>1, <2>5 DEF Get
    <3>2. StringEnd(s)[i] = StringEnd(s)[i + 1]
      BY <1>1, <2>5, StringEnds
    <3>3. i + 1 \in i + 1 .. N
      BY <3>1
    <3>. QED
      BY <2>1, <3>2, <3>3
  <2>. QED
    BY <2>2, <2>3, <2>4, <2>5
<1>4. \A i \in 1 .. N : i \in P
  BY <1>3, Downward, Zenon
<1>. QED
  BY <1>1, <1>2, <1>4

\* In a text that is cut off a string ends where it ends in the whole, or nowhere.
LEMMA StringEndInCut ==
    ASSUME NEW S, NEW s \in Seq(S), NEW t \in Seq(S), IsCut(t, s)
    PROVE  \A i \in 1 .. Len(t) + 1 : StringEnd(t)[i] # 0 => StringEnd(s)[i] = StringEnd(t)[i]
<1>1. PICK N \in Nat : N = Len(t) + 1 /\ N <= Len(s) + 1 /\ DOMAIN t = 1 .. N - 1
  <2>1. PICK L \in Nat : L = Len(t) /\ DOMAIN t = 1 .. L
    OBVIOUS
  <2>2. L + 1 \in Nat /\ (L + 1) - 1 = L
    OBVIOUS
  <2>3. L <= Len(s)
    BY <2>1 DEF IsCut
  <2>. QED
    BY <2>1, <2>2, <2>3
<1>2. PICK P : P = {i \in 1 .. N : StringEnd(t)[i] # 0 => StringEnd(s)[i] = StringEnd(t)[i]}
  OBVIOUS
<1>3. ASSUME NEW i \in 1 .. N, \A j \in i + 1 .. N : j \in P PROVE i \in P
  <2>0. i \in 1 .. Len(s) + 1 /\ i \in 1 .. Len(t) + 1
    BY <1>1
  <2>1. ASSUME NEW j \in i + 1 .. N, StringEnd(t)[i] = StringEnd(t)[j],
               StringEnd(s)[i] = StringEnd(s)[j]
        PROVE  i \in P
    BY <1>2, <1>3, <2>1
  <2>2. CASE Get(t, i) = "\""
    <3>1. Get(s, i) = "\""
      BY <2>2 DEF IsCut
    <3>2. StringEnd(t)[i] = i + 1 /\ StringEnd(s)[i] = i + 1
      BY <2>0, <2>2, <3>1, StringEnds
    <3>. QED
      BY <1>2, <3>2
  <2>3. CASE Get(t, i) = "\\"
    <3>0. Get(s, i) = "\\"
      BY <2>3 DEF IsCut
    <3>1. CASE Get(t, i + 1) = "end"
      <4>1. StringEnd(t)[i] = 0
        BY <2>0, <2>3, <3>1, StringEnds
      <4>. QED
        BY <1>2, <4>1
    <3>2. CASE Get(t, i + 1) # "end"
      <4>1. Get(s, i + 1) # "end"
        BY <3>2 DEF IsCut
      <4>2. StringEnd(t)[i] = StringEnd(t)[i + 2]
        BY <2>0, <2>3, <3>2, StringEnds
      <4>3. StringEnd(s)[i] = StringEnd(s)[i + 2]
        BY <2>0, <3>0, <4>1, StringEnds
      <4>4. i + 1 \in 1 .. N - 1
        BY <1>1, <3>2 DEF Get
      <4>5. i + 2 \in i + 1 .. N
        BY <4>4
      <4>. QED
        BY <2>1, <4>2, <4>3, <4>5
    <3>. QED
      BY <3>1, <3>2
  <2>4. CASE Get(t, i) \notin {"\"", "\\"} /\ Get(t, i) \in ControlBytes \union {"end"}
    <3>1. StringEnd(t)[i] = 0
      BY <2>0, <2>4, StringEnds
    <3>. QED
      BY <1>2, <3>1
  <2>5. CASE Get(t, i) \notin {"\"", "\\"} /\ Get(t, i) \notin ControlBytes \union {"end"}
    <3>1. Get(s, i) = Get(t, i)
      BY <2>5 DEF IsCut
    <3>2. i \in 1 .. N - 1
      BY <1>1, <2>5 DEF Get
    <3>3. StringEnd(t)[i] = StringEnd(t)[i + 1]
      BY <2>0, <2>5, StringEnds
    <3>4. StringEnd(s)[i] = StringEnd(s)[i + 1]
      BY <2>0, <2>5, <3>1, StringEnds
    <3>5. i + 1 \in i + 1 .. N
      BY <3>2
    <3>. QED
      BY <2>1, <3>3, <3>4, <3>5
  <2>. QED
    BY <2>2, <2>3, <2>4, <2>5
<1>4. \A i \in 1 .. N : i \in P
  BY <1>3, Downward, Zenon
<1>. QED
  BY <1>1, <1>2, <1>4

\* Where each part of a text begins and ends, that stands at i.
Laid(s, i, parts, p) ==
    /\ p \in [0 .. Len(parts) -> Nat]
    /\ p[0] = i /\ p[Len(parts)] = i + Len(FlattenSeq(parts))
    /\ \A k \in 1 .. Len(parts) :
          HasAt(s, p[k - 1], parts[k]) /\ p[k] = p[k - 1] + Len(parts[k])

LEMMA LaidOut ==
    ASSUME NEW S, NEW s \in Seq(S), NEW i \in Nat, NEW T, NEW parts \in Seq(Seq(T)),
           HasAt(s, i, FlattenSeq(parts))
    PROVE  \E p : Laid(s, i, parts, p)
<1>1. PICK n \in Nat : n = Len(parts) /\ \A k \in 1 .. n : parts[k] \in Seq(T)
  OBVIOUS
<1>2. PICK f \in [0 .. n -> Seq(T)] :
          /\ f[0] = <<>>
          /\ \A k \in 1 .. n : f[k] = f[k - 1] \o parts[k]
          /\ FlattenSeq(parts) = f[n]
  BY <1>1, Flattened
<1>3. PICK P : P = {k \in 0 .. n : HasAt(s, i, f[n - k])}
  OBVIOUS
<1>4. ASSUME NEW k \in 1 .. n, HasAt(s, i, f[k])
      PROVE  HasAt(s, i, f[k - 1]) /\ HasAt(s, i + Len(f[k - 1]), parts[k])
  <2>1. k - 1 \in 0 .. n
    OBVIOUS
  <2>2. f[k - 1] \in Seq(T) /\ parts[k] \in Seq(T) /\ f[k] = f[k - 1] \o parts[k]
    BY <1>1, <1>2, <2>1
  <2>. QED
    BY <1>4, <2>2, HasParts
<1>5. 0 \in P
  <2>1. n - 0 = n
    OBVIOUS
  <2>. QED
    BY <1>2, <1>3, <2>1
<1>6. ASSUME NEW k \in 0 .. n - 1, k \in P PROVE k + 1 \in P
  <2>1. n - k \in 1 .. n /\ (n - k) - 1 = n - (k + 1) /\ k + 1 \in 0 .. n
    OBVIOUS
  <2>2. HasAt(s, i, f[n - k])
    BY <1>3, <1>6
  <2>3. HasAt(s, i, f[n - (k + 1)])
    BY <1>4, <2>1, <2>2
  <2>. QED
    BY <1>3, <2>1, <2>3
<1>7. \A k \in 0 .. n : k \in P
  BY <1>5, <1>6, Induct, Zenon
<1>8. ASSUME NEW k \in 0 .. n PROVE HasAt(s, i, f[k])
  <2>1. n - k \in 0 .. n /\ n - (n - k) = k
    OBVIOUS
  <2>. QED
    BY <1>3, <1>7, <2>1
<1>9. PICK p : p = [k \in 0 .. n |-> i + Len(f[k])]
  OBVIOUS
<1>10. p \in [0 .. n -> Nat]
  <2>1. ASSUME NEW k \in 0 .. n PROVE i + Len(f[k]) \in Nat
    OBVIOUS
  <2>. QED
    BY <1>9, <2>1
<1>11. p[0] = i /\ p[n] = i + Len(FlattenSeq(parts))
  <2>1. Len(f[0]) = 0
    BY <1>2
  <2>2. p[0] = i + Len(f[0]) /\ p[n] = i + Len(f[n])
    BY <1>9
  <2>. QED
    BY <1>2, <2>1, <2>2
<1>12. ASSUME NEW k \in 1 .. n
       PROVE  HasAt(s, p[k - 1], parts[k]) /\ p[k] = p[k - 1] + Len(parts[k])
  <2>1. k - 1 \in 0 .. n /\ k \in 0 .. n
    OBVIOUS
  <2>2. p[k - 1] = i + Len(f[k - 1]) /\ p[k] = i + Len(f[k])
    BY <1>9, <2>1
  <2>3. HasAt(s, i + Len(f[k - 1]), parts[k])
    BY <1>4, <1>8, <2>1
  <2>4. f[k - 1] \in Seq(T) /\ parts[k] \in Seq(T) /\ f[k] = f[k - 1] \o parts[k]
    BY <1>1, <1>2, <2>1
  <2>5. Len(f[k]) = Len(f[k - 1]) + Len(parts[k]) /\ Len(f[k - 1]) \in Nat /\ Len(parts[k]) \in Nat
    BY <2>4
  <2>6. PICK a \in Nat, b \in Nat : a = Len(f[k - 1]) /\ b = Len(parts[k])
    BY <2>5
  <2>7. p[k - 1] = i + a /\ p[k] = i + (a + b)
    BY <2>2, <2>5, <2>6
  <2>8. p[k] = p[k - 1] + Len(parts[k])
    <3>1. i + (a + b) = (i + a) + b
      OBVIOUS
    <3>. QED
      BY <2>6, <2>7, <3>1
  <2>. QED
    BY <2>2, <2>3, <2>8
<1>. QED
  BY <1>1, <1>10, <1>11, <1>12 DEF Laid

LEMMA Tokens ==
    /\ \A text : text \in Seq(STRING) => text \in Seq(Token)
    /\ \A parts : parts \in Seq(Seq(STRING)) => parts \in Seq(Seq(Token))
    /\ {"\"", "\\", "LF", "CR", "TAB", "BS", "FF", "X", "HILO", "/", " ", ":", ",", "{", "}", "[", "]",
        "1", "-", "+", ".", "true", "uHI", "uLO", "end"} \subseteq Token
<1>1. PICK S : S = STRING
  OBVIOUS
<1>2. S \subseteq Token
  BY <1>1 DEF Token
<1>3. \A text : text \in Seq(S) => text \in Seq(Token)
  BY <1>2
<1>4. Seq(S) \subseteq Seq(Token)
  BY <1>3
<1>5. \A parts : parts \in Seq(Seq(S)) => parts \in Seq(Seq(Token))
  BY <1>4
<1>6. {"\"", "\\", "LF", "CR", "TAB", "BS", "FF", "X", "HILO", "/", " ", ":", ",", "{", "}", "[", "]",
       "1", "-", "+", ".", "true", "uHI", "uLO", "end"} \subseteq Token
  BY DEF Token
<1>. QED
  BY <1>1, <1>3, <1>5, <1>6

LEMMA StringTextType ==
    ASSUME NEW pieces, IsString(pieces)
    PROVE  /\ pieces \in Seq(Seq(Token)) /\ FlattenSeq(pieces) \in Seq(Token)
           /\ StringText(pieces) \in Seq(Token)
           /\ Len(StringText(pieces)) = Len(FlattenSeq(pieces)) + 2
<1>1. pieces \in Seq(Seq(Token))
  BY Tokens DEF IsString
<1>2. PICK flat \in Seq(Token) : flat = FlattenSeq(pieces)
  BY <1>1, FlattenedType
<1>3. PICK q \in Token : q = "\""
  BY Tokens
<1>4. <<q>> \in Seq(Token) /\ Len(<<q>>) = 1
  OBVIOUS
<1>5. <<q>> \o flat \in Seq(Token) /\ Len(<<q>> \o flat) = Len(flat) + 1
  BY <1>4
<1>6. (<<q>> \o flat) \o <<q>> \in Seq(Token) /\ Len((<<q>> \o flat) \o <<q>>) = Len(flat) + 2
  BY <1>4, <1>5
<1>. QED
  BY <1>1, <1>2, <1>3, <1>6 DEF StringText

\* The tokens of a string: a quote, its pieces, a quote.
LaidString(s, i, pieces, p) ==
    /\ Laid(s, i + 1, pieces, p)
    /\ i \in 1 .. Len(s) /\ Get(s, i) = "\""
    /\ p[Len(pieces)] \in 1 .. Len(s) /\ Get(s, p[Len(pieces)]) = "\""
    /\ i + Len(StringText(pieces)) = p[Len(pieces)] + 1

LEMMA StringLaid ==
    ASSUME NEW S, NEW s \in Seq(S), NEW i \in Nat, NEW pieces, IsString(pieces),
           HasAt(s, i, StringText(pieces))
    PROVE  \E p : LaidString(s, i, pieces, p)
<1>1. pieces \in Seq(Seq(Token)) /\ Len(StringText(pieces)) = Len(FlattenSeq(pieces)) + 2
  BY StringTextType
<1>2. PICK flat \in Seq(Token) : flat = FlattenSeq(pieces)
  BY StringTextType
<1>3. PICK q \in Token : q = "\""
  BY Tokens
<1>4. <<q>> \in Seq(Token) /\ Len(<<q>>) = 1
  OBVIOUS
<1>5. <<q>> \o flat \in Seq(Token) /\ Len(<<q>> \o flat) = Len(flat) + 1
  BY <1>4
<1>6. HasAt(s, i, (<<q>> \o flat) \o <<q>>)
  BY <1>2, <1>3 DEF StringText
<1>7. HasAt(s, i, <<q>> \o flat) /\ HasAt(s, i + Len(<<q>> \o flat), <<q>>)
  BY <1>4, <1>5, <1>6, HasParts
<1>8. HasAt(s, i, <<q>>) /\ HasAt(s, i + 1, flat)
  BY <1>4, <1>7, HasParts
<1>9. i \in 1 .. Len(s) /\ Get(s, i) = q
  BY <1>8, HasFirst
<1>10. i + Len(<<q>> \o flat) \in 1 .. Len(s) /\ Get(s, i + Len(<<q>> \o flat)) = q
  <2>1. i + Len(<<q>> \o flat) \in Nat
    BY <1>5
  <2>. QED
    BY <1>7, <2>1, HasFirst
<1>11. PICK p : Laid(s, i + 1, pieces, p)
  BY <1>1, <1>2, <1>8, LaidOut
<1>12. p[Len(pieces)] = i + 1 + Len(flat)
  BY <1>2, <1>11 DEF Laid
<1>13. i + Len(<<q>> \o flat) = p[Len(pieces)]
  BY <1>5, <1>12
<1>14. i + Len(StringText(pieces)) = p[Len(pieces)] + 1
  BY <1>1, <1>2, <1>12
<1>. QED
  BY <1>3, <1>9, <1>10, <1>11, <1>13, <1>14 DEF LaidString

LEMMA HasTokens ==
    ASSUME NEW s, NEW i, NEW text \in Seq(Token), HasAt(s, i, text)
    PROVE  /\ Len(text) >= 1 => Get(s, i) = text[1]
           /\ Len(text) >= 2 => Get(s, i + 1) = text[2]
           /\ Len(text) >= 3 => Get(s, i + 2) = text[3]
           /\ Len(text) >= 4 => Get(s, i + 3) = text[4]
<1>1. PICK n \in Nat : n = Len(text)
  OBVIOUS
<1>2. i \in Nat /\ \A k \in 1 .. n : Get(s, i + k - 1) = text[k]
  BY <1>1 DEF HasAt
<1>3. /\ n >= 1 => Get(s, i + 1 - 1) = text[1]
      /\ n >= 2 => Get(s, i + 2 - 1) = text[2]
      /\ n >= 3 => Get(s, i + 3 - 1) = text[3]
      /\ n >= 4 => Get(s, i + 4 - 1) = text[4]
  BY <1>2
<1>4. i + 1 - 1 = i /\ i + 2 - 1 = i + 1 /\ i + 3 - 1 = i + 2 /\ i + 4 - 1 = i + 3
  BY <1>2
<1>. QED
  BY <1>1, <1>3, <1>4

IsPiece(piece) == IsPlain(piece) \/ IsEscape(piece) \/ piece = SurrogatePair

\* A string goes on after each of its pieces.
LEMMA StringGoesOn ==
    ASSUME NEW S, NEW s \in Seq(S), NEW i \in Nat, NEW piece \in Seq(Token), IsPiece(piece),
           HasAt(s, i, piece)
    PROVE  StringEnd(s)[i] = StringEnd(s)[i + Len(piece)]
<1>0. PICK N \in Nat : N = Len(s)
  OBVIOUS
<1>1. i \in 1 .. N + 1 /\ i + Len(piece) <= N + 1
  BY <1>0 DEF HasAt
<1>2. CASE IsPlain(piece)
  <2>0. Len(piece) = 1
    BY <1>2 DEF IsPlain
  <2>1. Len(piece) = 1 /\ Get(s, i) = piece[1]
    BY <2>0, HasTokens
  <2>2. Get(s, i) \notin {"\"", "\\", "end"} \union ControlBytes
    BY <1>2, <2>1 DEF IsPlain, ControlBytes
  <2>. QED
    BY <1>0, <1>1, <2>1, <2>2, StringEnds
<1>3. CASE IsEscape(piece)
  <2>0. Len(piece) = 2 /\ Len(piece) >= 1 /\ Len(piece) >= 2
    BY <1>3 DEF IsEscape
  <2>1. Len(piece) = 2 /\ Get(s, i) = piece[1] /\ Get(s, i + 1) = piece[2]
    BY <2>0, HasTokens, Zenon
  <2>2. Get(s, i) = "\\" /\ Get(s, i + 1) # "end"
    BY <1>3, <2>1 DEF IsEscape
  <2>. QED
    BY <1>0, <1>1, <2>1, <2>2, StringEnds
<1>4. CASE piece = SurrogatePair
  <2>1. /\ Len(piece) = 4 /\ piece[1] = "\\" /\ piece[2] = "uHI"
        /\ piece[3] = "\\" /\ piece[4] = "uLO"
    BY <1>4 DEF SurrogatePair
  <2>9. Len(piece) >= 1 /\ Len(piece) >= 2 /\ Len(piece) >= 3 /\ Len(piece) >= 4
    BY <2>1
  <2>2. Get(s, i) = "\\" /\ Get(s, i + 1) = "uHI" /\ Get(s, i + 2) = "\\" /\ Get(s, i + 3) = "uLO"
    <3>1. /\ Get(s, i) = piece[1] /\ Get(s, i + 1) = piece[2]
          /\ Get(s, i + 2) = piece[3] /\ Get(s, i + 3) = piece[4]
      BY <2>9, HasTokens, Zenon
    <3>. QED
      BY <2>1, <3>1
  <2>3. StringEnd(s)[i] = StringEnd(s)[i + 2]
    BY <1>0, <1>1, <2>2, StringEnds
  <2>4. i + 2 \in 1 .. N + 1 /\ i + 2 + 1 = i + 3 /\ i + 2 + 2 = i + 4
    BY <1>1, <2>1
  <2>5. StringEnd(s)[i + 2] = StringEnd(s)[i + 4]
    BY <1>0, <2>2, <2>4, StringEnds
  <2>. QED
    BY <2>1, <2>3, <2>5
<1>. QED
  BY <1>2, <1>3, <1>4 DEF IsPiece

LEMMA PiecesOfString ==
    ASSUME NEW pieces, IsString(pieces)
    PROVE  \A k \in 1 .. Len(pieces) : pieces[k] \in Seq(Token) /\ IsPiece(pieces[k])
<1>1. pieces \in Seq(Seq(Token))
  BY StringTextType
<1>2. PICK n \in Nat : n = Len(pieces) /\ DOMAIN pieces = 1 .. n
                       /\ \A k \in 1 .. n : pieces[k] \in Seq(Token)
  BY <1>1
<1>. QED
  BY <1>2 DEF IsString, IsPiece

\* The end of a string is after it.
LEMMA StringIsScanned ==
    ASSUME NEW S, NEW s \in Seq(S), NEW i \in Nat, NEW pieces, IsString(pieces),
           HasAt(s, i, StringText(pieces))
    PROVE  json_string_end(s, i) = i + Len(StringText(pieces))
<1>0. PICK p : LaidString(s, i, pieces, p)
  BY StringLaid
<1>1. /\ Laid(s, i + 1, pieces, p)
      /\ i \in 1 .. Len(s) /\ Get(s, i) = "\""
      /\ p[Len(pieces)] \in 1 .. Len(s) /\ Get(s, p[Len(pieces)]) = "\""
      /\ i + Len(StringText(pieces)) = p[Len(pieces)] + 1
  BY <1>0 DEF LaidString
<1>2. PICK n \in Nat : n = Len(pieces)
  <2>1. pieces \in Seq(Seq(Token))
    BY StringTextType
  <2>. QED
    BY <2>1
<1>3. /\ p \in [0 .. n -> Nat] /\ p[0] = i + 1
      /\ \A k \in 1 .. n : HasAt(s, p[k - 1], pieces[k]) /\ p[k] = p[k - 1] + Len(pieces[k])
  BY <1>1, <1>2 DEF Laid
<1>4. PICK P : P = {k \in 0 .. n : StringEnd(s)[p[n - k]] = p[n] + 1}
  OBVIOUS
<1>5. 0 \in P
  <2>0. p[n] \in 1 .. Len(s) + 1 /\ Get(s, p[n]) = "\""
    <3>1. PICK L \in Nat : L = Len(s)
      OBVIOUS
    <3>2. \A j \in 1 .. L : j \in 1 .. L + 1
      OBVIOUS
    <3>. QED
      BY <1>1, <1>2, <3>1, <3>2
  <2>1. StringEnd(s)[p[n]] = p[n] + 1
    BY <2>0, StringEnds
  <2>2. n - 0 = n
    OBVIOUS
  <2>. QED
    BY <1>4, <2>1, <2>2
<1>6. ASSUME NEW k \in 0 .. n - 1, k \in P PROVE k + 1 \in P
  <2>1. n - k \in 1 .. n /\ (n - k) - 1 = n - (k + 1) /\ k + 1 \in 0 .. n /\ n - (k + 1) \in 0 .. n
    OBVIOUS
  <2>2. PICK piece \in Seq(Token) : piece = pieces[n - k] /\ IsPiece(piece)
    BY <1>2, <2>1, PiecesOfString
  <2>3. PICK j \in Nat : j = p[n - (k + 1)] /\ HasAt(s, j, piece) /\ p[n - k] = j + Len(piece)
    BY <1>3, <2>1, <2>2
  <2>4. StringEnd(s)[j] = StringEnd(s)[j + Len(piece)]
    BY <2>2, <2>3, StringGoesOn
  <2>. QED
    BY <1>4, <1>6, <2>1, <2>3, <2>4
<1>7. \A k \in 0 .. n : k \in P
  BY <1>5, <1>6, Induct, Zenon
<1>8. StringEnd(s)[i + 1] = p[n] + 1
  <2>1. n \in 0 .. n /\ n - n = 0
    OBVIOUS
  <2>. QED
    BY <1>3, <1>4, <1>7, <2>1
<1>. QED
  BY <1>1, <1>2, <1>8 DEF json_string_end

-----------------------------------------------------------------------------
(* What a string decodes to *)

EscapeTo(char, next) == [ok |-> TRUE, char |-> char, next |-> next]
HasPair(s, i) == Get(s, i) = "uHI" /\ Get(s, i + 1) = "\\" /\ Get(s, i + 2) = "uLO"

LEMMA EscapeIs ==
    ASSUME NEW s, NEW i
    PROVE  /\ Get(s, i) \in DOMAIN Escaped =>
                  decode_escape(s, i) = EscapeTo(Escaped[Get(s, i)], i + 1)
           /\ HasPair(s, i) => decode_escape(s, i) = EscapeTo("HILO", i + 3)
           /\ Get(s, i) \notin DOMAIN Escaped /\ ~HasPair(s, i) => decode_escape(s, i) = NotText
<1>1. ASSUME Get(s, i) \in {"\"", "\\", "/"} PROVE decode_escape(s, i) = EscapeTo(Get(s, i), i + 1)
  <2>1. Get(s, i) = s[i]
    BY <1>1 DEF Get
  <2>. QED
    BY <1>1, <2>1 DEF decode_escape, EscapeTo
<1>2. Get(s, i) = "b" => decode_escape(s, i) = EscapeTo("BS", i + 1)
  BY DEF decode_escape, EscapeTo
<1>3. Get(s, i) = "f" => decode_escape(s, i) = EscapeTo("FF", i + 1)
  BY DEF decode_escape, EscapeTo
<1>4. Get(s, i) = "n" => decode_escape(s, i) = EscapeTo("LF", i + 1)
  BY DEF decode_escape, EscapeTo
<1>5. Get(s, i) = "r" => decode_escape(s, i) = EscapeTo("CR", i + 1)
  BY DEF decode_escape, EscapeTo
<1>6. Get(s, i) = "t" => decode_escape(s, i) = EscapeTo("TAB", i + 1)
  BY DEF decode_escape, EscapeTo
<1>7. Get(s, i) = "uX" => decode_escape(s, i) = EscapeTo("X", i + 1)
  BY DEF decode_escape, EscapeTo
<1>8. HasPair(s, i) => decode_escape(s, i) = EscapeTo("HILO", i + 3)
  BY DEF decode_escape, EscapeTo, HasPair
<1>9. DOMAIN Escaped = {"\"", "\\", "/", "b", "f", "n", "r", "t", "uX"}
  BY DEF Escaped
<1>10. ASSUME Get(s, i) \notin DOMAIN Escaped, ~HasPair(s, i) PROVE decode_escape(s, i) = NotText
  BY <1>9, <1>10 DEF decode_escape, HasPair, NotText
<1>11. /\ Escaped["b"] = "BS" /\ Escaped["f"] = "FF" /\ Escaped["n"] = "LF" /\ Escaped["r"] = "CR"
       /\ Escaped["t"] = "TAB" /\ Escaped["uX"] = "X"
       /\ \A e \in {"\"", "\\", "/"} : Escaped[e] = e
  BY DEF Escaped
<1>12. ASSUME Get(s, i) \in DOMAIN Escaped
       PROVE  decode_escape(s, i) = EscapeTo(Escaped[Get(s, i)], i + 1)
  <2>1. CASE Get(s, i) \in {"\"", "\\", "/"}
    BY <1>1, <1>11, <2>1
  <2>2. CASE Get(s, i) \notin {"\"", "\\", "/"}
    <3>1. Get(s, i) \in {"b", "f", "n", "r", "t", "uX"}
      BY <1>9, <1>12, <2>2
    <3>2. CASE Get(s, i) \in {"b", "f", "n"}
      BY <1>2, <1>3, <1>4, <1>11, <3>2
    <3>3. CASE Get(s, i) \in {"r", "t", "uX"}
      BY <1>5, <1>6, <1>7, <1>11, <3>3
    <3>. QED
      BY <3>1, <3>2, <3>3
  <2>. QED
    BY <2>1, <2>2
<1>. QED
  BY <1>8, <1>10, <1>12

LEMMA EscapedTokens == \A e \in DOMAIN Escaped : Escaped[e] \in Token /\ e # "end" /\ e # "uHI"
<1>1. {"\"", "\\", "/", "BS", "FF", "LF", "CR", "TAB", "X"} \subseteq Token
  BY Tokens
<1>. HIDE DEF Token
<1>. QED
  BY <1>1 DEF Escaped

\* What an escape leads to: a character and a later place, if anything.
LEMMA EscapeType ==
    ASSUME NEW s \in Seq(Token), NEW i \in Nat \ {0}
    PROVE  \/ decode_escape(s, i) = NotText
           \/ \E c \in Token, j \in i + 1 .. Len(s) + 1 : decode_escape(s, i) = EscapeTo(c, j)
<1>1. PICK L \in Nat : L = Len(s) /\ DOMAIN s = 1 .. L
  OBVIOUS
<1>2. CASE Get(s, i) \in DOMAIN Escaped
  <2>1. i \in 1 .. L
    BY <1>1, <1>2, EscapedTokens DEF Get
  <2>2. i + 1 \in i + 1 .. L + 1
    BY <2>1
  <2>3. decode_escape(s, i) = EscapeTo(Escaped[Get(s, i)], i + 1) /\ Escaped[Get(s, i)] \in Token
    BY <1>2, EscapeIs, EscapedTokens
  <2>. QED
    BY <1>1, <2>2, <2>3
<1>3. CASE HasPair(s, i)
  <2>1. i + 2 \in 1 .. L
    BY <1>1, <1>3 DEF Get, HasPair
  <2>2. i + 3 \in i + 1 .. L + 1
    BY <2>1
  <2>3. PICK c \in Token : c = "HILO"
    BY Tokens
  <2>4. decode_escape(s, i) = EscapeTo(c, i + 3)
    BY <1>3, <2>3, EscapeIs
  <2>. QED
    BY <1>1, <2>2, <2>4
<1>4. CASE Get(s, i) \notin DOMAIN Escaped /\ ~HasPair(s, i)
  BY <1>4, EscapeIs
<1>. QED
  BY <1>2, <1>3, <1>4

\* A character before the rest of a text, if it is one.
WithChar(char, rest) ==
    IF rest.ok THEN [ok |-> TRUE, text |-> <<char>> \o rest.text] ELSE NotText

DecodingStep(s, k, from) ==
    IF Get(s, k) = "\"" THEN [ok |-> TRUE, text |-> <<>>]
    ELSE IF Get(s, k) = "\\"
         THEN IF decode_escape(s, k + 1).ok
              THEN WithChar(decode_escape(s, k + 1).char, from[decode_escape(s, k + 1).next])
              ELSE NotText
    ELSE IF Get(s, k) \in ControlBytes \union {"end"} THEN NotText
    ELSE WithChar(s[k], from[k + 1])

Decoded == {NotText} \union {[ok |-> TRUE, text |-> text] : text \in Seq(Token)}

LEMMA WithCharType ==
    ASSUME NEW c \in Token, NEW rest \in Decoded
    PROVE  WithChar(c, rest) \in Decoded
<1>1. CASE rest = NotText
  BY <1>1 DEF WithChar, Decoded, NotText
<1>2. CASE rest # NotText
  <2>1. PICK text \in Seq(Token) : rest = [ok |-> TRUE, text |-> text]
    BY <1>2 DEF Decoded
  <2>2. PICK more : more = <<c>> \o text
    OBVIOUS
  <2>3. more \in Seq(Token)
    <3>1. <<c>> \in Seq(Token)
      OBVIOUS
    <3>. QED
      BY <2>2, <3>1
  <2>4. WithChar(c, rest) = [ok |-> TRUE, text |-> more]
    BY <2>1, <2>2 DEF WithChar
  <2>. QED
    BY <2>3, <2>4 DEF Decoded
<1>. QED
  BY <1>1, <1>2

LEMMA Decodes ==
    ASSUME NEW s \in Seq(Token), NEW i \in 1 .. Len(s) + 1
    PROVE  Decoding(s)[i] = DecodingStep(s, i, Decoding(s))
<1>1. PICK N \in Nat : N = Len(s) + 1 /\ DOMAIN s = 1 .. N - 1
  <2>1. PICK L \in Nat : L = Len(s) /\ DOMAIN s = 1 .. L
    OBVIOUS
  <2>2. L + 1 \in Nat /\ (L + 1) - 1 = L
    OBVIOUS
  <2>. QED
    BY <2>1, <2>2
<1>. DEFINE Equation(from) == from = [k \in 1 .. Len(s) + 1 |-> DecodingStep(s, k, from)]
            decoding == CHOOSE from : Equation(from)
            escape(k) == decode_escape(s, k + 1)
            Plainly(k) == Get(s, k) \notin {"\"", "\\", "end"} \union ControlBytes
            Escaping(k) == Get(s, k) = "\\" /\ escape(k).ok
<1>2. PICK next : next = [k \in 1 .. N |-> IF Escaping(k) THEN escape(k).next
                                           ELSE IF Plainly(k) THEN k + 1 ELSE 0]
  OBVIOUS
<1>3. PICK char : char = [k \in 1 .. N |-> IF Escaping(k) THEN escape(k).char
                                           ELSE IF Plainly(k) THEN s[k] ELSE "X"]
  OBVIOUS
<1>4. PICK combine : combine = [p \in (1 .. N) \X Decoded |-> WithChar(char[p[1]], p[2])]
  OBVIOUS
<1>5. PICK stop : stop = [k \in 1 .. N |-> IF Get(s, k) = "\"" THEN [ok |-> TRUE, text |-> <<>>]
                                           ELSE NotText]
  OBVIOUS
<1>6. ASSUME NEW k \in 1 .. N, Escaping(k)
      PROVE  \E c \in Token, j \in k + 2 .. N : escape(k) = EscapeTo(c, j)
  <2>1. k + 1 \in Nat \ {0} /\ (k + 1) + 1 = k + 2
    OBVIOUS
  <2>2. escape(k) # NotText
    BY <1>6 DEF NotText
  <2>. QED
    BY <1>1, <2>1, <2>2, EscapeType
<1>7. ASSUME NEW k \in 1 .. N
      PROVE  /\ Escaping(k) => /\ next[k] = escape(k).next /\ next[k] \in k + 1 .. N
                               /\ char[k] = escape(k).char /\ char[k] \in Token
             /\ Plainly(k) => /\ next[k] = k + 1 /\ next[k] \in k + 1 .. N
                              /\ char[k] = s[k] /\ char[k] \in Token
             /\ ~Escaping(k) /\ ~Plainly(k) => next[k] = 0 /\ char[k] \in Token
  <2>1. CASE Escaping(k)
    <3>1. next[k] = escape(k).next /\ char[k] = escape(k).char
      BY <1>2, <1>3, <2>1
    <3>2. PICK c \in Token, j \in k + 2 .. N : escape(k) = EscapeTo(c, j)
      BY <1>6, <2>1
    <3>3. next[k] = j /\ char[k] = c
      BY <3>1, <3>2 DEF EscapeTo
    <3>4. j \in k + 1 .. N
      OBVIOUS
    <3>5. ~Plainly(k)
      BY <2>1
    <3>. QED
      BY <2>1, <3>1, <3>3, <3>4, <3>5
  <2>2. CASE Plainly(k)
    <3>1. ~Escaping(k)
      BY <2>2
    <3>2. next[k] = k + 1 /\ char[k] = s[k]
      BY <1>2, <1>3, <2>2, <3>1
    <3>3. k \in 1 .. N - 1
      BY <1>1, <2>2 DEF Get
    <3>4. s[k] \in Token /\ k + 1 \in k + 1 .. N
      BY <1>1, <3>3
    <3>. QED
      BY <2>2, <3>1, <3>2, <3>4
  <2>3. CASE ~Escaping(k) /\ ~Plainly(k)
    <3>1. next[k] = 0 /\ char[k] = "X"
      BY <1>2, <1>3, <2>3
    <3>. QED
      BY <2>3, <3>1, Tokens
  <2>. QED
    BY <2>1, <2>2, <2>3
<1>8. \A k \in 1 .. N : char[k] \in Token
  BY <1>7
<1>9. next \in [1 .. N -> Nat]
  <2>1. ASSUME NEW k \in 1 .. N PROVE next[k] \in Nat
    <3>. HIDE DEF Escaping, Plainly
    <3>1. next[k] \in k + 1 .. N \/ next[k] = 0
      BY <1>7
    <3>. QED
      BY <3>1
  <2>. HIDE DEF Escaping, Plainly
  <2>. QED
    BY <1>2, <2>1
<1>10. combine \in [(1 .. N) \X Decoded -> Decoded]
  <2>1. ASSUME NEW k \in 1 .. N, NEW v \in Decoded PROVE WithChar(char[k], v) \in Decoded
    BY <1>8, WithCharType
  <2>. QED
    BY <1>4, <2>1
<1>11. stop \in [1 .. N -> Decoded]
  <2>1. PICK none : none = [ok |-> TRUE, text |-> <<>>]
    OBVIOUS
  <2>2. <<>> \in Seq(Token)
    OBVIOUS
  <2>3. none \in Decoded /\ NotText \in Decoded
    BY <2>1, <2>2 DEF Decoded
  <2>. QED
    BY <1>5, <2>1, <2>3
<1>12. Chasing(N, Decoded, next, combine, stop)
  BY <1>9, <1>10, <1>11, Chased
<1>13. PICK f \in [1 .. N -> Decoded] : \A k \in 1 .. N :
          f[k] = IF next[k] \in k + 1 .. N THEN combine[<<k, f[next[k]]>>] ELSE stop[k]
  BY <1>12 DEF Chasing
<1>14. ASSUME NEW k \in 1 .. N, next[k] \in k + 1 .. N
       PROVE  f[k] = WithChar(char[k], f[next[k]])
  <2>1. next[k] \in 1 .. N
    BY <1>14
  <2>2. f[next[k]] \in Decoded
    BY <2>1
  <2>3. combine[<<k, f[next[k]]>>] = WithChar(char[k], f[next[k]])
    BY <1>4, <2>2
  <2>. QED
    BY <1>13, <1>14, <2>3
<1>15. ASSUME NEW k \in 1 .. N, next[k] = 0 PROVE f[k] = stop[k]
  <2>1. next[k] \notin k + 1 .. N
    BY <1>15
  <2>. QED
    BY <1>13, <2>1
<1>16. ASSUME NEW k \in 1 .. N PROVE f[k] = DecodingStep(s, k, f)
  <2>1. CASE Escaping(k)
    <3>1. f[k] = WithChar(escape(k).char, f[escape(k).next])
      <4>. HIDE DEF Escaping, Plainly
      <4>1. /\ next[k] = escape(k).next /\ char[k] = escape(k).char
            /\ next[k] \in k + 1 .. N
        BY <1>7, <2>1
      <4>2. f[k] = WithChar(char[k], f[next[k]])
        BY <1>14, <4>1
      <4>. QED
        BY <4>1, <4>2
    <3>. QED
      BY <2>1, <3>1 DEF DecodingStep
  <2>2. CASE Plainly(k)
    <3>1. f[k] = WithChar(s[k], f[k + 1])
      BY <1>7, <1>14, <2>2
    <3>. QED
      BY <2>2, <3>1 DEF DecodingStep
  <2>3. CASE ~Escaping(k) /\ ~Plainly(k)
    <3>1. f[k] = stop[k]
      BY <1>7, <1>15, <2>3
    <3>2. stop[k] = IF Get(s, k) = "\"" THEN [ok |-> TRUE, text |-> <<>>] ELSE NotText
      BY <1>5
    <3>. QED
      BY <2>3, <3>1, <3>2 DEF DecodingStep
  <2>. QED
    BY <2>1, <2>2, <2>3
<1>17. Equation(f)
  BY <1>1, <1>16
<1>18. Equation(decoding)
  BY <1>17
<1>19. Decoding(s) = decoding
  BY DEF Decoding, DecodingStep, WithChar
<1>. HIDE DEF decoding
<1>. QED
  BY <1>18, <1>19

LEMMA WithCharOk ==
    ASSUME NEW c, NEW rest, WithChar(c, rest).ok
    PROVE  rest.ok
BY DEF WithChar, NotText

\* An escape that is whole in a cut-off text is the same in the whole text.
LEMMA EscapeInCut ==
    ASSUME NEW s, NEW t, IsCut(t, s), NEW i, decode_escape(t, i).ok
    PROVE  decode_escape(s, i) = decode_escape(t, i)
<1>1. decode_escape(t, i) # NotText
  BY DEF NotText
<1>2. CASE Get(t, i) \in DOMAIN Escaped
  <2>1. Get(s, i) = Get(t, i)
    BY <1>2, EscapedTokens DEF IsCut
  <2>. QED
    BY <1>2, <2>1, EscapeIs
<1>3. CASE HasPair(t, i)
  <2>1. HasPair(s, i)
    BY <1>3 DEF HasPair, IsCut
  <2>. QED
    BY <1>3, <2>1, EscapeIs
<1>. QED
  BY <1>1, <1>2, <1>3, EscapeIs

LEMMA DecodingInCut ==
    ASSUME NEW s \in Seq(Token), NEW t \in Seq(Token), IsCut(t, s)
    PROVE  \A i \in 1 .. Len(t) + 1 : Decoding(t)[i].ok => Decoding(s)[i] = Decoding(t)[i]
<1>1. PICK N \in Nat : N = Len(t) + 1 /\ N <= Len(s) + 1 /\ DOMAIN t = 1 .. N - 1
  <2>1. PICK L \in Nat : L = Len(t) /\ DOMAIN t = 1 .. L
    OBVIOUS
  <2>2. L + 1 \in Nat /\ (L + 1) - 1 = L
    OBVIOUS
  <2>3. L <= Len(s)
    BY <2>1 DEF IsCut
  <2>. QED
    BY <2>1, <2>2, <2>3
<1>2. PICK P : P = {i \in 1 .. N : Decoding(t)[i].ok => Decoding(s)[i] = Decoding(t)[i]}
  OBVIOUS
<1>3. ASSUME NEW i \in 1 .. N, \A j \in i + 1 .. N : j \in P PROVE i \in P
  <2>0. i \in 1 .. Len(s) + 1 /\ i \in 1 .. Len(t) + 1
    BY <1>1
  <2>1. Decoding(t)[i] = DecodingStep(t, i, Decoding(t))
    BY <2>0, Decodes
  <2>2. Decoding(s)[i] = DecodingStep(s, i, Decoding(s))
    BY <2>0, Decodes
  <2>3. SUFFICES ASSUME Decoding(t)[i].ok PROVE Decoding(s)[i] = Decoding(t)[i]
    BY <1>2
  <2>4. ASSUME NEW c, NEW j \in i + 1 .. N, Decoding(t)[i] = WithChar(c, Decoding(t)[j]),
               Decoding(s)[i] = WithChar(c, Decoding(s)[j])
        PROVE  Decoding(s)[i] = Decoding(t)[i]
    <3>1. Decoding(t)[j].ok
      BY <2>3, <2>4, WithCharOk
    <3>2. Decoding(s)[j] = Decoding(t)[j]
      BY <1>2, <1>3, <3>1
    <3>. QED
      BY <2>4, <3>2
  <2>5. CASE Get(t, i) = "\""
    <3>1. Get(s, i) = "\""
      BY <2>5 DEF IsCut
    <3>. QED
      BY <2>1, <2>2, <2>5, <3>1 DEF DecodingStep
  <2>6. CASE Get(t, i) = "\\"
    <3>1. Get(s, i) = "\\"
      BY <2>6 DEF IsCut
    <3>2. decode_escape(t, i + 1).ok
      BY <2>1, <2>3, <2>6 DEF DecodingStep, NotText
    <3>3. decode_escape(s, i + 1) = decode_escape(t, i + 1)
      BY <3>2, EscapeInCut
    <3>4. PICK c \in Token, j \in (i + 1) + 1 .. Len(t) + 1 :
              decode_escape(t, i + 1) = EscapeTo(c, j)
      <4>1. i + 1 \in Nat \ {0}
        OBVIOUS
      <4>2. decode_escape(t, i + 1) # NotText
        BY <3>2 DEF NotText
      <4>. QED
        BY <4>1, <4>2, EscapeType
    <3>5. decode_escape(t, i + 1).char = c /\ decode_escape(t, i + 1).next = j
      BY <3>4 DEF EscapeTo
    <3>6. Decoding(t)[i] = WithChar(c, Decoding(t)[j])
      BY <2>1, <2>6, <3>2, <3>5 DEF DecodingStep
    <3>7. Decoding(s)[i] = WithChar(c, Decoding(s)[j])
      BY <2>2, <3>1, <3>2, <3>3, <3>5 DEF DecodingStep
    <3>8. j \in i + 1 .. N
      BY <1>1
    <3>. QED
      BY <2>4, <3>6, <3>7, <3>8
  <2>7. CASE Get(t, i) \notin {"\"", "\\"} /\ Get(t, i) \in ControlBytes \union {"end"}
    <3>1. Decoding(t)[i] = NotText
      BY <2>1, <2>7 DEF DecodingStep
    <3>. QED
      BY <2>3, <3>1 DEF NotText
  <2>8. CASE Get(t, i) \notin {"\"", "\\"} /\ Get(t, i) \notin ControlBytes \union {"end"}
    <3>1. Get(s, i) = Get(t, i)
      BY <2>8 DEF IsCut
    <3>2. t[i] = Get(t, i) /\ s[i] = Get(s, i) /\ i \in 1 .. N - 1
      BY <1>1, <2>8, <3>1 DEF Get
    <3>3. Decoding(t)[i] = WithChar(t[i], Decoding(t)[i + 1])
      BY <2>1, <2>8 DEF DecodingStep
    <3>4. Decoding(s)[i] = WithChar(t[i], Decoding(s)[i + 1])
      BY <2>2, <2>8, <3>1, <3>2 DEF DecodingStep
    <3>5. i + 1 \in i + 1 .. N
      BY <3>2
    <3>. QED
      BY <2>4, <3>3, <3>4, <3>5
  <2>. QED
    BY <2>5, <2>6, <2>7, <2>8
<1>4. \A i \in 1 .. N : i \in P
  BY <1>3, Downward, Zenon
<1>. QED
  BY <1>1, <1>2, <1>4

LEMMA StringInCut ==
    ASSUME NEW s \in Seq(Token), NEW t \in Seq(Token), IsCut(t, s), NEW i \in Nat
    PROVE  /\ decode_json_string_bytes(t, i).ok =>
                  decode_json_string_bytes(s, i) = decode_json_string_bytes(t, i)
           /\ json_string_end(t, i) # 0 => json_string_end(s, i) = json_string_end(t, i)
<1>1. ASSUME Get(t, i) = "\""
      PROVE  Get(s, i) = "\"" /\ i + 1 \in 1 .. Len(t) + 1
  <2>1. PICK L \in Nat : L = Len(t) /\ DOMAIN t = 1 .. L
    OBVIOUS
  <2>2. i \in 1 .. L
    BY <1>1, <2>1 DEF Get
  <2>3. i + 1 \in 1 .. L + 1
    BY <2>2
  <2>. QED
    BY <1>1, <2>1, <2>3 DEF IsCut
<1>2. ASSUME decode_json_string_bytes(t, i).ok
      PROVE  decode_json_string_bytes(s, i) = decode_json_string_bytes(t, i)
  <2>1. Get(t, i) = "\"" /\ Decoding(t)[i + 1].ok
    BY <1>2 DEF decode_json_string_bytes, NotText
  <2>2. Decoding(s)[i + 1] = Decoding(t)[i + 1]
    BY <1>1, <2>1, DecodingInCut
  <2>. QED
    BY <1>1, <2>1, <2>2 DEF decode_json_string_bytes
<1>3. ASSUME json_string_end(t, i) # 0
      PROVE  json_string_end(s, i) = json_string_end(t, i)
  <2>1. Get(t, i) = "\"" /\ StringEnd(t)[i + 1] # 0
    BY <1>3 DEF json_string_end
  <2>2. StringEnd(s)[i + 1] = StringEnd(t)[i + 1]
    BY <1>1, <2>1, StringEndInCut
  <2>. QED
    BY <1>1, <2>1, <2>2 DEF json_string_end
<1>. QED
  BY <1>2, <1>3

-----------------------------------------------------------------------------
(* A string decodes to what it means *)

\* A piece stands for one character or for none.
LEMMA StandsForOne ==
    ASSUME NEW piece \in Seq(Token), IsPiece(piece)
    PROVE  Stands(piece) = {} \/ \E c \in Token : Stands(piece) = {c}
<1>1. CASE IsPlain(piece)
  <2>1. Len(piece) = 1
    BY <1>1 DEF IsPlain
  <2>2. piece[1] \in Token
    BY <2>1
  <2>. QED
    BY <2>1, <2>2 DEF Stands
<1>2. CASE piece = SurrogatePair
  <2>1. Len(piece) # 1
    BY <1>2 DEF SurrogatePair
  <2>2. Stands(piece) = {"HILO"}
    BY <1>2, <2>1 DEF Stands
  <2>. QED
    BY <2>2, Tokens
<1>3. CASE IsEscape(piece) /\ piece # SurrogatePair
  <2>1. Len(piece) # 1
    BY <1>3 DEF IsEscape
  <2>2. Stands(piece) = {Escaped[e] : e \in DOMAIN Escaped \intersect {piece[2]}}
    BY <1>3, <2>1 DEF Stands
  <2>3. CASE piece[2] \in DOMAIN Escaped
    <3>1. Stands(piece) = {Escaped[piece[2]]}
      BY <2>2, <2>3
    <3>. QED
      BY <2>3, <3>1, EscapedTokens
  <2>4. CASE piece[2] \notin DOMAIN Escaped
    BY <2>2, <2>4
  <2>. QED
    BY <2>3, <2>4
<1>. QED
  BY <1>1, <1>2, <1>3 DEF IsPiece

LEMMA PieceDecodes ==
    ASSUME NEW s \in Seq(Token), NEW i \in Nat, NEW piece \in Seq(Token), IsPiece(piece),
           HasAt(s, i, piece), IsEscape(piece) => ~HasPair(s, i + 1)
    PROVE  /\ Stands(piece) = {} => Decoding(s)[i] = NotText
           /\ \A c : Stands(piece) = {c} =>
                 Decoding(s)[i] = WithChar(c, Decoding(s)[i + Len(piece)])
<1>0. PICK N \in Nat : N = Len(s) /\ DOMAIN s = 1 .. N
  OBVIOUS
<1>1. i \in 1 .. N + 1 /\ i + Len(piece) <= N + 1
  BY <1>0 DEF HasAt
<1>2. Decoding(s)[i] = DecodingStep(s, i, Decoding(s))
  BY <1>0, <1>1, Decodes
<1>3. CASE IsPlain(piece)
  <2>0. Len(piece) = 1
    BY <1>3 DEF IsPlain
  <2>1. Get(s, i) = piece[1]
    BY <2>0, HasTokens
  <2>2. Get(s, i) \notin {"\"", "\\", "end"} \union ControlBytes
    BY <1>3, <2>1 DEF IsPlain, ControlBytes
  <2>3. s[i] = piece[1]
    BY <2>1, <2>2 DEF Get
  <2>4. Decoding(s)[i] = WithChar(piece[1], Decoding(s)[i + 1])
    BY <1>2, <2>2, <2>3 DEF DecodingStep
  <2>5. Stands(piece) = {piece[1]}
    BY <2>0 DEF Stands
  <2>. QED
    BY <2>0, <2>4, <2>5
<1>4. CASE IsEscape(piece)
  <2>0. Len(piece) = 2 /\ Len(piece) >= 1 /\ Len(piece) >= 2
    BY <1>4 DEF IsEscape
  <2>1. Get(s, i) = piece[1] /\ Get(s, i + 1) = piece[2]
    BY <2>0, HasTokens, Zenon
  <2>2. Get(s, i) = "\\" /\ ~HasPair(s, i + 1)
    BY <1>4, <2>1 DEF IsEscape
  <2>3. Stands(piece) = {Escaped[e] : e \in DOMAIN Escaped \intersect {piece[2]}}
    <3>1. piece # SurrogatePair
      BY <2>0 DEF SurrogatePair
    <3>. QED
      BY <2>0, <3>1 DEF Stands
  <2>4. CASE piece[2] \in DOMAIN Escaped
    <3>1. decode_escape(s, i + 1) = EscapeTo(Escaped[piece[2]], (i + 1) + 1)
      BY <2>1, <2>4, EscapeIs
    <3>2. Decoding(s)[i] = WithChar(Escaped[piece[2]], Decoding(s)[(i + 1) + 1])
      BY <1>2, <2>2, <3>1 DEF DecodingStep, EscapeTo
    <3>3. Stands(piece) = {Escaped[piece[2]]}
      BY <2>3, <2>4
    <3>4. (i + 1) + 1 = i + Len(piece)
      BY <2>0
    <3>. QED
      BY <3>2, <3>3, <3>4
  <2>5. CASE piece[2] \notin DOMAIN Escaped
    <3>1. decode_escape(s, i + 1) = NotText
      BY <2>1, <2>2, <2>5, EscapeIs
    <3>2. Decoding(s)[i] = NotText
      BY <1>2, <2>2, <3>1 DEF DecodingStep, NotText
    <3>3. Stands(piece) = {}
      BY <2>3, <2>5
    <3>. QED
      BY <3>2, <3>3
  <2>. QED
    BY <2>4, <2>5
<1>5. CASE piece = SurrogatePair
  <2>1. /\ Len(piece) = 4 /\ piece[1] = "\\" /\ piece[2] = "uHI"
        /\ piece[3] = "\\" /\ piece[4] = "uLO"
    BY <1>5 DEF SurrogatePair
  <2>2. Len(piece) >= 1 /\ Len(piece) >= 2 /\ Len(piece) >= 3 /\ Len(piece) >= 4
    BY <2>1
  <2>3. /\ Get(s, i) = piece[1] /\ Get(s, i + 1) = piece[2]
        /\ Get(s, i + 2) = piece[3] /\ Get(s, i + 3) = piece[4]
    BY <2>2, HasTokens, Zenon
  <2>4. (i + 1) + 1 = i + 2 /\ (i + 1) + 2 = i + 3 /\ (i + 1) + 3 = i + Len(piece)
    BY <2>1
  <2>5. HasPair(s, i + 1) /\ Get(s, i) = "\\"
    BY <2>1, <2>3, <2>4 DEF HasPair
  <2>6. decode_escape(s, i + 1) = EscapeTo("HILO", i + Len(piece))
    BY <2>4, <2>5, EscapeIs
  <2>7. Decoding(s)[i] = WithChar("HILO", Decoding(s)[i + Len(piece)])
    BY <1>2, <2>5, <2>6 DEF DecodingStep, EscapeTo
  <2>8. Stands(piece) = {"HILO"}
    BY <1>5, <2>1 DEF Stands
  <2>. QED
    BY <2>7, <2>8
<1>. QED
  BY <1>3, <1>4, <1>5 DEF IsPiece

\* Two pieces are not a surrogate pair.
LEMMA NoHiddenPair ==
    ASSUME NEW s \in Seq(Token), NEW i \in Nat, NEW pieces, IsString(pieces),
           NEW p, LaidString(s, i, pieces, p)
    PROVE  \A k \in 1 .. Len(pieces) : IsEscape(pieces[k]) => ~HasPair(s, p[k - 1] + 1)
<1>1. PICK n \in Nat : n = Len(pieces)
  <2>1. pieces \in Seq(Seq(Token))
    BY StringTextType
  <2>. QED
    BY <2>1
<1>. SUFFICES ASSUME NEW k \in 1 .. n, IsEscape(pieces[k]) PROVE ~HasPair(s, p[k - 1] + 1)
  BY <1>1
<1>2. /\ p \in [0 .. n -> Nat]
      /\ \A j \in 1 .. n : HasAt(s, p[j - 1], pieces[j]) /\ p[j] = p[j - 1] + Len(pieces[j])
  BY <1>1 DEF LaidString, Laid
<1>3. PICK q \in Nat : q = p[k - 1] /\ p[k] = q + 2 /\ (q + 1) + 1 = p[k] /\ (q + 1) + 2 = p[k] + 1
  <2>1. p[k - 1] \in Nat /\ Len(pieces[k]) = 2
    <3>1. k - 1 \in 0 .. n
      OBVIOUS
    <3>2. p[k - 1] \in Nat
      BY <1>2, <3>1
    <3>. QED
      BY <3>2 DEF IsEscape
  <2>2. p[k] = p[k - 1] + 2
    BY <1>1, <1>2, <2>1
  <2>3. PICK q \in Nat : q = p[k - 1]
    BY <2>1
  <2>4. p[k] = q + 2
    BY <2>2, <2>3
  <2>5. (q + 1) + 1 = q + 2 /\ (q + 1) + 2 = (q + 2) + 1
    BY <2>3
  <2>. QED
    BY <2>3, <2>4, <2>5
<1>4. SUFFICES ASSUME Get(s, q + 1) = "uHI", Get(s, p[k]) = "\\", Get(s, p[k] + 1) = "uLO" PROVE FALSE
  BY <1>3 DEF HasPair
<1>5. k # n
  BY <1>1, <1>4 DEF LaidString
<1>6. PICK j \in 1 .. n : j = k + 1 /\ j - 1 = k
  <2>1. k + 1 \in 1 .. n /\ (k + 1) - 1 = k
    BY <1>1, <1>5
  <2>. QED
    BY <2>1
<1>7. PICK piece \in Seq(Token) : piece = pieces[j] /\ IsPiece(piece) /\ HasAt(s, p[k], piece)
  BY <1>1, <1>2, <1>6, PiecesOfString
<1>8. CASE IsPlain(piece)
  <2>0. Len(piece) = 1 /\ piece[1] # "\\"
    BY <1>8 DEF IsPlain
  <2>1. Len(piece) >= 1 /\ piece[1] # "\\"
    BY <2>0
  <2>2. Get(s, p[k]) = piece[1]
    BY <1>7, <2>1, HasTokens, Zenon
  <2>. QED
    BY <1>4, <2>1, <2>2
<1>9. CASE piece = SurrogatePair
  <2>1. Len(piece) >= 2 /\ piece[2] = "uHI"
    BY <1>9 DEF SurrogatePair
  <2>2. Get(s, p[k] + 1) = piece[2]
    BY <1>7, <2>1, HasTokens, Zenon
  <2>. QED
    BY <1>4, <2>1, <2>2
<1>10. CASE IsEscape(piece)
  <2>1. Len(piece) = 2 /\ piece[1] = "\\" /\ Len(piece) >= 2
    BY <1>10 DEF IsEscape
  <2>2. piece[2] = "uLO"
    <3>1. Get(s, p[k] + 1) = piece[2]
      BY <1>7, <2>1, HasTokens, Zenon
    <3>. QED
      BY <1>4, <3>1
  <2>3. PICK first \in Seq(Token) : first = pieces[k] /\ HasAt(s, q, first)
    BY <1>1, <1>2, <1>3, PiecesOfString
  <2>4. Len(first) = 2 /\ first[1] = "\\" /\ Len(first) >= 2
    BY <2>3 DEF IsEscape
  <2>5. first[2] = "uHI"
    <3>1. Get(s, q + 1) = first[2]
      BY <2>3, <2>4, HasTokens, Zenon
    <3>. QED
      BY <1>4, <3>1
  <2>6. first = <<"\\", "uHI">> /\ piece = <<"\\", "uLO">>
    <3>1. \A two : two \in Seq(Token) /\ Len(two) = 2 => two = <<two[1], two[2]>>
      OBVIOUS
    <3>2. first = <<first[1], first[2]>> /\ piece = <<piece[1], piece[2]>>
      BY <2>1, <2>4, <3>1
    <3>. QED
      BY <2>1, <2>2, <2>4, <2>5, <3>2
  <2>7. PICK both : both = first \o piece
    OBVIOUS
  <2>8. both = SurrogatePair
    <3>1. PICK pair : pair = SurrogatePair
      OBVIOUS
    <3>2. pair \in Seq(Token) /\ Len(pair) = 4 /\ pair[1] = "\\" /\ pair[2] = "uHI"
          /\ pair[3] = "\\" /\ pair[4] = "uLO"
      <4>1. PICK c \in Token, d \in Token, e \in Token : c = "\\" /\ d = "uHI" /\ e = "uLO"
        BY Tokens
      <4>2. pair = <<c, d, c, e>>
        BY <3>1, <4>1 DEF SurrogatePair
      <4>. QED
        BY <4>1, <4>2
    <3>3. Len(both) = 4 /\ \A l \in 1 .. 4 : both[l] = pair[l]
      <4>1. Len(both) = 4 /\ both[1] = first[1] /\ both[2] = first[2]
            /\ both[3] = piece[1] /\ both[4] = piece[2]
        <5>0. Len(first) = 2 /\ Len(piece) = 2
          BY <2>1, <2>4
        <5>1. Len(both) = Len(first) + Len(piece)
          BY <2>7
        <5>2. \A l \in 1 .. Len(first) : both[l] = first[l]
          BY <2>7
        <5>3. \A l \in 1 .. Len(piece) : both[Len(first) + l] = piece[l]
          BY <2>7
        <5>4. both[2 + 1] = piece[1] /\ both[2 + 2] = piece[2] /\ both[1] = first[1] /\ both[2] = first[2]
          BY <5>0, <5>2, <5>3
        <5>. QED
          BY <5>0, <5>1, <5>4
      <4>2. both[1] = pair[1] /\ both[2] = pair[2] /\ both[3] = pair[3] /\ both[4] = pair[4]
        BY <2>6, <3>2, <4>1
      <4>. QED
        BY <4>1, <4>2
    <3>4. /\ both \in Seq(Token) /\ pair \in Seq(Token) /\ 4 \in Nat
          /\ Len(both) = 4 /\ Len(pair) = 4
      BY <2>7, <3>2, <3>3
    <3>5. both = pair
      BY <3>3, <3>4, SameSeq
    <3>. QED
      BY <3>1, <3>5
  <2>9. k \in 1 .. n - 1
    BY <1>1, <1>5
  <2>. QED
    BY <1>1, <1>6, <1>7, <2>3, <2>7, <2>8, <2>9 DEF IsString
<1>. QED
  BY <1>7, <1>8, <1>9, <1>10 DEF IsPiece

\* The last k elements of a text.
LastOf(text, k) == [m \in 1 .. k |-> text[(Len(text) - k) + m]]

LEMMA LastOfText ==
    ASSUME NEW text \in Seq(Token), NEW n \in Nat, n = Len(text)
    PROVE  /\ LastOf(text, 0) = <<>> /\ LastOf(text, n) = text
           /\ \A k \in 0 .. n : LastOf(text, k) \in Seq(Token) /\ Len(LastOf(text, k)) = k
           /\ \A k \in 0 .. n - 1 : <<text[n - k]>> \o LastOf(text, k) = LastOf(text, k + 1)
<1>1. ASSUME NEW k \in 0 .. n
      PROVE  /\ LastOf(text, k) \in Seq(Token) /\ Len(LastOf(text, k)) = k
             /\ \A m \in 1 .. k : LastOf(text, k)[m] = text[(n - k) + m]
  <2>1. LastOf(text, k) = [m \in 1 .. k |-> text[(n - k) + m]]
    BY DEF LastOf
  <2>2. ASSUME NEW m \in 1 .. k PROVE text[(n - k) + m] \in Token
    <3>1. (n - k) + m \in 1 .. Len(text)
      OBVIOUS
    <3>. QED
      BY <3>1
  <2>. QED
    BY <2>1, <2>2
<1>2. LastOf(text, 0) = <<>>
  <2>1. LastOf(text, 0) \in Seq(Token) /\ Len(LastOf(text, 0)) = 0
    BY <1>1
  <2>. QED
    BY <2>1
<1>3. LastOf(text, n) = text
  <2>1. \A m \in 1 .. n : (n - n) + m = m
    OBVIOUS
  <2>2. LastOf(text, n) \in Seq(Token) /\ Len(LastOf(text, n)) = n
        /\ \A m \in 1 .. n : LastOf(text, n)[m] = text[m]
    BY <1>1, <2>1
  <2>. QED
    BY <2>2, SameSeq
<1>4. ASSUME NEW k \in 0 .. n - 1 PROVE <<text[n - k]>> \o LastOf(text, k) = LastOf(text, k + 1)
  <2>1. k \in 0 .. n /\ k + 1 \in 0 .. n /\ n - k \in 1 .. n
    OBVIOUS
  <2>2. PICK a \in Seq(Token), b \in Seq(Token) : a = LastOf(text, k) /\ b = LastOf(text, k + 1)
    BY <1>1, <2>1
  <2>3. /\ Len(a) = k /\ \A m \in 1 .. k : a[m] = text[(n - k) + m]
        /\ Len(b) = k + 1 /\ \A m \in 1 .. k + 1 : b[m] = text[(n - (k + 1)) + m]
    BY <1>1, <2>1, <2>2
  <2>4. PICK c \in Token : c = text[n - k]
    BY <2>1
  <2>5. PICK more : more = <<c>> \o a
    OBVIOUS
  <2>6. /\ more \in Seq(Token) /\ Len(more) = k + 1 /\ more[1] = c
        /\ \A m \in 1 .. k : more[1 + m] = a[m]
    <3>1. <<c>> \in Seq(Token) /\ Len(<<c>>) = 1 /\ <<c>>[1] = c
      OBVIOUS
    <3>2. /\ more \in Seq(Token) /\ Len(more) = 1 + k
          /\ \A m \in 1 .. 1 : more[m] = <<c>>[m]
          /\ \A m \in 1 .. k : more[1 + m] = a[m]
      BY <2>3, <2>5, <3>1
    <3>3. more[1] = <<c>>[1]
      BY <3>2
    <3>. QED
      BY <3>1, <3>2, <3>3
  <2>7. ASSUME NEW m \in 1 .. k + 1 PROVE more[m] = b[m]
    <3>1. CASE m = 1
      <4>1. (n - (k + 1)) + 1 = n - k /\ 1 \in 1 .. k + 1
        OBVIOUS
      <4>2. b[1] = text[n - k]
        BY <2>3, <4>1
      <4>. QED
        BY <2>4, <2>6, <3>1, <4>2
    <3>2. CASE m # 1
      <4>1. m - 1 \in 1 .. k /\ 1 + (m - 1) = m /\ (n - k) + (m - 1) = (n - (k + 1)) + m
        BY <3>2
      <4>2. more[m] = a[m - 1] /\ a[m - 1] = text[(n - k) + (m - 1)]
        BY <2>3, <2>6, <4>1
      <4>. QED
        BY <2>3, <4>1, <4>2
    <3>. QED
      BY <3>1, <3>2
  <2>8. more = b
    BY <2>3, <2>6, <2>7, SameSeq
  <2>. QED
    BY <2>2, <2>4, <2>5, <2>8
<1>. QED
  BY <1>1, <1>2, <1>3, <1>4

LEMMA LastOneMore ==
    ASSUME NEW text \in Seq(Token), NEW n \in Nat, n = Len(text), NEW k \in 0 .. n - 1
    PROVE  <<text[n - k]>> \o LastOf(text, k) = LastOf(text, k + 1)
<1>1. \A l \in 0 .. n - 1 : <<text[n - l]>> \o LastOf(text, l) = LastOf(text, l + 1)
  BY LastOfText
<1>. QED
  BY <1>1, Zenon

\* The characters that pieces stand for.
CharOf(pieces, k) == CHOOSE c \in Stands(pieces[k]) : TRUE
TextOf(pieces) == [k \in DOMAIN pieces |-> CharOf(pieces, k)]

LEMMA WhatItMeans ==
    ASSUME NEW pieces, IsString(pieces)
    PROVE  /\ Means(pieces) = {} <=> \E k \in 1 .. Len(pieces) : Stands(pieces[k]) = {}
           /\ Means(pieces) # {} => Means(pieces) = {TextOf(pieces)} /\ TextOf(pieces) \in Seq(Token)
                                    /\ Len(TextOf(pieces)) = Len(pieces)
           /\ \A k \in 1 .. Len(pieces) : Stands(pieces[k]) = {} \/ Stands(pieces[k]) = {CharOf(pieces, k)}
<1>1. PICK n \in Nat : n = Len(pieces) /\ DOMAIN pieces = 1 .. n
  <2>1. pieces \in Seq(Seq(Token))
    BY StringTextType
  <2>. QED
    BY <2>1
<1>2. ASSUME NEW k \in 1 .. n, Stands(pieces[k]) # {}
      PROVE  Stands(pieces[k]) = {CharOf(pieces, k)} /\ CharOf(pieces, k) \in Token
  <2>1. pieces[k] \in Seq(Token) /\ IsPiece(pieces[k])
    BY <1>1, PiecesOfString
  <2>2. PICK c \in Token : Stands(pieces[k]) = {c}
    BY <1>2, <2>1, StandsForOne
  <2>3. CharOf(pieces, k) = c
    BY <2>2 DEF CharOf
  <2>. QED
    BY <2>2, <2>3
<1>3. CASE \E k \in 1 .. n : Stands(pieces[k]) = {}
  <2>1. Means(pieces) = {}
    BY <1>1, <1>3 DEF Means
  <2>. QED
    BY <1>1, <1>2, <1>3, <2>1
<1>4. CASE ~ \E k \in 1 .. n : Stands(pieces[k]) = {}
  <2>1. Means(pieces) = {TextOf(pieces)}
    BY <1>1, <1>4 DEF Means, TextOf, CharOf
  <2>2. TextOf(pieces) = [k \in 1 .. n |-> CharOf(pieces, k)]
    BY <1>1 DEF TextOf
  <2>3. \A k \in 1 .. n : CharOf(pieces, k) \in Token
    BY <1>2, <1>4
  <2>4. TextOf(pieces) \in Seq(Token) /\ Len(TextOf(pieces)) = n
    BY <2>2, <2>3
  <2>. QED
    BY <1>1, <1>2, <1>4, <2>1, <2>4
<1>. QED
  BY <1>3, <1>4

\* Before a piece that stands for nothing there is no text.
LEMMA DecodesNothing ==
    ASSUME NEW s \in Seq(Token), NEW i \in Nat, NEW pieces, IsString(pieces),
           NEW p, LaidString(s, i, pieces, p), Means(pieces) = {}
    PROVE  Decoding(s)[i + 1] = NotText
<1>1. PICK n \in Nat : n = Len(pieces)
  <2>1. pieces \in Seq(Seq(Token))
    BY StringTextType
  <2>. QED
    BY <2>1
<1>2. /\ p \in [0 .. n -> Nat] /\ p[0] = i + 1
      /\ \A k \in 1 .. n : HasAt(s, p[k - 1], pieces[k]) /\ p[k] = p[k - 1] + Len(pieces[k])
  BY <1>1 DEF LaidString, Laid
<1>3. PICK j \in 1 .. n : Stands(pieces[j]) = {}
  BY <1>1, WhatItMeans
<1>4. ASSUME NEW k \in 1 .. n
      PROVE  /\ Stands(pieces[k]) = {} => Decoding(s)[p[k - 1]] = NotText
             /\ Decoding(s)[p[k]] = NotText => Decoding(s)[p[k - 1]] = NotText
  <2>1. PICK piece \in Seq(Token) : piece = pieces[k] /\ IsPiece(piece)
    BY <1>1, PiecesOfString
  <2>2. PICK q \in Nat : q = p[k - 1] /\ p[k] = q + Len(piece) /\ HasAt(s, q, piece)
    <3>1. k - 1 \in 0 .. n
      OBVIOUS
    <3>. QED
      BY <1>2, <2>1, <3>1
  <2>3. IsEscape(piece) => ~HasPair(s, q + 1)
    BY <1>1, <2>1, <2>2, NoHiddenPair
  <2>4. Stands(piece) = {} => Decoding(s)[q] = NotText
    BY <2>1, <2>2, <2>3, PieceDecodes
  <2>5. \A c : Stands(piece) = {c} =>
                 Decoding(s)[q] = WithChar(c, Decoding(s)[q + Len(piece)])
    BY <2>1, <2>2, <2>3, PieceDecodes, Zenon
  <2>6. Stands(piece) = {} \/ Stands(piece) = {CharOf(pieces, k)}
    BY <1>1, <2>1, WhatItMeans
  <2>7. \A c : WithChar(c, NotText) = NotText
    BY DEF WithChar, NotText
  <2>. QED
    BY <2>1, <2>2, <2>4, <2>5, <2>6, <2>7
<1>5. PICK P : P = {k \in 0 .. j - 1 : Decoding(s)[p[(j - 1) - k]] = NotText}
  OBVIOUS
<1>6. 0 \in P
  <2>1. (j - 1) - 0 = j - 1 /\ 0 \in 0 .. j - 1
    OBVIOUS
  <2>2. Decoding(s)[p[j - 1]] = NotText
    BY <1>3, <1>4
  <2>. QED
    BY <1>5, <2>1, <2>2
<1>7. ASSUME NEW k \in 0 .. (j - 1) - 1, k \in P PROVE k + 1 \in P
  <2>1. (j - 1) - k \in 1 .. n /\ ((j - 1) - k) - 1 = (j - 1) - (k + 1) /\ k + 1 \in 0 .. j - 1
    OBVIOUS
  <2>2. Decoding(s)[p[(j - 1) - k]] = NotText
    BY <1>5, <1>7
  <2>. QED
    BY <1>4, <1>5, <2>1, <2>2
<1>8. \A k \in 0 .. j - 1 : k \in P
  <2>1. j - 1 \in Nat
    OBVIOUS
  <2>. QED
    BY <1>6, <1>7, <2>1, Induct, Zenon
<1>. QED
  <2>1. j - 1 \in 0 .. j - 1 /\ (j - 1) - (j - 1) = 0
    OBVIOUS
  <2>. QED
    BY <1>2, <1>5, <1>8, <2>1

\* A string decodes to what it means.
LEMMA DecodesText ==
    ASSUME NEW s \in Seq(Token), NEW i \in Nat, NEW pieces, IsString(pieces),
           NEW p, LaidString(s, i, pieces, p), Means(pieces) # {}
    PROVE  Decoding(s)[i + 1] = [ok |-> TRUE, text |-> TextOf(pieces)]
<1>1. PICK n \in Nat : n = Len(pieces) /\ DOMAIN pieces = 1 .. n
  <2>1. pieces \in Seq(Seq(Token))
    BY StringTextType
  <2>. QED
    BY <2>1
<1>2. /\ p \in [0 .. n -> Nat] /\ p[0] = i + 1
      /\ \A k \in 1 .. n : HasAt(s, p[k - 1], pieces[k]) /\ p[k] = p[k - 1] + Len(pieces[k])
  BY <1>1 DEF LaidString, Laid
<1>3. PICK text \in Seq(Token) : text = TextOf(pieces) /\ Len(text) = n
  BY <1>1, WhatItMeans
<1>4. ASSUME NEW k \in 1 .. n
      PROVE  Decoding(s)[p[k - 1]] = WithChar(text[k], Decoding(s)[p[k]])
  <2>1. PICK piece \in Seq(Token) : piece = pieces[k] /\ IsPiece(piece)
    BY <1>1, PiecesOfString
  <2>2. PICK q \in Nat : q = p[k - 1] /\ p[k] = q + Len(piece) /\ HasAt(s, q, piece)
    <3>1. k - 1 \in 0 .. n
      OBVIOUS
    <3>. QED
      BY <1>2, <2>1, <3>1
  <2>3. IsEscape(piece) => ~HasPair(s, q + 1)
    BY <1>1, <2>1, <2>2, NoHiddenPair
  <2>4. \A c : Stands(piece) = {c} =>
                 Decoding(s)[q] = WithChar(c, Decoding(s)[q + Len(piece)])
    BY <2>1, <2>2, <2>3, PieceDecodes, Zenon
  <2>5. Stands(piece) = {CharOf(pieces, k)}
    BY <1>1, <2>1, WhatItMeans
  <2>6. text[k] = CharOf(pieces, k)
    BY <1>1, <1>3 DEF TextOf
  <2>. QED
    BY <2>2, <2>4, <2>5, <2>6
<1>5. PICK P : P = {k \in 0 .. n : Decoding(s)[p[n - k]] = [ok |-> TRUE, text |-> LastOf(text, k)]}
  OBVIOUS
<1>6. 0 \in P
  <2>0. p[n] \in 1 .. Len(s) + 1 /\ Get(s, p[n]) = "\""
    <3>1. PICK L \in Nat : L = Len(s)
      OBVIOUS
    <3>2. \A j \in 1 .. L : j \in 1 .. L + 1
      OBVIOUS
    <3>3. p[n] \in 1 .. L /\ Get(s, p[n]) = "\""
      BY <1>1, <3>1 DEF LaidString
    <3>. QED
      BY <3>1, <3>2, <3>3
  <2>1. Decoding(s)[p[n]] = [ok |-> TRUE, text |-> <<>>]
    BY <2>0, Decodes DEF DecodingStep
  <2>2. n - 0 = n /\ LastOf(text, 0) = <<>>
    BY <1>3, LastOfText
  <2>. QED
    BY <1>5, <2>1, <2>2
<1>7. ASSUME NEW k \in 0 .. n - 1, k \in P PROVE k + 1 \in P
  <2>1. n - k \in 1 .. n /\ (n - k) - 1 = n - (k + 1) /\ k + 1 \in 0 .. n
    OBVIOUS
  <2>2. Decoding(s)[p[n - k]] = [ok |-> TRUE, text |-> LastOf(text, k)]
    BY <1>5, <1>7
  <2>3. Decoding(s)[p[n - (k + 1)]] = WithChar(text[n - k], Decoding(s)[p[n - k]])
    BY <1>4, <2>1
  <2>4. <<text[n - k]>> \o LastOf(text, k) = LastOf(text, k + 1)
    BY <1>3, LastOneMore
  <2>5. WithChar(text[n - k], Decoding(s)[p[n - k]]) = [ok |-> TRUE, text |-> LastOf(text, k + 1)]
    <3>1. Decoding(s)[p[n - k]].ok = TRUE /\ Decoding(s)[p[n - k]].text = LastOf(text, k)
      BY <2>2
    <3>. QED
      BY <2>4, <3>1, Zenon DEF WithChar
  <2>. QED
    BY <1>5, <2>1, <2>3, <2>5
<1>8. \A k \in 0 .. n : k \in P
  BY <1>6, <1>7, Induct, Zenon
<1>. QED
  <2>1. n \in 0 .. n /\ n - n = 0
    OBVIOUS
  <2>2. LastOf(text, n) = text
    BY <1>3, LastOfText
  <2>3. Decoding(s)[p[0]] = [ok |-> TRUE, text |-> LastOf(text, n)]
    BY <1>5, <1>8, <2>1
  <2>. QED
    BY <1>2, <1>3, <2>2, <2>3

\* What reading a string gives: its text, unless it has none or is too long.
ReadAs(pieces) ==
    IF Means(pieces) = {} \/ Len(TextOf(pieces)) > MaxStdinSecret THEN NotText
    ELSE [ok |-> TRUE, text |-> TextOf(pieces)]

LEMMA StringIsRead ==
    ASSUME NEW s \in Seq(Token), NEW i \in Nat, NEW pieces, IsString(pieces),
           HasAt(s, i, StringText(pieces))
    PROVE  decode_json_string_bytes(s, i) = ReadAs(pieces)
<1>1. PICK p : LaidString(s, i, pieces, p)
  BY StringLaid
<1>2. Get(s, i) = "\""
  BY <1>1 DEF LaidString
<1>3. CASE Means(pieces) = {}
  <2>1. Decoding(s)[i + 1] = NotText
    BY <1>1, <1>3, DecodesNothing
  <2>2. decode_json_string_bytes(s, i) = NotText
    BY <1>2, <2>1 DEF decode_json_string_bytes, NotText
  <2>. QED
    BY <1>3, <2>2 DEF ReadAs
<1>4. CASE Means(pieces) # {}
  <2>1. Decoding(s)[i + 1] = [ok |-> TRUE, text |-> TextOf(pieces)]
    BY <1>1, <1>4, DecodesText
  <2>2. Decoding(s)[i + 1].ok = TRUE /\ Decoding(s)[i + 1].text = TextOf(pieces)
    BY <2>1
  <2>3. decode_json_string_bytes(s, i) =
            IF Len(TextOf(pieces)) > MaxStdinSecret THEN NotText ELSE Decoding(s)[i + 1]
    BY <1>2, <2>2, Zenon DEF decode_json_string_bytes
  <2>. QED
    BY <1>4, <2>1, <2>3 DEF ReadAs
<1>. QED
  BY <1>3, <1>4

-----------------------------------------------------------------------------
(* Where an object or an array ends *)

LEMMA StackMoves ==
    ASSUME NEW stack \in Stacks
    PROVE  /\ Len(stack) \in Nat \ {0} /\ Head(stack) = stack[1] /\ Head(stack) \in Opens
           /\ Len(Tail(stack)) = Len(stack) - 1
           /\ Tail(stack) # <<>> => Tail(stack) \in Stacks
           /\ \A l \in 1 .. Len(stack) - 1 : Tail(stack)[l] = stack[l + 1]
           /\ \A c \in Opens : /\ <<c>> \o stack \in Stacks /\ Len(<<c>> \o stack) = Len(stack) + 1
                               /\ (<<c>> \o stack)[1] = c
                               /\ \A l \in 1 .. Len(stack) : (<<c>> \o stack)[l + 1] = stack[l]
<1>. DEFINE O == Opens
<1>0. Stacks = Seq(O) \ {<<>>}
  BY DEF Stacks
<1>. HIDE DEF O
<1>1. stack \in Seq(O) /\ stack # <<>>
  BY <1>0
<1>2. Len(stack) \in Nat \ {0}
  BY <1>1
<1>3. Head(stack) = stack[1] /\ stack[1] \in O
  BY <1>1, <1>2
<1>4. Tail(stack) \in Seq(O) /\ Len(Tail(stack)) = Len(stack) - 1
      /\ \A l \in 1 .. Len(stack) - 1 : Tail(stack)[l] = stack[l + 1]
  BY <1>1
<1>5. ASSUME NEW c \in O
      PROVE  /\ <<c>> \o stack \in Seq(O) /\ Len(<<c>> \o stack) = Len(stack) + 1
             /\ (<<c>> \o stack)[1] = c
             /\ \A l \in 1 .. Len(stack) : (<<c>> \o stack)[l + 1] = stack[l]
  <2>1. <<c>> \in Seq(O) /\ Len(<<c>>) = 1 /\ <<c>>[1] = c
    OBVIOUS
  <2>2. PICK more : more = <<c>> \o stack
    OBVIOUS
  <2>3. /\ more \in Seq(O) /\ Len(more) = 1 + Len(stack)
        /\ \A m \in 1 .. 1 : more[m] = <<c>>[m]
        /\ \A l \in 1 .. Len(stack) : more[1 + l] = stack[l]
    BY <1>1, <2>1, <2>2
  <2>4. more[1] = c
    BY <2>1, <2>3
  <2>5. \A l \in 1 .. Len(stack) : 1 + l = l + 1
    OBVIOUS
  <2>6. Len(more) = Len(stack) + 1
    BY <1>2, <2>3
  <2>. QED
    BY <2>2, <2>3, <2>4, <2>5, <2>6
<1>6. \A c \in O : <<c>> \o stack \in Seq(O) \ {<<>>}
  <2>1. \A more : more \in Seq(O) /\ Len(more) = Len(stack) + 1 => more # <<>>
    BY <1>2
  <2>. QED
    BY <1>5, <2>1
<1>. QED
  BY <1>0, <1>2, <1>3, <1>4, <1>5, <1>6 DEF O

\* One step of the scan, from its values at later places.
CompoundStep(s, i, end, stack) ==
    IF Get(s, i) = "end" THEN 0
    ELSE IF Get(s, i) = "\""
         THEN IF json_string_end(s, i) = 0 THEN 0 ELSE end[json_string_end(s, i)][stack]
    ELSE IF Get(s, i) \in Opens THEN end[i + 1][<<s[i]>> \o stack]
    ELSE IF Get(s, i) \in DOMAIN Closes
         THEN IF Head(stack) # Closes[s[i]] THEN 0
              ELSE IF Tail(stack) = <<>> THEN i + 1
              ELSE end[i + 1][Tail(stack)]
    ELSE end[i + 1][stack]

\* The place that a step looks at next.
CompoundNext(s, i) ==
    IF Get(s, i) = "end" THEN 0 ELSE IF Get(s, i) = "\"" THEN json_string_end(s, i) ELSE i + 1

LEMMA Opening == /\ "end" \notin Opens /\ "\"" \notin Opens
                 /\ Opens = DOMAIN Bracket /\ DOMAIN Closes = {"}", "]"}
                 /\ \A c \in Opens : Bracket[c] \in DOMAIN Closes /\ Closes[Bracket[c]] = c
                                     /\ Bracket[c] \notin Opens
BY DEF Opens, Closes, Bracket

LEMMA NextInText ==
    ASSUME NEW S, NEW s \in Seq(S), NEW i \in 1 .. Len(s) + 1
    PROVE  CompoundNext(s, i) = 0 \/ CompoundNext(s, i) \in i + 1 .. Len(s) + 1
<1>1. PICK L \in Nat : L = Len(s) /\ DOMAIN s = 1 .. L
  OBVIOUS
<1>2. CASE Get(s, i) = "end"
  BY <1>2 DEF CompoundNext
<1>3. CASE Get(s, i) # "end"
  <2>1. i \in 1 .. L
    BY <1>1, <1>3 DEF Get
  <2>2. CASE Get(s, i) = "\""
    <3>1. i + 1 \in 1 .. L + 1
      BY <2>1
    <3>2. StringEnd(s)[i + 1] \in StringEndRange(s, i + 1)
      BY <1>1, <3>1, StringEndType
    <3>3. StringEnd(s)[i + 1] = 0 \/ StringEnd(s)[i + 1] \in (i + 1) + 1 .. L + 1
      BY <1>1, <3>2 DEF StringEndRange
    <3>4. CompoundNext(s, i) = StringEnd(s)[i + 1]
      BY <2>2 DEF CompoundNext, json_string_end
    <3>5. \A j \in (i + 1) + 1 .. L + 1 : j \in i + 1 .. L + 1
      OBVIOUS
    <3>. QED
      BY <1>1, <3>3, <3>4, <3>5
  <2>3. CASE Get(s, i) # "\""
    <3>1. CompoundNext(s, i) = i + 1
      BY <1>3, <2>3 DEF CompoundNext
    <3>2. i + 1 \in i + 1 .. L + 1
      BY <2>1
    <3>. QED
      BY <1>1, <3>1, <3>2
  <2>. QED
    BY <2>2, <2>3
<1>. QED
  BY <1>2, <1>3

\* A step depends on the value at the next place alone.
CompoundFrom(s, i, rest, stack) ==
    IF Get(s, i) = "\"" THEN rest[stack]
    ELSE IF Get(s, i) \in Opens THEN rest[<<s[i]>> \o stack]
    ELSE IF Get(s, i) \in DOMAIN Closes
         THEN IF Head(stack) # Closes[s[i]] THEN 0
              ELSE IF Tail(stack) = <<>> THEN i + 1
              ELSE rest[Tail(stack)]
    ELSE rest[stack]

LEMMA CompoundStepIs ==
    ASSUME NEW s, NEW i, NEW end, NEW stack
    PROVE  CompoundStep(s, i, end, stack) =
              IF CompoundNext(s, i) = 0 /\ Get(s, i) \in {"end", "\""} THEN 0
              ELSE CompoundFrom(s, i, end[CompoundNext(s, i)], stack)
<1>1. CASE Get(s, i) = "end"
  BY <1>1 DEF CompoundStep, CompoundNext
<1>2. CASE Get(s, i) = "\""
  <2>1. CASE json_string_end(s, i) = 0
    BY <1>2, <2>1 DEF CompoundStep, CompoundNext
  <2>2. CASE json_string_end(s, i) # 0
    BY <1>2, <2>2 DEF CompoundStep, CompoundNext, CompoundFrom
  <2>. QED
    BY <2>1, <2>2
<1>3. CASE Get(s, i) \notin {"end", "\""}
  <2>1. CompoundNext(s, i) = i + 1
    BY <1>3 DEF CompoundNext
  <2>. QED
    BY <1>3, <2>1, Zenon DEF CompoundStep, CompoundFrom
<1>. QED
  BY <1>1, <1>2, <1>3

LEMMA CompoundFromType ==
    ASSUME NEW S, NEW s \in Seq(S), NEW i \in 1 .. Len(s) + 1, NEW rest \in [Stacks -> Nat],
           NEW stack \in Stacks
    PROVE  CompoundFrom(s, i, rest, stack) \in Nat
<1>1. i + 1 \in Nat /\ 0 \in Nat /\ rest[stack] \in Nat
  OBVIOUS
<1>2. ASSUME Get(s, i) \in Opens PROVE rest[<<s[i]>> \o stack] \in Nat
  <2>1. s[i] \in Opens
    BY <1>2, Opening DEF Get
  <2>2. <<s[i]>> \o stack \in Stacks
    BY <2>1, StackMoves
  <2>. QED
    BY <2>2
<1>3. ASSUME Tail(stack) # <<>> PROVE rest[Tail(stack)] \in Nat
  <2>1. Tail(stack) \in Stacks
    BY <1>3, StackMoves
  <2>. QED
    BY <2>1
<1>. QED
  BY <1>1, <1>2, <1>3, Zenon DEF CompoundFrom

LEMMA CompoundEnds ==
    ASSUME NEW S, NEW s \in Seq(S), NEW i \in 1 .. Len(s) + 1, NEW stack \in Stacks
    PROVE  CompoundEnd(s)[i][stack] = CompoundStep(s, i, CompoundEnd(s), stack)
<1>1. PICK N \in Nat : N = Len(s) + 1
  <2>1. Len(s) + 1 \in Nat
    OBVIOUS
  <2>. QED
    BY <2>1
<1>. DEFINE Equation(end) ==
                end = [k \in 1 .. Len(s) + 1 |-> [t \in Stacks |-> CompoundStep(s, k, end, t)]]
            compound == CHOOSE end : Equation(end)
            R == [Stacks -> Nat]
<1>2. PICK next : next = [k \in 1 .. N |-> CompoundNext(s, k)]
  OBVIOUS
<1>3. PICK combine : combine = [p \in (1 .. N) \X R |->
                                   [t \in Stacks |-> CompoundFrom(s, p[1], p[2], t)]]
  OBVIOUS
<1>4. PICK stop : stop = [k \in 1 .. N |-> [t \in Stacks |-> 0]]
  OBVIOUS
<1>5. next \in [1 .. N -> Nat]
  <2>1. ASSUME NEW k \in 1 .. N PROVE CompoundNext(s, k) \in Nat
    <3>1. CompoundNext(s, k) = 0 \/ CompoundNext(s, k) \in k + 1 .. Len(s) + 1
      BY <1>1, NextInText
    <3>. QED
      BY <3>1
  <2>. QED
    BY <1>2, <2>1
<1>6. combine \in [(1 .. N) \X R -> R]
  <2>1. ASSUME NEW k \in 1 .. N, NEW rest \in R
        PROVE  [t \in Stacks |-> CompoundFrom(s, k, rest, t)] \in R
    <3>1. ASSUME NEW t \in Stacks PROVE CompoundFrom(s, k, rest, t) \in Nat
      BY <1>1, CompoundFromType
    <3>. QED
      BY <3>1
  <2>. HIDE DEF R
  <2>. QED
    BY <1>3, <2>1
<1>7. stop \in [1 .. N -> R]
  <2>1. [t \in Stacks |-> 0] \in R
    OBVIOUS
  <2>. HIDE DEF R
  <2>. QED
    BY <1>4, <2>1
<1>8. PICK f \in [1 .. N -> R] : \A k \in 1 .. N :
          f[k] = IF next[k] \in k + 1 .. N THEN combine[<<k, f[next[k]]>>] ELSE stop[k]
  <2>. HIDE DEF R
  <2>1. Chasing(N, R, next, combine, stop)
    BY <1>5, <1>6, <1>7, Chased
  <2>. QED
    BY <2>1 DEF Chasing
<1>9. ASSUME NEW k \in 1 .. N PROVE f[k] = [t \in Stacks |-> CompoundStep(s, k, f, t)]
  <2>. HIDE DEF R
  <2>0. next[k] = CompoundNext(s, k)
    BY <1>2
  <2>1. CASE CompoundNext(s, k) \in k + 1 .. N
    <3>1. PICK j \in 1 .. N : j = next[k] /\ j \in k + 1 .. N /\ j # 0
      BY <2>0, <2>1
    <3>2. f[j] \in R
      OBVIOUS
    <3>3. combine[<<k, f[j]>>] = [t \in Stacks |-> CompoundFrom(s, k, f[j], t)]
      BY <1>3, <3>2
    <3>4. f[k] = [t \in Stacks |-> CompoundFrom(s, k, f[j], t)]
      BY <1>8, <3>1, <3>3
    <3>5. \A t : CompoundStep(s, k, f, t) = CompoundFrom(s, k, f[j], t)
      BY <2>0, <3>1, CompoundStepIs
    <3>. QED
      BY <3>4, <3>5
  <2>2. CASE CompoundNext(s, k) \notin k + 1 .. N
    <3>1. CompoundNext(s, k) = 0
      BY <1>1, <2>2, NextInText
    <3>2. Get(s, k) \in {"end", "\""}
      <4>1. k + 1 # 0
        OBVIOUS
      <4>2. Get(s, k) \notin {"end", "\""} => CompoundNext(s, k) = k + 1
        BY DEF CompoundNext
      <4>. QED
        BY <3>1, <4>1, <4>2
    <3>3. \A t : CompoundStep(s, k, f, t) = 0
      BY <3>1, <3>2, CompoundStepIs
    <3>4. f[k] = [t \in Stacks |-> 0]
      BY <1>4, <1>8, <2>0, <2>2
    <3>. QED
      BY <3>3, <3>4
  <2>. QED
    BY <2>1, <2>2
<1>10. Equation(f)
  <2>1. f = [k \in 1 .. N |-> [t \in Stacks |-> CompoundStep(s, k, f, t)]]
    BY <1>9
  <2>. QED
    BY <1>1, <2>1
<1>11. Equation(compound)
  BY <1>10
<1>12. CompoundEnd(s) = compound
  BY DEF CompoundEnd, CompoundStep
<1>. HIDE DEF compound
<1>13. compound[i] = [t \in Stacks |-> CompoundStep(s, i, compound, t)]
  BY <1>11
<1>14. compound[i][stack] = CompoundStep(s, i, compound, stack)
  BY <1>13
<1>. QED
  BY <1>12, <1>14

\* Where a value at i can end.
EndRange(s, i) == {0} \union (i + 1 .. Len(s) + 1)

\* What a step leads to: nothing, the next place, or the value for another stack at
\* a later place.
LEMMA CompoundCases ==
    ASSUME NEW S, NEW s \in Seq(S), NEW i \in 1 .. Len(s) + 1, NEW stack \in Stacks
    PROVE  \/ CompoundEnd(s)[i][stack] = 0
           \/ CompoundEnd(s)[i][stack] = i + 1 /\ i + 1 \in i + 1 .. Len(s) + 1
           \/ \E j \in i + 1 .. Len(s) + 1, more \in Stacks :
                 CompoundEnd(s)[i][stack] = CompoundEnd(s)[j][more]
<1>1. PICK N \in Nat : N = Len(s) + 1
  <2>1. Len(s) + 1 \in Nat
    OBVIOUS
  <2>. QED
    BY <2>1
<1>2. CompoundEnd(s)[i][stack] = CompoundStep(s, i, CompoundEnd(s), stack)
  BY CompoundEnds
<1>3. CompoundNext(s, i) = 0 \/ CompoundNext(s, i) \in i + 1 .. N
  BY <1>1, NextInText
<1>4. CASE Get(s, i) = "end"
  BY <1>2, <1>4 DEF CompoundStep
<1>5. CASE Get(s, i) = "\""
  <2>1. CompoundNext(s, i) = json_string_end(s, i)
    BY <1>5 DEF CompoundNext
  <2>2. CASE json_string_end(s, i) = 0
    BY <1>2, <1>5, <2>2 DEF CompoundStep
  <2>3. CASE json_string_end(s, i) # 0
    <3>1. CompoundEnd(s)[i][stack] = CompoundEnd(s)[json_string_end(s, i)][stack]
      BY <1>2, <1>5, <2>3 DEF CompoundStep
    <3>. QED
      BY <1>1, <1>3, <2>1, <2>3, <3>1
  <2>. QED
    BY <2>2, <2>3
<1>6. CASE Get(s, i) \notin {"end", "\""}
  <2>1. CompoundNext(s, i) = i + 1
    BY <1>6 DEF CompoundNext
  <2>2. i + 1 # 0
    OBVIOUS
  <2>3. i + 1 \in i + 1 .. N
    BY <1>3, <2>1, <2>2
  <2>4. CASE Get(s, i) \in Opens
    <3>1. s[i] \in Opens
      BY <2>4, Opening DEF Get
    <3>2. <<s[i]>> \o stack \in Stacks
      BY <3>1, StackMoves
    <3>3. CompoundEnd(s)[i][stack] = CompoundEnd(s)[i + 1][<<s[i]>> \o stack]
      BY <1>2, <1>6, <2>4 DEF CompoundStep
    <3>. QED
      BY <1>1, <2>3, <3>2, <3>3
  <2>5. CASE Get(s, i) \notin Opens /\ Get(s, i) \in DOMAIN Closes
    <3>1. CASE Head(stack) # Closes[s[i]]
      BY <1>2, <1>6, <2>5, <3>1 DEF CompoundStep
    <3>2. CASE Head(stack) = Closes[s[i]] /\ Tail(stack) = <<>>
      <4>1. CompoundEnd(s)[i][stack] = i + 1
        BY <1>2, <1>6, <2>5, <3>2 DEF CompoundStep
      <4>. QED
        BY <1>1, <2>3, <4>1
    <3>3. CASE Head(stack) = Closes[s[i]] /\ Tail(stack) # <<>>
      <4>1. CompoundEnd(s)[i][stack] = CompoundEnd(s)[i + 1][Tail(stack)]
        BY <1>2, <1>6, <2>5, <3>3 DEF CompoundStep
      <4>2. Tail(stack) \in Stacks
        BY <3>3, StackMoves
      <4>. QED
        BY <1>1, <2>3, <4>1, <4>2
    <3>. QED
      BY <3>1, <3>2, <3>3
  <2>6. CASE Get(s, i) \notin Opens /\ Get(s, i) \notin DOMAIN Closes
    <3>1. CompoundEnd(s)[i][stack] = CompoundEnd(s)[i + 1][stack]
      BY <1>2, <1>6, <2>6 DEF CompoundStep
    <3>. QED
      BY <1>1, <2>3, <3>1
  <2>. QED
    BY <2>4, <2>5, <2>6
<1>. QED
  BY <1>4, <1>5, <1>6

LEMMA CompoundEndType ==
    ASSUME NEW S, NEW s \in Seq(S)
    PROVE  \A i \in 1 .. Len(s) + 1 : \A stack \in Stacks : CompoundEnd(s)[i][stack] \in EndRange(s, i)
<1>1. PICK N \in Nat : N = Len(s) + 1
  <2>1. Len(s) + 1 \in Nat
    OBVIOUS
  <2>. QED
    BY <2>1
<1>2. PICK P : P = {i \in 1 .. N : \A stack \in Stacks : CompoundEnd(s)[i][stack] \in EndRange(s, i)}
  OBVIOUS
<1>3. ASSUME NEW i \in 1 .. N, \A j \in i + 1 .. N : j \in P PROVE i \in P
  <2>1. ASSUME NEW stack \in Stacks PROVE CompoundEnd(s)[i][stack] \in EndRange(s, i)
    <3>1. PICK e : e = CompoundEnd(s)[i][stack]
      OBVIOUS
    <3>2. \/ e = 0
          \/ e = i + 1 /\ i + 1 \in i + 1 .. N
          \/ \E j \in i + 1 .. N, more \in Stacks : e = CompoundEnd(s)[j][more]
      BY <1>1, <3>1, CompoundCases
    <3>3. ASSUME NEW j \in i + 1 .. N, NEW more \in Stacks, e = CompoundEnd(s)[j][more]
          PROVE  e \in {0} \union (i + 1 .. N)
      <4>1. e \in EndRange(s, j)
        BY <1>2, <1>3, <3>3
      <4>2. e \in {0} \union (j + 1 .. N)
        BY <1>1, <4>1 DEF EndRange
      <4>. QED
        BY <4>2
    <3>4. e \in {0} \union (i + 1 .. N)
      BY <3>2, <3>3
    <3>. QED
      BY <1>1, <3>1, <3>4 DEF EndRange
  <2>. QED
    BY <1>2, <2>1
<1>4. \A i \in 1 .. N : i \in P
  BY <1>3, Downward, Zenon
<1>. QED
  BY <1>1, <1>2, <1>4

LEMMA CompoundEndInCut ==
    ASSUME NEW s \in Seq(Token), NEW t \in Seq(Token), IsCut(t, s)
    PROVE  \A i \in 1 .. Len(t) + 1 : \A stack \in Stacks :
              CompoundEnd(t)[i][stack] # 0 => CompoundEnd(s)[i][stack] = CompoundEnd(t)[i][stack]
<1>1. PICK N \in Nat : N = Len(t) + 1 /\ N <= Len(s) + 1 /\ DOMAIN t = 1 .. N - 1
  <2>1. PICK L \in Nat : L = Len(t) /\ DOMAIN t = 1 .. L
    OBVIOUS
  <2>2. L + 1 \in Nat /\ (L + 1) - 1 = L
    OBVIOUS
  <2>3. L <= Len(s)
    BY <2>1 DEF IsCut
  <2>. QED
    BY <2>1, <2>2, <2>3
<1>. DEFINE Same(i, stack) ==
                CompoundEnd(t)[i][stack] # 0 => CompoundEnd(s)[i][stack] = CompoundEnd(t)[i][stack]
<1>2. PICK P : P = {i \in 1 .. N : \A stack \in Stacks : Same(i, stack)}
  OBVIOUS
<1>3. ASSUME NEW i \in 1 .. N, \A j \in i + 1 .. N : j \in P PROVE i \in P
  <2>0. i \in 1 .. Len(s) + 1 /\ i \in 1 .. Len(t) + 1
    BY <1>1
  <2>1. ASSUME NEW stack \in Stacks, CompoundEnd(t)[i][stack] # 0
        PROVE  CompoundEnd(s)[i][stack] = CompoundEnd(t)[i][stack]
    <3>1. CompoundEnd(t)[i][stack] = CompoundStep(t, i, CompoundEnd(t), stack)
      BY <2>0, CompoundEnds
    <3>2. CompoundEnd(s)[i][stack] = CompoundStep(s, i, CompoundEnd(s), stack)
      BY <2>0, CompoundEnds
    <3>3. Get(t, i) # "end"
      BY <2>1, <3>1 DEF CompoundStep
    <3>4. Get(s, i) = Get(t, i)
      BY <3>3 DEF IsCut
    <3>5. s[i] = t[i] /\ i \in 1 .. N - 1
      BY <1>1, <3>3, <3>4 DEF Get
    <3>6. ASSUME NEW j \in i + 1 .. N, NEW more \in Stacks,
                 CompoundEnd(t)[i][stack] = CompoundEnd(t)[j][more]
          PROVE  CompoundEnd(s)[j][more] = CompoundEnd(t)[i][stack]
      BY <1>2, <1>3, <2>1, <3>6
    <3>7. CASE Get(t, i) = "\""
      <4>1. json_string_end(t, i) # 0
        BY <2>1, <3>1, <3>7 DEF CompoundStep
      <4>2. json_string_end(s, i) = json_string_end(t, i)
        BY <4>1, StringInCut
      <4>3. CompoundEnd(t)[i][stack] = CompoundEnd(t)[json_string_end(t, i)][stack]
        BY <3>1, <3>7, <4>1 DEF CompoundStep
      <4>4. CompoundEnd(s)[i][stack] = CompoundEnd(s)[json_string_end(t, i)][stack]
        BY <3>2, <3>4, <3>7, <4>1, <4>2 DEF CompoundStep
      <4>5. json_string_end(t, i) \in i + 1 .. N
        <5>1. CompoundNext(t, i) = json_string_end(t, i)
          BY <3>7 DEF CompoundNext
        <5>. QED
          BY <1>1, <4>1, <5>1, NextInText
      <4>. QED
        BY <3>6, <4>3, <4>4, <4>5
    <3>8. CASE Get(t, i) # "\""
      <4>0. i + 1 \in i + 1 .. N
        BY <3>5
      <4>1. CASE Get(t, i) \in Opens
        <5>1. t[i] \in Opens
          BY <4>1, Opening DEF Get
        <5>2. <<t[i]>> \o stack \in Stacks
          BY <5>1, StackMoves
        <5>3. CompoundEnd(t)[i][stack] = CompoundEnd(t)[i + 1][<<t[i]>> \o stack]
          BY <3>1, <3>3, <3>8, <4>1 DEF CompoundStep
        <5>4. CompoundEnd(s)[i][stack] = CompoundEnd(s)[i + 1][<<t[i]>> \o stack]
          BY <3>2, <3>3, <3>4, <3>5, <3>8, <4>1 DEF CompoundStep
        <5>. QED
          BY <3>6, <4>0, <5>2, <5>3, <5>4
      <4>2. CASE Get(t, i) \notin Opens /\ Get(t, i) \in DOMAIN Closes
        <5>1. Head(stack) = Closes[t[i]]
          BY <2>1, <3>1, <3>3, <3>8, <4>2 DEF CompoundStep
        <5>2. CASE Tail(stack) = <<>>
          <6>1. CompoundEnd(t)[i][stack] = i + 1
            BY <3>1, <3>3, <3>8, <4>2, <5>1, <5>2 DEF CompoundStep
          <6>2. CompoundEnd(s)[i][stack] = i + 1
            BY <3>2, <3>3, <3>4, <3>5, <3>8, <4>2, <5>1, <5>2 DEF CompoundStep
          <6>. QED
            BY <6>1, <6>2
        <5>3. CASE Tail(stack) # <<>>
          <6>1. CompoundEnd(t)[i][stack] = CompoundEnd(t)[i + 1][Tail(stack)]
            BY <3>1, <3>3, <3>8, <4>2, <5>1, <5>3 DEF CompoundStep
          <6>2. CompoundEnd(s)[i][stack] = CompoundEnd(s)[i + 1][Tail(stack)]
            BY <3>2, <3>3, <3>4, <3>5, <3>8, <4>2, <5>1, <5>3 DEF CompoundStep
          <6>3. Tail(stack) \in Stacks
            BY <5>3, StackMoves
          <6>. QED
            BY <3>6, <4>0, <6>1, <6>2, <6>3
        <5>. QED
          BY <5>2, <5>3
      <4>3. CASE Get(t, i) \notin Opens /\ Get(t, i) \notin DOMAIN Closes
        <5>1. CompoundEnd(t)[i][stack] = CompoundEnd(t)[i + 1][stack]
          BY <3>1, <3>3, <3>8, <4>3 DEF CompoundStep
        <5>2. CompoundEnd(s)[i][stack] = CompoundEnd(s)[i + 1][stack]
          BY <3>2, <3>3, <3>4, <3>8, <4>3 DEF CompoundStep
        <5>. QED
          BY <3>6, <4>0, <5>1, <5>2
      <4>. QED
        BY <4>1, <4>2, <4>3
    <3>. QED
      BY <3>7, <3>8
  <2>. QED
    BY <1>2, <2>1
<1>4. \A i \in 1 .. N : i \in P
  <2>. HIDE DEF Same
  <2>. QED
    BY <1>3, Downward, Zenon
<1>. QED
  BY <1>1, <1>2, <1>4

\* How much an item adds to the depth.
Change(item) == IF IsOpening(item) THEN 1 ELSE IF IsClosing(item) THEN -1 ELSE 0

LEMMA DepthIs ==
    ASSUME NEW T, NEW items \in Seq(T)
    PROVE  /\ \A k \in 0 .. Len(items) : Depth(items)[k] \in Int
           /\ Depth(items)[0] = 0
           /\ \A k \in 1 .. Len(items) : Depth(items)[k] = Depth(items)[k - 1] + Change(items[k])
<1>1. PICK n \in Nat : n = Len(items)
  OBVIOUS
<1>. DEFINE Equation(depth) == depth = [k \in 0 .. Len(items) |->
                IF k = 0 THEN 0
                ELSE depth[k - 1] + (IF IsOpening(items[k]) THEN 1
                                     ELSE IF IsClosing(items[k]) THEN -1 ELSE 0)]
            deep == CHOOSE depth : Equation(depth)
<1>2. \A item : Change(item) \in Int
  BY DEF Change
<1>3. PICK step : step = [p \in (0 .. n) \X [0 .. n -> Int] |->
                             IF p[1] = 0 THEN 0 ELSE p[2][p[1] - 1] + Change(items[p[1]])]
  OBVIOUS
<1>4. ASSUME NEW k \in 0 .. n, NEW g \in [0 .. n -> Int]
      PROVE  /\ step[<<k, g>>] = IF k = 0 THEN 0 ELSE g[k - 1] + Change(items[k])
             /\ step[<<k, g>>] \in Int
  <2>1. step[<<k, g>>] = IF k = 0 THEN 0 ELSE g[k - 1] + Change(items[k])
    BY <1>3
  <2>2. k # 0 => g[k - 1] \in Int
    OBVIOUS
  <2>. QED
    BY <1>2, <2>1, <2>2
<1>5. step \in StepsUp(n, Int)
  <2>1. step \in [(0 .. n) \X [0 .. n -> Int] -> Int]
    BY <1>3, <1>4
  <2>2. ASSUME NEW k \in 0 .. n, NEW g \in [0 .. n -> Int], NEW h \in [0 .. n -> Int],
               \A j \in 0 .. k - 1 : g[j] = h[j]
        PROVE  step[<<k, g>>] = step[<<k, h>>]
    <3>1. k # 0 => g[k - 1] = h[k - 1]
      BY <2>2
    <3>. QED
      BY <1>4, <3>1
  <2>. QED
    BY <2>1, <2>2 DEF StepsUp
<1>6. PICK f \in [0 .. n -> Int] : \A k \in 0 .. n : f[k] = step[<<k, f>>]
  <2>1. Recursive(0 .. n, Int, step)
    <3>1. Int # {}
      OBVIOUS
    <3>. QED
      BY <1>5, <3>1, Upwards
  <2>. QED
    BY <2>1 DEF Recursive
<1>7. ASSUME NEW k \in 0 .. n PROVE f[k] = IF k = 0 THEN 0 ELSE f[k - 1] + Change(items[k])
  BY <1>4, <1>6
<1>8. Equation(f)
  <2>1. f = [k \in 0 .. n |-> IF k = 0 THEN 0 ELSE f[k - 1] + Change(items[k])]
    BY <1>7
  <2>. QED
    BY <1>1, <2>1 DEF Change
<1>9. Equation(deep)
  BY <1>8
<1>10. Depth(items) = deep
  BY DEF Depth
<1>11. deep = [k \in 0 .. n |-> IF k = 0 THEN 0 ELSE deep[k - 1] + Change(items[k])]
  BY <1>1, <1>9 DEF Change
<1>. HIDE DEF deep
<1>12. deep[0] = 0 /\ \A k \in 1 .. n : deep[k] = deep[k - 1] + Change(items[k])
  <2>1. \A k \in 1 .. n : k \in 0 .. n /\ k # 0
    OBVIOUS
  <2>. QED
    BY <1>11, <2>1
<1>13. PICK P : P = {k \in 0 .. n : deep[k] \in Int}
  OBVIOUS
<1>14. 0 \in P
  BY <1>12, <1>13
<1>15. ASSUME NEW k \in 0 .. n - 1, k \in P PROVE k + 1 \in P
  <2>1. k + 1 \in 1 .. n /\ (k + 1) - 1 = k /\ k + 1 \in 0 .. n
    OBVIOUS
  <2>2. deep[k + 1] = deep[k] + Change(items[k + 1])
    BY <1>12, <2>1
  <2>3. deep[k] \in Int /\ Change(items[k + 1]) \in Int
    BY <1>2, <1>13, <1>15
  <2>4. deep[k + 1] \in Int
    BY <2>2, <2>3
  <2>. QED
    BY <1>13, <2>1, <2>4
<1>16. \A k \in 0 .. n : k \in P
  BY <1>14, <1>15, Induct, Zenon
<1>. QED
  BY <1>1, <1>10, <1>12, <1>13, <1>16

LEMMA ItemIs ==
    ASSUME NEW item, IsItem(item)
    PROVE  /\ ItemText(item) \in Seq(Token) /\ Len(ItemText(item)) \in Nat \ {0}
           /\ item.is = "string" => /\ ItemText(item) = StringText(item.pieces) /\ IsString(item.pieces)
                                    /\ ~IsOpening(item) /\ ~IsClosing(item)
           /\ item.is # "string" => /\ ItemText(item) = <<item.token>> /\ item.token \in Token
                                    /\ item.token \notin {"\"", "end"} /\ Len(ItemText(item)) = 1
           /\ IsOpening(item) <=> item.is # "string" /\ item.token \in Opens
           /\ IsClosing(item) <=> item.is # "string" /\ item.token \in DOMAIN Closes
<1>0. {Bracket[open] : open \in DOMAIN Bracket} = DOMAIN Closes /\ DOMAIN Bracket = Opens
  BY DEF Bracket, Closes, Opens
<1>1. CASE item.is = "string"
  <2>1. IsString(item.pieces) /\ ItemText(item) = StringText(item.pieces)
    BY <1>1 DEF IsItem, ItemText
  <2>2. /\ FlattenSeq(item.pieces) \in Seq(Token) /\ StringText(item.pieces) \in Seq(Token)
        /\ Len(StringText(item.pieces)) = Len(FlattenSeq(item.pieces)) + 2
    BY <2>1, StringTextType
  <2>3. Len(StringText(item.pieces)) \in Nat \ {0}
    BY <2>2
  <2>4. ~IsOpening(item) /\ ~IsClosing(item)
    BY <1>1 DEF IsOpening, IsClosing
  <2>. QED
    BY <1>1, <2>1, <2>2, <2>3, <2>4
<1>2. CASE item.is # "string"
  <2>1. item.is = "token" /\ item.token \in STRING \ {"\"", "end"} /\ ItemText(item) = <<item.token>>
    BY <1>2 DEF IsItem, ItemText
  <2>2. item.token \in Token
    BY <2>1 DEF Token
  <2>3. <<item.token>> \in Seq(Token) /\ Len(<<item.token>>) = 1
    BY <2>2
  <2>4. IsOpening(item) <=> item.token \in Opens
    BY <1>0, <2>1 DEF IsOpening
  <2>5. IsClosing(item) <=> item.token \in DOMAIN Closes
    BY <1>0, <2>1 DEF IsClosing
  <2>6. 1 \in Nat \ {0} /\ item.is # "string"
    BY <1>2
  <2>7. ItemText(item) \in Seq(Token) /\ Len(ItemText(item)) = 1
    BY <2>1, <2>3
  <2>. QED
    BY <2>1, <2>2, <2>4, <2>5, <2>6, <2>7
<1>. QED
  BY <1>1, <1>2

\* Where the scanner goes from an item at i, with what it expects to be closed.
ItemMoves(s, i, item, stack) ==
    /\ IsOpening(item) =>
          CompoundEnd(s)[i][stack] = CompoundEnd(s)[i + Len(ItemText(item))][<<item.token>> \o stack]
    /\ IsClosing(item) /\ Head(stack) = Closes[item.token] =>
          CompoundEnd(s)[i][stack] =
             IF Tail(stack) = <<>> THEN i + Len(ItemText(item))
             ELSE CompoundEnd(s)[i + Len(ItemText(item))][Tail(stack)]
    /\ ~IsOpening(item) /\ ~IsClosing(item) =>
          CompoundEnd(s)[i][stack] = CompoundEnd(s)[i + Len(ItemText(item))][stack]

\* The scan over one item.
LEMMA ItemIsScanned ==
    ASSUME NEW s \in Seq(Token), NEW i \in Nat, NEW item, IsItem(item),
           HasAt(s, i, ItemText(item)), NEW stack \in Stacks
    PROVE  ItemMoves(s, i, item, stack)
<1>0. PICK N \in Nat : N = Len(s) /\ DOMAIN s = 1 .. N
  OBVIOUS
<1>1. /\ ItemText(item) \in Seq(Token) /\ Len(ItemText(item)) \in Nat \ {0}
  BY ItemIs
<1>2. i \in 1 .. N + 1 /\ i + Len(ItemText(item)) <= N + 1 /\ i + 1 # 0 /\ i # 0
  BY <1>0, <1>1 DEF HasAt
<1>3. CompoundEnd(s)[i][stack] = CompoundStep(s, i, CompoundEnd(s), stack)
  BY <1>0, <1>2, CompoundEnds
<1>4. CASE item.is = "string"
  <2>1. ItemText(item) = StringText(item.pieces) /\ IsString(item.pieces) /\ ~IsOpening(item) /\ ~IsClosing(item)
    BY <1>4, ItemIs
  <2>2. HasAt(s, i, StringText(item.pieces))
    BY <2>1
  <2>3. json_string_end(s, i) = i + Len(ItemText(item))
    BY <2>1, <2>2, StringIsScanned
  <2>4. PICK p : LaidString(s, i, item.pieces, p)
    BY <2>1, <2>2, StringLaid
  <2>5. Get(s, i) = "\""
    BY <2>4 DEF LaidString
  <2>6. json_string_end(s, i) # 0
    BY <1>1, <1>2, <2>3
  <2>7. CompoundEnd(s)[i][stack] = CompoundEnd(s)[i + Len(ItemText(item))][stack]
    BY <1>3, <2>3, <2>5, <2>6 DEF CompoundStep
  <2>. QED
    BY <2>1, <2>7 DEF ItemMoves
<1>5. CASE item.is # "string"
  <2>1. /\ ItemText(item) = <<item.token>> /\ item.token \in Token /\ Len(ItemText(item)) = 1
        /\ item.token \notin {"\"", "end"}
        /\ IsOpening(item) <=> item.token \in Opens
        /\ IsClosing(item) <=> item.token \in DOMAIN Closes
    BY <1>5, ItemIs
  <2>2. HasAt(s, i, <<item.token>>)
    BY <2>1
  <2>3. i \in 1 .. Len(s) /\ Get(s, i) = item.token
    BY <2>1, <2>2, HasFirst
  <2>4. s[i] = item.token /\ Get(s, i) \notin {"\"", "end"}
    BY <2>1, <2>3 DEF Get
  <2>5. i + 1 = i + Len(ItemText(item))
    BY <2>1
  <2>6. Opens \intersect DOMAIN Closes = {}
    BY DEF Opens, Closes
  <2>7. ASSUME IsOpening(item)
        PROVE  CompoundEnd(s)[i][stack] = CompoundEnd(s)[i + 1][<<item.token>> \o stack]
    BY <1>3, <2>1, <2>3, <2>4, <2>7 DEF CompoundStep
  <2>8. ASSUME IsClosing(item), Head(stack) = Closes[item.token]
        PROVE  CompoundEnd(s)[i][stack] = IF Tail(stack) = <<>> THEN i + 1
                                          ELSE CompoundEnd(s)[i + 1][Tail(stack)]
    <3>1. Get(s, i) \notin Opens /\ Get(s, i) \in DOMAIN Closes
      BY <2>1, <2>3, <2>6, <2>8
    <3>. QED
      BY <1>3, <2>4, <2>8, <3>1 DEF CompoundStep
  <2>9. ASSUME ~IsOpening(item), ~IsClosing(item)
        PROVE  CompoundEnd(s)[i][stack] = CompoundEnd(s)[i + 1][stack]
    BY <1>3, <2>1, <2>3, <2>4, <2>9 DEF CompoundStep
  <2>. QED
    BY <2>5, <2>7, <2>8, <2>9 DEF ItemMoves
<1>. QED
  BY <1>4, <1>5

\* The open brackets after an item: those that no later item closes.
OpenedAt(items, o, k) ==
    IsOpening(items[o]) /\ \A m \in o .. k : Depth(items)[m] >= Depth(items)[o]

IsOpen(items, k, stack) ==
    /\ Len(stack) = Depth(items)[k]
    /\ \A l \in 1 .. Len(stack) : \E o \in 1 .. k :
          /\ OpenedAt(items, o, k) /\ items[o].token = stack[l]
          /\ Depth(items)[o] = (Depth(items)[k] + 1) - l

\* A bracket that closes closes the last one that is open.
LEMMA ClosesTheLast ==
    ASSUME NEW items, IsNested(items), NEW k \in 1 .. Len(items) - 1,
           NEW stack \in Stacks, IsOpen(items, k, stack), IsClosing(items[k + 1])
    PROVE  Closes[items[k + 1].token] = Head(stack)
<1>1. PICK n \in Nat : n = Len(items) /\ DOMAIN items = 1 .. n /\ items \in Seq(Range(items))
  BY DEF IsNested
<1>2. /\ \A j \in 0 .. n : Depth(items)[j] \in Int
      /\ \A j \in 1 .. n : Depth(items)[j] = Depth(items)[j - 1] + Change(items[j])
  BY <1>1, DepthIs
<1>3. Len(stack) \in Nat \ {0} /\ Head(stack) = stack[1] /\ Head(stack) \in Opens
  BY StackMoves
<1>4. PICK o \in 1 .. k : /\ OpenedAt(items, o, k) /\ items[o].token = stack[1]
                          /\ Depth(items)[o] = (Depth(items)[k] + 1) - 1
  <2>1. 1 \in 1 .. Len(stack)
    BY <1>3
  <2>. QED
    BY <2>1 DEF IsOpen
<1>5. k + 1 \in 1 .. n /\ (k + 1) - 1 = k /\ k \in 0 .. n
  BY <1>1
<1>6. Depth(items)[o] = Depth(items)[k]
  BY <1>2, <1>4, <1>5
<1>7. ~IsOpening(items[k + 1])
  <2>1. IsItem(items[k + 1])
    BY <1>1, <1>5 DEF IsNested
  <2>2. Opens \intersect DOMAIN Closes = {}
    BY DEF Opens, Closes
  <2>. QED
    BY <2>1, <2>2, ItemIs
<1>8. Depth(items)[k + 1] = Depth(items)[o] - 1
  <2>1. Change(items[k + 1]) = -1
    BY <1>7 DEF Change
  <2>2. Depth(items)[k + 1] = Depth(items)[k] + Change(items[k + 1])
    BY <1>2, <1>5
  <2>3. Depth(items)[k] \in Int
    BY <1>2, <1>5
  <2>. QED
    BY <1>6, <2>1, <2>2, <2>3
<1>9. items[k + 1].token = Bracket[items[o].token]
  <2>1. o \in 1 .. n /\ o < k + 1 /\ \A m \in o .. (k + 1) - 1 : Depth(items)[m] >= Depth(items)[o]
    BY <1>1, <1>4, <1>5 DEF OpenedAt
  <2>2. IsOpening(items[o])
    BY <1>4 DEF OpenedAt
  <2>. QED
    BY <1>1, <1>5, <1>8, <2>1, <2>2 DEF IsNested
<1>10. \A c \in Opens : Closes[Bracket[c]] = c
  BY Opening
<1>11. Closes[Bracket[stack[1]]] = stack[1]
  BY <1>3, <1>10
<1>12. items[k + 1].token = Bracket[stack[1]]
  BY <1>4, <1>9
<1>. QED
  BY <1>3, <1>11, <1>12

\* The brackets that are open after one more item.
LEMMA StaysOpen ==
    ASSUME NEW items, NEW T, items \in Seq(T), NEW k \in 1 .. Len(items) - 1, NEW o \in 1 .. k,
           OpenedAt(items, o, k), Depth(items)[k + 1] >= Depth(items)[o]
    PROVE  o \in 1 .. k + 1 /\ OpenedAt(items, o, k + 1)
<1>1. \A m \in o .. k + 1 : m \in o .. k \/ m = k + 1
  OBVIOUS
<1>2. o \in 1 .. k + 1
  OBVIOUS
<1>. QED
  BY <1>1, <1>2 DEF OpenedAt

LEMMA OpenOn ==
    ASSUME NEW items, IsNested(items), NEW k \in 1 .. Len(items) - 1, Depth(items)[k + 1] > 0,
           NEW stack \in Stacks, IsOpen(items, k, stack)
    PROVE  /\ IsOpening(items[k + 1]) => IsOpen(items, k + 1, <<items[k + 1].token>> \o stack)
           /\ IsClosing(items[k + 1]) => Tail(stack) # <<>> /\ IsOpen(items, k + 1, Tail(stack))
           /\ ~IsOpening(items[k + 1]) /\ ~IsClosing(items[k + 1]) => IsOpen(items, k + 1, stack)
<1>1. PICK n \in Nat : n = Len(items) /\ DOMAIN items = 1 .. n /\ items \in Seq(Range(items))
  BY DEF IsNested
<1>2. /\ \A j \in 0 .. n : Depth(items)[j] \in Int
      /\ \A j \in 1 .. n : Depth(items)[j] = Depth(items)[j - 1] + Change(items[j])
  BY <1>1, DepthIs
<1>3. PICK d \in Int, e \in Int : d = Depth(items)[k] /\ e = Depth(items)[k + 1]
                                 /\ e = d + Change(items[k + 1]) /\ e > 0
  <2>1. k \in 0 .. n /\ k + 1 \in 0 .. n /\ k + 1 \in 1 .. n /\ (k + 1) - 1 = k
    BY <1>1
  <2>2. Depth(items)[k + 1] = Depth(items)[k] + Change(items[k + 1])
    BY <1>2, <2>1
  <2>. QED
    BY <1>2, <2>1, <2>2
<1>4. PICK L \in Nat \ {0} : L = Len(stack) /\ L = d
  BY <1>3, StackMoves DEF IsOpen
<1>5. ASSUME NEW l \in 1 .. L
      PROVE  \E o \in 1 .. k : /\ OpenedAt(items, o, k) /\ items[o].token = stack[l]
                               /\ Depth(items)[o] = (d + 1) - l
  BY <1>3, <1>4 DEF IsOpen
<1>6. ASSUME NEW l \in 1 .. L, (d + 1) - l <= e
      PROVE  \E o \in 1 .. k + 1 : /\ OpenedAt(items, o, k + 1) /\ items[o].token = stack[l]
                                   /\ Depth(items)[o] = (d + 1) - l
  <2>1. PICK o \in 1 .. k : /\ OpenedAt(items, o, k) /\ items[o].token = stack[l]
                            /\ Depth(items)[o] = (d + 1) - l
    BY <1>5
  <2>2. Depth(items)[k + 1] >= Depth(items)[o]
    BY <1>3, <1>6, <2>1
  <2>3. o \in 1 .. k + 1 /\ OpenedAt(items, o, k + 1)
    BY <1>1, <2>1, <2>2, StaysOpen
  <2>. QED
    BY <2>1, <2>3
<1>7. IsItem(items[k + 1])
  <2>1. k + 1 \in 1 .. n
    BY <1>1
  <2>. QED
    BY <1>1, <2>1 DEF IsNested
<1>8. ASSUME IsOpening(items[k + 1])
      PROVE  IsOpen(items, k + 1, <<items[k + 1].token>> \o stack)
  <2>1. PICK c \in Opens : c = items[k + 1].token
    BY <1>7, <1>8, ItemIs
  <2>2. PICK more : more = <<c>> \o stack
    OBVIOUS
  <2>3. Len(more) = L + 1 /\ more[1] = c /\ \A l \in 1 .. L : more[l + 1] = stack[l]
    <3>1. /\ Len(<<c>> \o stack) = Len(stack) + 1 /\ (<<c>> \o stack)[1] = c
          /\ \A l \in 1 .. Len(stack) : (<<c>> \o stack)[l + 1] = stack[l]
      BY StackMoves
    <3>. QED
      BY <1>4, <2>2, <3>1
  <2>4. e = d + 1
    BY <1>3, <1>8 DEF Change
  <2>5. ASSUME NEW l \in 1 .. L + 1
        PROVE  \E o \in 1 .. k + 1 : /\ OpenedAt(items, o, k + 1) /\ items[o].token = more[l]
                                     /\ Depth(items)[o] = (e + 1) - l
    <3>1. CASE l = 1
      <4>1. k + 1 \in 1 .. k + 1 /\ \A m \in k + 1 .. k + 1 : m = k + 1
        OBVIOUS
      <4>2. OpenedAt(items, k + 1, k + 1)
        <5>1. Depth(items)[k + 1] >= Depth(items)[k + 1]
          BY <1>3
        <5>. QED
          BY <1>8, <4>1, <5>1 DEF OpenedAt
      <4>3. Depth(items)[k + 1] = (e + 1) - l
        BY <1>3, <3>1
      <4>. QED
        BY <2>1, <2>3, <3>1, <4>1, <4>2, <4>3
    <3>2. CASE l # 1
      <4>1. l - 1 \in 1 .. L /\ (l - 1) + 1 = l /\ (d + 1) - (l - 1) <= e /\ (d + 1) - (l - 1) = (e + 1) - l
        BY <1>4, <2>4, <3>2
      <4>2. more[l] = stack[l - 1]
        BY <2>3, <4>1
      <4>3. \E o \in 1 .. k + 1 : /\ OpenedAt(items, o, k + 1) /\ items[o].token = stack[l - 1]
                                  /\ Depth(items)[o] = (d + 1) - (l - 1)
        BY <1>6, <4>1
      <4>. QED
        BY <4>1, <4>2, <4>3
    <3>. QED
      BY <3>1, <3>2
  <2>6. Len(more) = e /\ e = L + 1
    BY <1>4, <2>3, <2>4
  <2>7. IsOpen(items, k + 1, more)
    <3>1. Depth(items)[k + 1] = e
      BY <1>3
    <3>2. \A l \in 1 .. Len(more) : \E o \in 1 .. k + 1 :
              /\ OpenedAt(items, o, k + 1) /\ items[o].token = more[l]
              /\ Depth(items)[o] = (e + 1) - l
      BY <2>5, <2>6
    <3>. QED
      BY <2>6, <3>1, <3>2 DEF IsOpen
  <2>. QED
    BY <2>1, <2>2, <2>7
<1>9. ASSUME IsClosing(items[k + 1]), ~IsOpening(items[k + 1])
      PROVE  Tail(stack) # <<>> /\ IsOpen(items, k + 1, Tail(stack))
  <2>1. e = d - 1
    BY <1>3, <1>9 DEF Change
  <2>2. PICK less : less = Tail(stack)
    OBVIOUS
  <2>3. Len(less) = L - 1 /\ \A l \in 1 .. L - 1 : less[l] = stack[l + 1]
    <3>1. /\ Len(Tail(stack)) = Len(stack) - 1
          /\ \A l \in 1 .. Len(stack) - 1 : Tail(stack)[l] = stack[l + 1]
      BY StackMoves
    <3>. QED
      BY <1>4, <2>2, <3>1
  <2>4. less # <<>>
    <3>1. L - 1 # 0
      BY <1>3, <1>4, <2>1
    <3>. QED
      BY <2>3, <3>1
  <2>5. ASSUME NEW l \in 1 .. L - 1
        PROVE  \E o \in 1 .. k + 1 : /\ OpenedAt(items, o, k + 1) /\ items[o].token = less[l]
                                     /\ Depth(items)[o] = (e + 1) - l
    <3>1. l + 1 \in 1 .. L /\ (d + 1) - (l + 1) <= e /\ (d + 1) - (l + 1) = (e + 1) - l
      BY <1>4, <2>1
    <3>2. less[l] = stack[l + 1]
      BY <2>3
    <3>3. \E o \in 1 .. k + 1 : /\ OpenedAt(items, o, k + 1) /\ items[o].token = stack[l + 1]
                                /\ Depth(items)[o] = (d + 1) - (l + 1)
      BY <1>6, <3>1
    <3>. QED
      BY <3>1, <3>2, <3>3
  <2>6. Len(less) = e /\ e = L - 1
    BY <1>4, <2>1, <2>3
  <2>7. IsOpen(items, k + 1, less)
    <3>1. Depth(items)[k + 1] = e
      BY <1>3
    <3>2. \A l \in 1 .. Len(less) : \E o \in 1 .. k + 1 :
              /\ OpenedAt(items, o, k + 1) /\ items[o].token = less[l]
              /\ Depth(items)[o] = (e + 1) - l
      BY <2>5, <2>6
    <3>. QED
      BY <2>6, <3>1, <3>2 DEF IsOpen
  <2>. QED
    BY <2>2, <2>4, <2>7
<1>10. ASSUME ~IsOpening(items[k + 1]), ~IsClosing(items[k + 1])
       PROVE  IsOpen(items, k + 1, stack)
  <2>1. e = d
    BY <1>3, <1>10 DEF Change
  <2>2. ASSUME NEW l \in 1 .. L
        PROVE  \E o \in 1 .. k + 1 : /\ OpenedAt(items, o, k + 1) /\ items[o].token = stack[l]
                                     /\ Depth(items)[o] = (e + 1) - l
    <3>1. (d + 1) - l <= e
      BY <1>4, <2>1
    <3>. QED
      BY <1>6, <2>1, <3>1
  <2>. QED
    BY <1>3, <1>4, <2>1, <2>2 DEF IsOpen
<1>11. IsClosing(items[k + 1]) => ~IsOpening(items[k + 1])
  <2>1. Opens \intersect DOMAIN Closes = {}
    BY DEF Opens, Closes
  <2>. QED
    BY <1>7, <2>1, ItemIs
<1>. QED
  BY <1>8, <1>9, <1>10, <1>11

ItemTexts(items) == [k \in DOMAIN items |-> ItemText(items[k])]

LEMMA NestedText ==
    ASSUME NEW items, IsNested(items)
    PROVE  /\ ItemTexts(items) \in Seq(Seq(Token)) /\ Len(ItemTexts(items)) = Len(items)
           /\ FlattenSeq(ItemTexts(items)) \in Seq(Token)
           /\ \A k \in 1 .. Len(items) : ItemTexts(items)[k] = ItemText(items[k])
<1>1. PICK n \in Nat : n = Len(items) /\ DOMAIN items = 1 .. n
  BY DEF IsNested
<1>2. PICK S : S = Seq(Token)
  OBVIOUS
<1>3. ASSUME NEW k \in 1 .. n PROVE ItemText(items[k]) \in S
  <2>1. IsItem(items[k])
    BY <1>1 DEF IsNested
  <2>. QED
    BY <1>2, <2>1, ItemIs
<1>4. ItemTexts(items) = [k \in 1 .. n |-> ItemText(items[k])]
  BY <1>1 DEF ItemTexts
<1>5. ItemTexts(items) \in Seq(S) /\ Len(ItemTexts(items)) = n
  BY <1>3, <1>4
<1>6. FlattenSeq(ItemTexts(items)) \in Seq(Token)
  BY <1>2, <1>5, FlattenedType
<1>. QED
  BY <1>1, <1>2, <1>4, <1>5, <1>6

\* The end of an object or an array is after it.
LEMMA NestedIsScanned ==
    ASSUME NEW s \in Seq(Token), NEW i \in Nat, NEW items, IsNested(items),
           HasAt(s, i, FlattenSeq(ItemTexts(items)))
    PROVE  /\ i \in 1 .. Len(s) /\ Get(s, i) \in Opens
           /\ json_compound_end(s, i) = i + Len(FlattenSeq(ItemTexts(items)))
<1>1. PICK n \in Nat : n = Len(items) /\ DOMAIN items = 1 .. n /\ items \in Seq(Range(items))
  BY DEF IsNested
<1>2. /\ \A j \in 0 .. n : Depth(items)[j] \in Int
      /\ Depth(items)[0] = 0
      /\ \A j \in 1 .. n : Depth(items)[j] = Depth(items)[j - 1] + Change(items[j])
  BY <1>1, DepthIs
<1>3. /\ \A k \in 1 .. n : IsItem(items[k])
      /\ n # 0 /\ IsOpening(items[1])
      /\ Depth(items)[n] = 0 /\ \A k \in 1 .. n - 1 : Depth(items)[k] > 0
  BY <1>1 DEF IsNested
<1>4. PICK p : Laid(s, i, ItemTexts(items), p)
  BY NestedText, LaidOut
<1>5. /\ p \in [0 .. n -> Nat] /\ p[0] = i /\ p[n] = i + Len(FlattenSeq(ItemTexts(items)))
      /\ \A k \in 1 .. n : HasAt(s, p[k - 1], ItemText(items[k]))
                           /\ p[k] = p[k - 1] + Len(ItemText(items[k]))
  <2>1. Len(ItemTexts(items)) = n /\ \A k \in 1 .. n : ItemTexts(items)[k] = ItemText(items[k])
    BY <1>1, NestedText
  <2>. QED
    BY <1>4, <2>1 DEF Laid
<1>6. PICK c \in Opens : c = items[1].token /\ ItemText(items[1]) = <<c>> /\ Len(ItemText(items[1])) = 1
                         /\ c \in Token
  <2>1. 1 \in 1 .. n
    BY <1>3
  <2>. QED
    BY <1>3, <2>1, ItemIs
<1>7. i \in 1 .. Len(s) /\ Get(s, i) = c /\ s[i] = c
  <2>1. 1 \in 1 .. n /\ 1 - 1 = 0
    BY <1>3
  <2>2. HasAt(s, i, <<c>>)
    BY <1>5, <1>6, <2>1
  <2>3. i \in 1 .. Len(s) /\ Get(s, i) = c
    BY <1>6, <2>2, HasFirst
  <2>4. c # "end"
    BY <1>6, Opening
  <2>. QED
    BY <2>3, <2>4 DEF Get
<1>8. p[1] = i + 1 /\ Depth(items)[1] = 1
  <2>1. 1 \in 1 .. n /\ 1 - 1 = 0
    BY <1>3
  <2>2. p[1] = i + 1
    BY <1>5, <1>6, <2>1
  <2>3. Change(items[1]) = 1
    BY <1>3 DEF Change
  <2>. QED
    BY <1>2, <2>1, <2>2, <2>3
<1>9. n - 1 \in Nat /\ n - 1 >= 1
  <2>1. n # 1
    BY <1>3, <1>8
  <2>. QED
    BY <1>3, <2>1
<1>10. PICK first : first = <<c>>
  OBVIOUS
<1>11. first \in Stacks /\ IsOpen(items, 1, first)
  <2>0. first \in Seq(Opens) /\ first # <<>> /\ Len(first) = 1 /\ first[1] = c
    <3>. DEFINE O == Opens
    <3>1. c \in O
      OBVIOUS
    <3>. HIDE DEF O
    <3>2. first \in Seq(O) /\ first # <<>> /\ Len(first) = 1 /\ first[1] = c
      BY <1>10, <3>1
    <3>. QED
      BY <3>2 DEF O
  <2>1. first \in Stacks
    BY <2>0 DEF Stacks
  <2>2. OpenedAt(items, 1, 1)
    <3>1. \A m \in 1 .. 1 : m = 1
      OBVIOUS
    <3>. QED
      BY <1>3, <1>8, <3>1 DEF OpenedAt
  <2>3. ASSUME NEW l \in 1 .. 1
        PROVE  \E o \in 1 .. 1 : /\ OpenedAt(items, o, 1) /\ items[o].token = first[l]
                                 /\ Depth(items)[o] = (Depth(items)[1] + 1) - l
    <3>1. l = 1 /\ 1 \in 1 .. 1 /\ (1 + 1) - 1 = 1
      OBVIOUS
    <3>2. Depth(items)[1] = (Depth(items)[1] + 1) - l
      BY <1>8, <3>1
    <3>. QED
      BY <1>6, <2>0, <2>2, <3>1, <3>2
  <2>4. IsOpen(items, 1, first)
    BY <1>8, <2>0, <2>3 DEF IsOpen
  <2>. QED
    BY <2>1, <2>4
<1>12. PICK P : P = {k \in 0 .. n - 2 : \E stack \in Stacks :
                       /\ IsOpen(items, k + 1, stack)
                       /\ CompoundEnd(s)[i + 1][first] = CompoundEnd(s)[p[k + 1]][stack]}
  OBVIOUS
<1>13. 0 \in P
  <2>1. 0 + 1 = 1 /\ 0 \in 0 .. n - 2
    BY <1>9
  <2>. QED
    BY <1>8, <1>11, <1>12, <2>1
<1>14. ASSUME NEW k \in 0 .. (n - 2) - 1, k \in P PROVE k + 1 \in P
  <2>1. PICK stack \in Stacks : /\ IsOpen(items, k + 1, stack)
                                /\ CompoundEnd(s)[i + 1][first] = CompoundEnd(s)[p[k + 1]][stack]
    BY <1>12, <1>14
  <2>2. PICK j \in 1 .. Len(items) - 1 : j = k + 1 /\ j + 1 = k + 2 /\ j + 1 \in 1 .. n - 1
                                         /\ j + 1 \in 1 .. n /\ (j + 1) - 1 = j
    <3>1. k + 1 \in 1 .. n - 1 /\ k + 1 + 1 = k + 2 /\ k + 1 + 1 \in 1 .. n - 1
          /\ k + 1 + 1 \in 1 .. n /\ (k + 1 + 1) - 1 = k + 1
      OBVIOUS
    <3>. QED
      BY <1>1, <3>1
  <2>3. PICK item : item = items[j + 1] /\ IsItem(item) /\ Depth(items)[j + 1] > 0
    BY <1>3, <2>2
  <2>4. PICK q \in Nat : q = p[j] /\ HasAt(s, q, ItemText(item)) /\ p[j + 1] = q + Len(ItemText(item))
    <3>1. j \in 0 .. n
      BY <2>2
    <3>. QED
      BY <1>5, <2>2, <2>3, <3>1
  <2>5. /\ IsOpening(item) => IsOpen(items, j + 1, <<item.token>> \o stack)
        /\ IsClosing(item) => Tail(stack) # <<>> /\ IsOpen(items, j + 1, Tail(stack))
        /\ ~IsOpening(item) /\ ~IsClosing(item) => IsOpen(items, j + 1, stack)
    BY <2>1, <2>2, <2>3, OpenOn
  <2>6. IsClosing(item) => Head(stack) = Closes[item.token]
    BY <2>1, <2>2, <2>3, ClosesTheLast
  <2>7. /\ IsOpening(item) => CompoundEnd(s)[q][stack] = CompoundEnd(s)[p[j + 1]][<<item.token>> \o stack]
        /\ IsClosing(item) => CompoundEnd(s)[q][stack] = CompoundEnd(s)[p[j + 1]][Tail(stack)]
        /\ ~IsOpening(item) /\ ~IsClosing(item) =>
              CompoundEnd(s)[q][stack] = CompoundEnd(s)[p[j + 1]][stack]
    <3>1. PICK r : r = q + Len(ItemText(item)) /\ r = p[j + 1]
      BY <2>4
    <3>2. /\ IsOpening(item) =>
                CompoundEnd(s)[q][stack] = CompoundEnd(s)[r][<<item.token>> \o stack]
          /\ IsClosing(item) /\ Head(stack) = Closes[item.token] =>
                CompoundEnd(s)[q][stack] =
                   IF Tail(stack) = <<>> THEN r ELSE CompoundEnd(s)[r][Tail(stack)]
          /\ ~IsOpening(item) /\ ~IsClosing(item) =>
                CompoundEnd(s)[q][stack] = CompoundEnd(s)[r][stack]
      <4>1. HasAt(s, q, ItemText(item)) /\ IsItem(item)
        BY <2>3, <2>4
      <4>2. ItemMoves(s, q, item, stack)
        BY <4>1, ItemIsScanned
      <4>. QED
        BY <3>1, <4>2 DEF ItemMoves
    <3>. QED
      BY <2>5, <2>6, <3>1, <3>2
  <2>8. IsOpening(item) => <<item.token>> \o stack \in Stacks
    <3>1. IsOpening(item) => item.token \in Opens
      BY <2>3, ItemIs
    <3>. QED
      BY <3>1, StackMoves
  <2>9. IsClosing(item) => Tail(stack) \in Stacks
    BY <2>5, StackMoves
  <2>10. \E more \in Stacks : /\ IsOpen(items, j + 1, more)
                              /\ CompoundEnd(s)[q][stack] = CompoundEnd(s)[p[j + 1]][more]
    BY <2>5, <2>7, <2>8, <2>9
  <2>11. k + 1 \in 0 .. n - 2 /\ (k + 1) + 1 = j + 1
    BY <2>2
  <2>. QED
    BY <1>12, <2>1, <2>2, <2>4, <2>10, <2>11
<1>15. \A k \in 0 .. n - 2 : k \in P
  <2>1. n - 2 \in Nat
    BY <1>9
  <2>. QED
    BY <1>13, <1>14, <2>1, Induct, Zenon
<1>16. PICK k \in 1 .. Len(items) - 1, stack \in Stacks :
             /\ k = n - 1 /\ k + 1 = n /\ IsOpen(items, k, stack)
             /\ CompoundEnd(s)[i + 1][first] = CompoundEnd(s)[p[k]][stack]
  <2>1. n - 2 \in 0 .. n - 2 /\ (n - 2) + 1 = n - 1 /\ n - 1 \in 1 .. n - 1 /\ (n - 1) + 1 = n
    BY <1>9
  <2>. QED
    BY <1>1, <1>12, <1>15, <2>1
<1>17. PICK item : item = items[n] /\ IsItem(item)
  <2>1. n \in 1 .. n
    BY <1>3
  <2>. QED
    BY <1>3, <2>1
<1>18. IsClosing(item) /\ Depth(items)[k] = 1
  <2>1. k \in 0 .. n /\ n \in 1 .. n /\ n - 1 = k /\ k \in 1 .. n - 1
    BY <1>1, <1>16
  <2>2. 0 = Depth(items)[k] + Change(item) /\ Depth(items)[k] > 0 /\ Depth(items)[k] \in Int
    BY <1>2, <1>3, <1>17, <2>1
  <2>3. Change(item) \in {-1, 0, 1} /\ (Change(item) = -1 => IsClosing(item))
    BY DEF Change
  <2>. QED
    BY <2>2, <2>3
<1>19. Head(stack) = Closes[item.token]
  BY <1>16, <1>17, <1>18, ClosesTheLast
<1>20. Tail(stack) = <<>>
  <2>1. Len(stack) = 1
    BY <1>16, <1>18 DEF IsOpen
  <2>2. Len(Tail(stack)) = 0
    BY <2>1, StackMoves
  <2>3. Tail(stack) # <<>> => Len(Tail(stack)) # 0
    <3>1. Tail(stack) # <<>> => Tail(stack) \in Stacks
      BY StackMoves
    <3>. QED
      BY <3>1, StackMoves
  <2>. QED
    BY <2>2, <2>3
<1>21. CompoundEnd(s)[p[k]][stack] = p[n]
  <2>1. k \in 0 .. n /\ n \in 1 .. n /\ n - 1 = k
    BY <1>1, <1>16
  <2>2. PICK q \in Nat : q = p[k] /\ HasAt(s, q, ItemText(item)) /\ p[n] = q + Len(ItemText(item))
    BY <1>5, <1>17, <2>1
  <2>. QED
    <3>1. CompoundEnd(s)[q][stack] = q + Len(ItemText(item))
      <4>1. HasAt(s, q, ItemText(item)) /\ IsItem(item)
        BY <1>17, <2>2
      <4>2. ItemMoves(s, q, item, stack)
        BY <4>1, ItemIsScanned
      <4>. QED
        BY <1>18, <1>19, <1>20, <4>2 DEF ItemMoves
    <3>. QED
      BY <2>2, <3>1
<1>22. json_compound_end(s, i) = CompoundEnd(s)[i + 1][first]
  BY <1>7, <1>10 DEF json_compound_end
<1>. QED
  BY <1>5, <1>7, <1>16, <1>21, <1>22

-----------------------------------------------------------------------------
(* Values and fields *)

LEMMA Scalars == /\ {"1", "-", "+", ".", "true"} \subseteq ScalarBytes
                 /\ {"1", "-", "+", ".", "true"} \subseteq Token
                 /\ Opens = {"{", "["} /\ "end" \notin ScalarBytes
                 /\ {"1", "-", "true"} \intersect ({"\""} \union Opens) = {}
BY DEF ScalarBytes, Token, Opens

LEMMA BareIs ==
    ASSUME NEW tokens, tokens = <<"true">> \/ IsNumber(tokens)
    PROVE  /\ tokens \in Seq(ScalarBytes) /\ tokens \in Seq(Token) /\ Len(tokens) \in Nat \ {0}
           /\ tokens[1] \in {"1", "-", "true"}
           /\ tokens[1] = "true" => Len(tokens) = 1
<1>1. CASE tokens = <<"true">>
  <2>1. PICK c : c = "true" /\ c \in ScalarBytes /\ c \in Token
    BY Scalars
  <2>2. tokens = <<c>>
    BY <1>1, <2>1
  <2>. HIDE DEF Token, ScalarBytes
  <2>3. tokens \in Seq(ScalarBytes) /\ tokens \in Seq(Token) /\ Len(tokens) = 1 /\ tokens[1] = c
    BY <2>1, <2>2
  <2>. QED
    BY <2>1, <2>3
<1>2. CASE IsNumber(tokens)
  <2>1. PICK N : N = {"1", "-", "+", "."}
    OBVIOUS
  <2>2. tokens \in Seq(N) /\ tokens # <<>> /\ tokens[1] \in {"1", "-"}
    BY <1>2, <2>1 DEF IsNumber
  <2>3. N \subseteq ScalarBytes /\ N \subseteq Token
    BY <2>1, Scalars
  <2>4. tokens \in Seq(ScalarBytes) /\ tokens \in Seq(Token)
    BY <2>2, <2>3
  <2>5. Len(tokens) \in Nat \ {0}
    BY <2>2
  <2>. QED
    BY <2>2, <2>4, <2>5
<1>. QED
  BY <1>1, <1>2

LEMMA ValueIs ==
    ASSUME NEW value, IsValue(value)
    PROVE  /\ ValueText(value) \in Seq(Token) /\ Len(ValueText(value)) \in Nat
           /\ value.is = "string" => IsString(value.pieces) /\ ValueText(value) = StringText(value.pieces)
           /\ value.is = "nested" =>
                 IsNested(value.items) /\ ValueText(value) = FlattenSeq(ItemTexts(value.items))
           /\ value.is \notin {"string", "nested"} =>
                 /\ ValueText(value) = value.tokens
                 /\ value.tokens = <<"true">> \/ IsNumber(value.tokens)
<1>1. CASE value.is = "string"
  <2>1. IsString(value.pieces) /\ ValueText(value) = StringText(value.pieces)
    BY <1>1 DEF IsValue, ValueText
  <2>2. StringText(value.pieces) \in Seq(Token)
    BY <2>1, StringTextType
  <2>. QED
    BY <1>1, <2>1, <2>2
<1>2. CASE value.is = "nested"
  <2>1. IsNested(value.items) /\ ValueText(value) = FlattenSeq(ItemTexts(value.items))
    BY <1>2 DEF IsValue, ValueText, ItemTexts
  <2>2. FlattenSeq(ItemTexts(value.items)) \in Seq(Token)
    BY <2>1, NestedText
  <2>. QED
    BY <1>2, <2>1, <2>2
<1>3. CASE value.is \notin {"string", "nested"}
  <2>1. value.is = "bare" /\ (value.tokens = <<"true">> \/ IsNumber(value.tokens))
    BY <1>3 DEF IsValue
  <2>2. ValueText(value) = value.tokens
    BY <2>1 DEF ValueText
  <2>3. value.tokens \in Seq(Token)
    BY <2>1, BareIs
  <2>. QED
    BY <1>3, <2>1, <2>2, <2>3
<1>. QED
  BY <1>1, <1>2, <1>3

\* The end of a value is after it.
LEMMA ValueIsScanned ==
    ASSUME NEW s \in Seq(Token), NEW i \in Nat, NEW value, IsValue(value),
           HasAt(s, i, ValueText(value)), Get(s, i + Len(ValueText(value))) \notin ScalarBytes
    PROVE  /\ json_value_end(s, i) = i + Len(ValueText(value)) /\ i \in 1 .. Len(s)
           /\ value.is = "string" => Get(s, i) = "\""
           /\ value.is = "nested" => Get(s, i) \in Opens
           /\ value.is \notin {"string", "nested"} => Get(s, i) \in {"1", "-", "true"}
<1>1. CASE value.is = "string"
  <2>1. IsString(value.pieces) /\ HasAt(s, i, StringText(value.pieces))
        /\ ValueText(value) = StringText(value.pieces)
    BY <1>1, ValueIs
  <2>2. PICK p : LaidString(s, i, value.pieces, p)
    BY <2>1, StringLaid
  <2>3. i \in 1 .. Len(s) /\ Get(s, i) = "\""
    BY <2>2 DEF LaidString
  <2>4. json_string_end(s, i) = i + Len(ValueText(value))
    BY <2>1, StringIsScanned
  <2>5. json_value_end(s, i) = i + Len(ValueText(value))
    BY <2>3, <2>4 DEF json_value_end
  <2>. QED
    BY <1>1, <2>3, <2>5
<1>2. CASE value.is = "nested"
  <2>1. IsNested(value.items) /\ HasAt(s, i, FlattenSeq(ItemTexts(value.items)))
        /\ ValueText(value) = FlattenSeq(ItemTexts(value.items))
    BY <1>2, ValueIs
  <2>2. /\ i \in 1 .. Len(s) /\ Get(s, i) \in Opens
        /\ json_compound_end(s, i) = i + Len(ValueText(value))
    BY <2>1, NestedIsScanned
  <2>3. json_value_end(s, i) = i + Len(ValueText(value))
    BY <2>2, Scalars DEF json_value_end
  <2>. QED
    BY <1>2, <2>2, <2>3
<1>3. CASE value.is \notin {"string", "nested"}
  <2>1. PICK tokens : /\ tokens = value.tokens /\ ValueText(value) = tokens
                      /\ tokens = <<"true">> \/ IsNumber(tokens)
    BY <1>3, ValueIs
  <2>2. /\ tokens \in Seq(ScalarBytes) /\ tokens \in Seq(Token) /\ Len(tokens) \in Nat \ {0}
        /\ tokens[1] \in {"1", "-", "true"}
        /\ tokens[1] = "true" => Len(tokens) = 1
    BY <2>1, BareIs
  <2>3. HasAt(s, i, tokens)
    BY <2>1
  <2>4. Len(tokens) >= 1
    BY <2>2
  <2>5. Get(s, i) = tokens[1]
    BY <2>2, <2>3, <2>4, HasTokens
  <2>6. i \in 1 .. Len(s)
    BY <2>2, <2>3 DEF HasAt
  <2>7. ASSUME tokens[1] = "true" PROVE json_value_end(s, i) = i + Len(tokens)
    <3>1. json_value_end(s, i) = i + 1
      BY <2>5, <2>7 DEF json_value_end
    <3>. QED
      BY <2>2, <2>7, <3>1
  <2>8. ASSUME tokens[1] \in {"1", "-"} PROVE json_value_end(s, i) = i + Len(tokens)
    <3>1. json_value_end(s, i) = SkipAll(s, i, ScalarBytes)
      BY <2>5, <2>8 DEF json_value_end, json_scalar_end
    <3>2. Get(s, i + Len(tokens)) \notin ScalarBytes
      BY <2>1
    <3>3. SkipAll(s, i, ScalarBytes) = i + Len(tokens)
      BY <2>2, <2>3, <3>2, SkippedText, NoSpaces
    <3>. QED
      BY <3>1, <3>3
  <2>9. tokens[1] = "true" \/ tokens[1] \in {"1", "-"}
    BY <2>2
  <2>10. json_value_end(s, i) = i + Len(tokens)
    BY <2>7, <2>8, <2>9
  <2>. QED
    BY <1>3, <2>1, <2>2, <2>5, <2>6, <2>10
<1>. QED
  BY <1>1, <1>2, <1>3

LEMMA StringEndInText ==
    ASSUME NEW S, NEW s \in Seq(S), NEW i \in Nat
    PROVE  /\ json_string_end(s, i) \in EndRange(s, i)
           /\ json_string_end(s, i) # 0 => Get(s, i) = "\""
<1>1. PICK L \in Nat : L = Len(s) /\ DOMAIN s = 1 .. L
  OBVIOUS
<1>2. CASE Get(s, i) # "\""
  BY <1>2 DEF json_string_end, EndRange
<1>3. CASE Get(s, i) = "\""
  <2>0. i \in 1 .. L
    BY <1>1, <1>3 DEF Get
  <2>1. i + 1 \in 1 .. L + 1
    BY <2>0
  <2>2. StringEnd(s)[i + 1] \in StringEndRange(s, i + 1)
    BY <1>1, <2>1, StringEndType
  <2>3. StringEnd(s)[i + 1] \in {0} \union ((i + 1) + 1 .. L + 1)
    BY <1>1, <2>2 DEF StringEndRange
  <2>4. StringEnd(s)[i + 1] \in {0} \union (i + 1 .. L + 1)
    BY <2>3
  <2>. QED
    BY <1>1, <1>3, <2>4 DEF json_string_end, EndRange
<1>. QED
  BY <1>2, <1>3

\* A space or more leads from i to a later place.
LEMMA SkippedRange ==
    ASSUME NEW S, NEW s \in Seq(S), NEW i \in Nat \ {0}, i <= Len(s) + 1,
           NEW tokens, "end" \notin tokens
    PROVE  SkipAll(s, i, tokens) \in i .. Len(s) + 1
<1>1. PICK L \in Nat : L = Len(s) /\ DOMAIN s = 1 .. L
  OBVIOUS
<1>2. PICK j : j = SkipAll(s, i, tokens)
  OBVIOUS
<1>3. j \in i .. i + L /\ \A k \in i .. j - 1 : Get(s, k) \in tokens
  BY <1>1, <1>2, Skipped
<1>4. CASE j = i
  BY <1>1, <1>2, <1>4
<1>5. CASE j # i
  <2>1. j - 1 \in i .. j - 1
    BY <1>3, <1>5
  <2>2. Get(s, j - 1) # "end"
    BY <1>3, <2>1
  <2>3. j - 1 \in 1 .. L
    BY <1>1, <2>2 DEF Get
  <2>4. j \in i .. L + 1
    BY <1>3, <2>3
  <2>. QED
    BY <1>1, <1>2, <2>4
<1>. QED
  BY <1>4, <1>5

LEMMA OneOpen == \A c \in Opens : <<c>> \in Stacks
<1>. DEFINE O == Opens
<1>. HIDE DEF O
<1>1. \A c \in O : <<c>> \in Seq(O) \ {<<>>}
  OBVIOUS
<1>. QED
  BY <1>1 DEF O, Stacks

LEMMA ValueEndType ==
    ASSUME NEW s \in Seq(Token), NEW i \in Nat
    PROVE  /\ json_value_end(s, i) \in EndRange(s, i)
           /\ json_value_end(s, i) # 0 => i \in 1 .. Len(s) /\ Get(s, i) # "end"
<1>1. PICK L \in Nat : L = Len(s) /\ DOMAIN s = 1 .. L
  OBVIOUS
<1>2. CASE Get(s, i) \notin {"\"", "{", "[", "1", "-", "true"}
  BY <1>2 DEF json_value_end, EndRange
<1>3. CASE Get(s, i) \in {"\"", "{", "[", "1", "-", "true"}
  <2>1. Get(s, i) # "end"
    BY <1>3
  <2>2. i \in 1 .. L /\ s[i] = Get(s, i)
    BY <1>1, <2>1 DEF Get
  <2>3. i + 1 \in 1 .. L + 1 /\ i \in Nat \ {0} /\ i <= L + 1 /\ i + 1 \in i + 1 .. L + 1
    BY <2>2
  <2>4. CASE Get(s, i) = "\""
    <3>1. json_value_end(s, i) = json_string_end(s, i)
      BY <2>4 DEF json_value_end
    <3>. QED
      BY <1>1, <2>1, <2>2, <3>1, StringEndInText
  <2>5. CASE Get(s, i) \in {"{", "["}
    <3>1. json_value_end(s, i) = CompoundEnd(s)[i + 1][<<s[i]>>]
      BY <2>5 DEF json_value_end, json_compound_end
    <3>2. <<s[i]>> \in Stacks
      BY <2>2, <2>5, OneOpen, Scalars
    <3>3. CompoundEnd(s)[i + 1][<<s[i]>>] \in EndRange(s, i + 1)
      BY <1>1, <2>3, <3>2, CompoundEndType
    <3>4. json_value_end(s, i) \in {0} \union ((i + 1) + 1 .. L + 1)
      BY <1>1, <3>1, <3>3 DEF EndRange
    <3>5. json_value_end(s, i) \in {0} \union (i + 1 .. L + 1)
      BY <3>4
    <3>. QED
      BY <1>1, <2>1, <2>2, <3>5 DEF EndRange
  <2>6. CASE Get(s, i) \in {"1", "-"}
    <3>1. json_value_end(s, i) = SkipAll(s, i, ScalarBytes)
      BY <2>6 DEF json_value_end, json_scalar_end
    <3>2. PICK j : j = SkipAll(s, i, ScalarBytes)
      OBVIOUS
    <3>3. j \in i .. L + 1
      BY <1>1, <2>3, <3>2, NoSpaces, SkippedRange
    <3>4. Get(s, j) \notin ScalarBytes
      BY <2>3, <3>2, NoSpaces, Skipped
    <3>5. j # i
      BY <2>6, <3>4, Scalars
    <3>6. j \in i + 1 .. L + 1
      BY <3>3, <3>5
    <3>. QED
      BY <1>1, <2>1, <2>2, <3>1, <3>2, <3>6 DEF EndRange
  <2>7. CASE Get(s, i) = "true"
    <3>1. json_value_end(s, i) = i + 1
      BY <2>7 DEF json_value_end
    <3>. QED
      BY <1>1, <2>1, <2>2, <2>3, <3>1 DEF EndRange
  <2>. QED
    BY <1>3, <2>4, <2>5, <2>6, <2>7
<1>. QED
  BY <1>2, <1>3

\* The end of a value in a text that is cut off, unless the cut may have shortened it.
LEMMA ValueEndInCut ==
    ASSUME NEW s \in Seq(Token), NEW t \in Seq(Token), IsCut(t, s), NEW i \in Nat,
           json_value_end(t, i) # 0,
           Get(t, json_value_end(t, i)) # "end" \/ Get(t, i) \in Opens
    PROVE  json_value_end(s, i) = json_value_end(t, i)
<1>1. PICK L \in Nat : L = Len(t) /\ DOMAIN t = 1 .. L
  OBVIOUS
<1>2. i \in 1 .. L /\ Get(t, i) # "end"
  BY <1>1, ValueEndType
<1>3. Get(s, i) = Get(t, i) /\ t[i] = Get(t, i) /\ s[i] = t[i]
  <2>1. Get(s, i) = Get(t, i)
    BY <1>2 DEF IsCut
  <2>. QED
    BY <1>2, <2>1 DEF Get
<1>4. CASE Get(t, i) = "\""
  <2>1. json_value_end(t, i) = json_string_end(t, i) /\ json_value_end(s, i) = json_string_end(s, i)
    BY <1>3, <1>4 DEF json_value_end
  <2>2. json_string_end(t, i) # 0
    BY <2>1
  <2>3. json_string_end(s, i) = json_string_end(t, i)
    BY <2>2, StringInCut
  <2>. QED
    BY <2>1, <2>3
<1>5. CASE Get(t, i) \in {"{", "["}
  <2>1. /\ json_value_end(t, i) = CompoundEnd(t)[i + 1][<<t[i]>>]
        /\ json_value_end(s, i) = CompoundEnd(s)[i + 1][<<t[i]>>]
    BY <1>3, <1>5 DEF json_value_end, json_compound_end
  <2>2. <<t[i]>> \in Stacks
    BY <1>3, <1>5, OneOpen, Scalars
  <2>3. i + 1 \in 1 .. L + 1
    BY <1>2
  <2>4. CompoundEnd(t)[i + 1][<<t[i]>>] # 0
    BY <2>1
  <2>5. CompoundEnd(s)[i + 1][<<t[i]>>] = CompoundEnd(t)[i + 1][<<t[i]>>]
    BY <1>1, <2>2, <2>3, <2>4, CompoundEndInCut
  <2>. QED
    BY <2>1, <2>5
<1>6. CASE Get(t, i) \in {"1", "-"}
  <2>1. /\ json_value_end(t, i) = SkipAll(t, i, ScalarBytes)
        /\ json_value_end(s, i) = SkipAll(s, i, ScalarBytes)
    BY <1>3, <1>6 DEF json_value_end, json_scalar_end
  <2>2. Get(t, SkipAll(t, i, ScalarBytes)) # "end"
    BY <1>6, <2>1, Scalars
  <2>3. SkipAll(s, i, ScalarBytes) = SkipAll(t, i, ScalarBytes)
    BY <1>2, <2>2, NoSpaces, SkippedInCut
  <2>. QED
    BY <2>1, <2>3
<1>7. CASE Get(t, i) = "true"
  BY <1>3, <1>7 DEF json_value_end
<1>8. CASE Get(t, i) \notin {"\"", "{", "[", "1", "-", "true"}
  BY <1>8 DEF json_value_end
<1>. QED
  BY <1>4, <1>5, <1>6, <1>7, <1>8

\* Where the parts of the field are whose key is at i or after it.
KeyAt(s, i) == skip_json_ws(s, i)
ColonAt(s, i) == skip_json_ws(s, json_string_end(s, KeyAt(s, i)))
ValueAt(s, i) == skip_json_ws(s, ColonAt(s, i) + 1)
AfterAt(s, i) == skip_json_ws(s, json_value_end(s, ValueAt(s, i)))

IsFieldAt(s, i) ==
    /\ decode_json_string_bytes(s, KeyAt(s, i)).ok
    /\ json_string_end(s, KeyAt(s, i)) # 0 /\ Get(s, ColonAt(s, i)) = ":"
KeyText(s, i) == decode_json_string_bytes(s, KeyAt(s, i)).text
GoesOn(s, i) == json_value_end(s, ValueAt(s, i)) # 0 /\ Get(s, AfterAt(s, i)) = ","

FindingStep(s, field, i, found) ==
    IF ~IsFieldAt(s, i) THEN 0
    ELSE IF KeyText(s, i) = field THEN ValueAt(s, i)
    ELSE IF ~GoesOn(s, i) THEN 0
    ELSE found[AfterAt(s, i) + 1]

LEMMA SpacesSkipped ==
    ASSUME NEW s \in Seq(Token), NEW i \in 1 .. Len(s) + 1
    PROVE  /\ skip_json_ws(s, i) \in i .. Len(s) + 1
           /\ Get(s, skip_json_ws(s, i)) # "end" => skip_json_ws(s, i) \in i .. Len(s)
<1>1. PICK L \in Nat : L = Len(s) /\ DOMAIN s = 1 .. L
  OBVIOUS
<1>2. i \in Nat \ {0} /\ i <= L + 1
  BY <1>1
<1>3. skip_json_ws(s, i) \in i .. L + 1
  BY <1>1, <1>2, NoSpaces, SkippedRange DEF skip_json_ws
<1>4. ASSUME Get(s, skip_json_ws(s, i)) # "end" PROVE skip_json_ws(s, i) \in i .. L
  <2>1. skip_json_ws(s, i) \in 1 .. L
    BY <1>1, <1>4 DEF Get
  <2>. QED
    BY <1>3, <2>1
<1>. QED
  BY <1>1, <1>3, <1>4

LEMMA FieldPlaces ==
    ASSUME NEW s \in Seq(Token), NEW i \in 1 .. Len(s) + 1, IsFieldAt(s, i)
    PROVE  /\ KeyAt(s, i) \in i .. Len(s) /\ Get(s, KeyAt(s, i)) = "\""
           /\ json_string_end(s, KeyAt(s, i)) \in i + 1 .. Len(s) + 1
           /\ ColonAt(s, i) \in i + 1 .. Len(s)
           /\ ColonAt(s, i) + 1 \in i + 1 .. Len(s) + 1
           /\ ValueAt(s, i) \in i + 1 .. Len(s) + 1
           /\ GoesOn(s, i) => AfterAt(s, i) + 1 \in i + 1 .. Len(s) + 1
           /\ json_value_end(s, ValueAt(s, i)) # 0 =>
                 json_value_end(s, ValueAt(s, i)) \in i + 1 .. Len(s) + 1
<1>1. PICK L \in Nat : L = Len(s)
  OBVIOUS
<1>2. PICK k : k = KeyAt(s, i)
  OBVIOUS
<1>3. k \in i .. L + 1 /\ (Get(s, k) # "end" => k \in i .. L)
  BY <1>1, <1>2, SpacesSkipped DEF KeyAt
<1>4. PICK e : e = json_string_end(s, k) /\ e # 0 /\ Get(s, k) = "\""
  <2>1. k \in Nat
    BY <1>3
  <2>. QED
    BY <1>2, <2>1, StringEndInText DEF IsFieldAt
<1>5. k \in i .. L /\ e \in k + 1 .. L + 1
  <2>0. k \in i .. L
    BY <1>3, <1>4
  <2>1. k \in i .. L /\ k \in Nat
    BY <2>0
  <2>2. e \in EndRange(s, k)
    BY <1>4, <2>1, StringEndInText
  <2>. QED
    BY <1>1, <1>4, <2>1, <2>2 DEF EndRange
<1>6. PICK c : c = ColonAt(s, i) /\ c = skip_json_ws(s, e) /\ Get(s, c) = ":"
  BY <1>2, <1>4 DEF ColonAt, IsFieldAt
<1>7. c \in e .. L
  <2>1. e \in 1 .. L + 1
    BY <1>5
  <2>. QED
    BY <1>1, <1>6, <2>1, SpacesSkipped
<1>8. PICK v : v = ValueAt(s, i) /\ v = skip_json_ws(s, c + 1)
  BY <1>6 DEF ValueAt
<1>9. v \in c + 1 .. L + 1
  <2>1. c + 1 \in 1 .. L + 1
    BY <1>5, <1>7
  <2>. QED
    BY <1>1, <1>8, <2>1, SpacesSkipped
<1>10. ASSUME json_value_end(s, v) # 0 PROVE json_value_end(s, v) \in v + 1 .. L + 1
  <2>1. v \in Nat
    BY <1>5, <1>7, <1>9
  <2>. QED
    BY <1>1, <1>10, <2>1, ValueEndType DEF EndRange
<1>11. ASSUME GoesOn(s, i) PROVE AfterAt(s, i) + 1 \in i + 1 .. L + 1
  <2>1. PICK w : w = json_value_end(s, v) /\ w \in v + 1 .. L + 1
    BY <1>8, <1>10, <1>11 DEF GoesOn
  <2>2. w \in 1 .. L + 1
    BY <1>5, <1>7, <1>9, <2>1
  <2>3. PICK a : a = AfterAt(s, i) /\ a = skip_json_ws(s, w)
    BY <1>8, <2>1 DEF AfterAt
  <2>4. Get(s, a) # "end"
    BY <1>11, <2>3 DEF GoesOn
  <2>5. a \in w .. L
    BY <1>1, <2>2, <2>3, <2>4, SpacesSkipped
  <2>. QED
    BY <1>5, <1>7, <1>9, <2>1, <2>3, <2>5
<1>12. c \in i + 1 .. L /\ c + 1 \in i + 1 .. L + 1 /\ v \in i + 1 .. L + 1 /\ e \in i + 1 .. L + 1
  BY <1>5, <1>7, <1>9
<1>13. json_value_end(s, v) # 0 => json_value_end(s, v) \in i + 1 .. L + 1
  BY <1>10, <1>12
<1>. QED
  BY <1>1, <1>2, <1>4, <1>5, <1>6, <1>8, <1>11, <1>12, <1>13

LEMMA Finds ==
    ASSUME NEW s \in Seq(Token), NEW field, NEW i \in 1 .. Len(s) + 1
    PROVE  Finding(s, field)[i] = FindingStep(s, field, i, Finding(s, field))
<1>1. PICK N \in Nat : N = Len(s) + 1
  <2>1. Len(s) + 1 \in Nat
    OBVIOUS
  <2>. QED
    BY <2>1
<1>. DEFINE Equation(found) ==
                found = [k \in 1 .. Len(s) + 1 |-> FindingStep(s, field, k, found)]
            finding == CHOOSE found : Equation(found)
            On(k) == IsFieldAt(s, k) /\ KeyText(s, k) # field /\ GoesOn(s, k)
            Here(k) == IF IsFieldAt(s, k) /\ KeyText(s, k) = field THEN ValueAt(s, k) ELSE 0
<1>2. PICK next : next = [k \in 1 .. N |-> IF On(k) THEN AfterAt(s, k) + 1 ELSE 0]
  OBVIOUS
<1>3. PICK combine : combine = [p \in (1 .. N) \X Nat |-> p[2]]
  OBVIOUS
<1>4. PICK stop : stop = [k \in 1 .. N |-> Here(k)]
  OBVIOUS
<1>5. ASSUME NEW k \in 1 .. N, On(k) PROVE AfterAt(s, k) + 1 \in k + 1 .. N
  BY <1>1, <1>5, FieldPlaces
<1>6. next \in [1 .. N -> Nat]
  <2>1. ASSUME NEW k \in 1 .. N PROVE (IF On(k) THEN AfterAt(s, k) + 1 ELSE 0) \in Nat
    <3>1. On(k) => AfterAt(s, k) + 1 \in Nat
      <4>1. \A j \in k + 1 .. N : j \in Nat
        OBVIOUS
      <4>. HIDE DEF On
      <4>. QED
        BY <1>5, <4>1
    <3>. HIDE DEF On
    <3>. QED
      BY <3>1
  <2>. HIDE DEF On
  <2>. QED
    BY <1>2, <2>1
<1>7. combine \in [(1 .. N) \X Nat -> Nat]
  BY <1>3
<1>8. stop \in [1 .. N -> Nat]
  <2>1. ASSUME NEW k \in 1 .. N PROVE Here(k) \in Nat
    <3>1. IsFieldAt(s, k) => ValueAt(s, k) \in k + 1 .. N
      BY <1>1, FieldPlaces
    <3>. QED
      BY <3>1
  <2>. HIDE DEF Here
  <2>. QED
    BY <1>4, <2>1
<1>9. PICK f \in [1 .. N -> Nat] : \A k \in 1 .. N :
          f[k] = IF next[k] \in k + 1 .. N THEN combine[<<k, f[next[k]]>>] ELSE stop[k]
  <2>1. Chasing(N, Nat, next, combine, stop)
    BY <1>6, <1>7, <1>8, Chased
  <2>. QED
    BY <2>1 DEF Chasing
<1>10. ASSUME NEW k \in 1 .. N PROVE f[k] = FindingStep(s, field, k, f)
  <2>1. CASE On(k)
    <3>1. PICK j \in 1 .. N : j = AfterAt(s, k) + 1 /\ j \in k + 1 .. N
      <4>1. \A j \in k + 1 .. N : j \in 1 .. N
        OBVIOUS
      <4>. QED
        BY <1>5, <2>1, <4>1
    <3>2. next[k] = j
      BY <1>2, <2>1, <3>1
    <3>3. combine[<<k, f[j]>>] = f[j]
      BY <1>3
    <3>4. f[k] = f[j]
      BY <1>9, <3>1, <3>2, <3>3
    <3>. QED
      BY <2>1, <3>1, <3>4 DEF FindingStep
  <2>2. CASE ~On(k)
    <3>1. next[k] = 0 /\ 0 \notin k + 1 .. N
      BY <1>2, <2>2
    <3>2. f[k] = Here(k)
      BY <1>4, <1>9, <3>1
    <3>. QED
      BY <2>2, <3>2 DEF FindingStep
  <2>. QED
    BY <2>1, <2>2
<1>11. Equation(f)
  <2>1. f = [k \in 1 .. N |-> FindingStep(s, field, k, f)]
    BY <1>10
  <2>. QED
    BY <1>1, <2>1
<1>12. Equation(finding)
  BY <1>11
<1>13. Finding(s, field) = finding
  BY DEF Finding, FindingStep, IsFieldAt, KeyText, GoesOn, KeyAt, ColonAt, ValueAt, AfterAt
<1>. HIDE DEF finding
<1>14. finding[i] = FindingStep(s, field, i, finding)
  BY <1>12
<1>. QED
  BY <1>13, <1>14

\* What is found in a text that is cut off is found in the whole.
LEMMA FindingInCut ==
    ASSUME NEW s \in Seq(Token), NEW t \in Seq(Token), IsCut(t, s), NEW field
    PROVE  \A i \in 1 .. Len(t) + 1 :
              Finding(t, field)[i] # 0 /\ Get(t, Finding(t, field)[i]) # "end" =>
                 Finding(s, field)[i] = Finding(t, field)[i]
<1>1. PICK N \in Nat : N = Len(t) + 1 /\ N <= Len(s) + 1 /\ DOMAIN t = 1 .. N - 1
  <2>1. PICK L \in Nat : L = Len(t) /\ DOMAIN t = 1 .. L
    OBVIOUS
  <2>2. L + 1 \in Nat /\ (L + 1) - 1 = L
    OBVIOUS
  <2>3. L <= Len(s)
    BY <2>1 DEF IsCut
  <2>. QED
    BY <2>1, <2>2, <2>3
<1>. DEFINE Same(i) == Finding(t, field)[i] # 0 /\ Get(t, Finding(t, field)[i]) # "end" =>
                          Finding(s, field)[i] = Finding(t, field)[i]
<1>2. PICK P : P = {i \in 1 .. N : Same(i)}
  OBVIOUS
<1>3. ASSUME NEW i \in 1 .. N, \A j \in i + 1 .. N : j \in P PROVE i \in P
  <2>0. i \in 1 .. Len(s) + 1 /\ i \in 1 .. Len(t) + 1
    BY <1>1
  <2>1. ASSUME Finding(t, field)[i] # 0, Get(t, Finding(t, field)[i]) # "end"
        PROVE  Finding(s, field)[i] = Finding(t, field)[i]
    <3>1. Finding(t, field)[i] = FindingStep(t, field, i, Finding(t, field))
      BY <2>0, Finds
    <3>2. Finding(s, field)[i] = FindingStep(s, field, i, Finding(s, field))
      BY <2>0, Finds
    <3>3. IsFieldAt(t, i)
      BY <2>1, <3>1 DEF FindingStep
    <3>4. /\ KeyAt(t, i) \in i .. Len(t) /\ Get(t, KeyAt(t, i)) = "\""
          /\ json_string_end(t, KeyAt(t, i)) \in i + 1 .. Len(t) + 1
          /\ ColonAt(t, i) + 1 \in i + 1 .. Len(t) + 1
          /\ ValueAt(t, i) \in i + 1 .. Len(t) + 1
          /\ GoesOn(t, i) => AfterAt(t, i) + 1 \in i + 1 .. Len(t) + 1
          /\ json_value_end(t, ValueAt(t, i)) # 0 =>
                json_value_end(t, ValueAt(t, i)) \in i + 1 .. Len(t) + 1
      BY <2>0, <3>3, FieldPlaces
    <3>5. \A j \in i + 1 .. Len(t) + 1 : j \in Nat \ {0}
      OBVIOUS
    <3>6. i \in Nat \ {0} /\ KeyAt(t, i) \in Nat /\ ValueAt(t, i) \in Nat
      <4>1. i \in Nat \ {0}
        OBVIOUS
      <4>2. \A j \in i .. Len(t) : j \in Nat
        BY <4>1
      <4>. QED
        BY <3>4, <3>5, <4>1, <4>2
    <3>7. KeyAt(s, i) = KeyAt(t, i)
      <4>1. Get(t, SkipAll(t, i, Spaces)) # "end"
        BY <3>4 DEF KeyAt, skip_json_ws
      <4>. QED
        BY <3>6, <4>1, NoSpaces, SkippedInCut DEF KeyAt, skip_json_ws
    <3>8. /\ decode_json_string_bytes(s, KeyAt(s, i)) = decode_json_string_bytes(t, KeyAt(t, i))
          /\ json_string_end(s, KeyAt(s, i)) = json_string_end(t, KeyAt(t, i))
      BY <3>3, <3>6, <3>7, StringInCut DEF IsFieldAt
    <3>9. ColonAt(s, i) = ColonAt(t, i)
      <4>1. PICK e \in Nat \ {0} : e = json_string_end(t, KeyAt(t, i))
        BY <3>4, <3>5
      <4>2. Get(t, SkipAll(t, e, Spaces)) # "end"
        BY <3>3, <4>1 DEF IsFieldAt, ColonAt, skip_json_ws
      <4>3. SkipAll(s, e, Spaces) = SkipAll(t, e, Spaces)
        BY <4>2, NoSpaces, SkippedInCut
      <4>. QED
        BY <3>8, <4>1, <4>3 DEF ColonAt, skip_json_ws
    <3>10. Get(s, ColonAt(s, i)) = ":"
      BY <3>3, <3>9 DEF IsFieldAt, IsCut
    <3>11. IsFieldAt(s, i) /\ KeyText(s, i) = KeyText(t, i)
      BY <3>3, <3>8, <3>10 DEF IsFieldAt, KeyText
    <3>12. ASSUME Get(t, ValueAt(t, i)) # "end" PROVE ValueAt(s, i) = ValueAt(t, i)
      <4>1. PICK e \in Nat \ {0} : e = ColonAt(t, i) + 1
        BY <3>4, <3>5
      <4>2. Get(t, SkipAll(t, e, Spaces)) # "end"
        BY <3>12, <4>1 DEF ValueAt, skip_json_ws
      <4>3. SkipAll(s, e, Spaces) = SkipAll(t, e, Spaces)
        BY <4>2, NoSpaces, SkippedInCut
      <4>. QED
        BY <3>9, <4>1, <4>3 DEF ValueAt, skip_json_ws
    <3>13. CASE KeyText(t, i) = field
      <4>1. Finding(t, field)[i] = ValueAt(t, i)
        BY <3>1, <3>3, <3>13 DEF FindingStep
      <4>2. ValueAt(s, i) = ValueAt(t, i)
        BY <2>1, <3>12, <4>1
      <4>3. Finding(s, field)[i] = ValueAt(s, i)
        BY <3>2, <3>11, <3>13 DEF FindingStep
      <4>. QED
        BY <4>1, <4>2, <4>3
    <3>14. CASE KeyText(t, i) # field
      <4>1. GoesOn(t, i) /\ Finding(t, field)[i] = Finding(t, field)[AfterAt(t, i) + 1]
        BY <2>1, <3>1, <3>3, <3>14 DEF FindingStep
      <4>2. json_value_end(t, ValueAt(t, i)) # 0 /\ Get(t, AfterAt(t, i)) = ","
        BY <4>1 DEF GoesOn
      <4>3. ValueAt(s, i) = ValueAt(t, i)
        BY <3>6, <3>12, <4>2, ValueEndType
      <4>4. PICK e \in Nat \ {0} : e = json_value_end(t, ValueAt(t, i))
        BY <3>4, <3>5, <4>2
      <4>5. SkipAll(t, e, Spaces) = AfterAt(t, i) /\ Get(t, SkipAll(t, e, Spaces)) # "end"
        BY <4>2, <4>4 DEF AfterAt, skip_json_ws
      <4>6. Get(t, e) # "end"
        <5>1. ASSUME Get(t, e) = "end" PROVE SkipAll(t, e, Spaces) = e
          <6>1. e \in Nat /\ e <= e /\ \A k \in e .. e - 1 : Get(t, k) \in Spaces
            OBVIOUS
          <6>2. Get(t, e) \notin Spaces
            BY <5>1, NoSpaces
          <6>. QED
            BY <6>1, <6>2, NoSpaces, SkippedTo
        <5>. QED
          BY <4>5, <5>1
      <4>7. json_value_end(s, ValueAt(t, i)) = e
        BY <3>6, <4>2, <4>4, <4>6, ValueEndInCut
      <4>8. SkipAll(s, e, Spaces) = SkipAll(t, e, Spaces)
        BY <4>5, NoSpaces, SkippedInCut
      <4>9. AfterAt(s, i) = AfterAt(t, i)
        BY <4>3, <4>5, <4>7, <4>8 DEF AfterAt, skip_json_ws
      <4>10. Get(s, AfterAt(s, i)) = ","
        BY <4>2, <4>9 DEF IsCut
      <4>11. GoesOn(s, i)
        BY <4>3, <4>4, <4>7, <4>10 DEF GoesOn
      <4>12. Finding(s, field)[i] = Finding(s, field)[AfterAt(t, i) + 1]
        BY <3>2, <3>11, <3>14, <4>9, <4>11 DEF FindingStep
      <4>13. AfterAt(t, i) + 1 \in P
        BY <1>1, <1>3, <3>4, <4>1
      <4>. QED
        BY <1>2, <2>1, <4>1, <4>12, <4>13
    <3>. QED
      BY <3>13, <3>14
  <2>. QED
    BY <1>2, <2>1
<1>4. \A i \in 1 .. N : i \in P
  <2>. HIDE DEF Same
  <2>. QED
    BY <1>3, Downward, Zenon
<1>. QED
  BY <1>1, <1>2, <1>4

-----------------------------------------------------------------------------
(* The fields of an object *)

PartText(key, value, gap, sep) ==
    gap \o StringText(key) \o gap \o <<":">> \o gap \o ValueText(value) \o gap \o <<sep>>

\* Where the value of a field is, whose text is at i.
ValuePlace(i, key, gap) == i + Len(gap) + Len(StringText(key)) + Len(gap) + 1 + Len(gap)

LEMMA GapIsText == /\ \A gap : gap \in Seq(Spaces) => gap \in Seq(Token)
                   /\ \A c \in {"\"", ":", ",", "{", "}", "[", "1", "-", "true"} : c \notin Spaces
                   /\ \A c \in Spaces \union {",", "}"} : c \notin ScalarBytes
                   /\ \A c \in {":", ",", "{", "}"} : c \in Token /\ c # "end"
<1>. DEFINE B == Spaces
<1>1. B \subseteq Token
  BY DEF Spaces, Token
<1>2. \A gap : gap \in Seq(B) => gap \in Seq(Token)
  <2>. HIDE DEF B, Token
  <2>. QED
    BY <1>1
<1>3. /\ \A c \in {"\"", ":", ",", "{", "}", "[", "1", "-", "true"} : c \notin Spaces
      /\ \A c \in Spaces \union {",", "}"} : c \notin ScalarBytes
  BY DEF Spaces, ScalarBytes
<1>4. \A c \in {":", ",", "{", "}"} : c \in Token /\ c # "end"
  BY Tokens
<1>. QED
  BY <1>2, <1>3, <1>4

FieldText(a, k, c, v, sep) == a \o k \o a \o <<c>> \o a \o v \o a \o <<sep>>

\* The parts of a field's text are where they are, and it is as long as they are.
HasParts8(s, i, a, k, c, v, sep) ==
    LET g == Len(a)
        w == i + g + Len(k) + g + 1 + g
    IN  /\ HasAt(s, i, a) /\ HasAt(s, i + g, k) /\ HasAt(s, i + g + Len(k), a)
        /\ HasAt(s, i + g + Len(k) + g, <<c>>) /\ HasAt(s, i + g + Len(k) + g + 1, a)
        /\ HasAt(s, w, v) /\ HasAt(s, w + Len(v), a) /\ HasAt(s, w + Len(v) + g, <<sep>>)
        /\ i + Len(FieldText(a, k, c, v, sep)) = w + Len(v) + g + 1

LEMMA FieldParts ==
    ASSUME NEW s \in Seq(Token), NEW i \in Nat, NEW a \in Seq(Token), NEW k \in Seq(Token),
           NEW c \in Token, NEW v \in Seq(Token), NEW sep \in Token,
           HasAt(s, i, FieldText(a, k, c, v, sep))
    PROVE  HasParts8(s, i, a, k, c, v, sep)
<1>0. PICK g \in Nat, m \in Nat, n \in Nat : g = Len(a) /\ m = Len(k) /\ n = Len(v)
  OBVIOUS
<1>1. PICK b \in Seq(Token), d \in Seq(Token) : b = <<c>> /\ d = <<sep>> /\ Len(b) = 1 /\ Len(d) = 1
  <2>1. <<c>> \in Seq(Token) /\ <<sep>> \in Seq(Token) /\ Len(<<c>>) = 1 /\ Len(<<sep>>) = 1
    OBVIOUS
  <2>. QED
    BY <2>1
<1>2. PICK a2 \in Seq(Token) : a2 = a \o k /\ Len(a2) = g + m
  <2>1. a \o k \in Seq(Token) /\ Len(a \o k) = Len(a) + Len(k)
    OBVIOUS
  <2>. QED
    BY <1>0, <2>1
<1>3. PICK a3 \in Seq(Token) : a3 = a2 \o a /\ Len(a3) = g + m + g
  <2>1. a2 \o a \in Seq(Token) /\ Len(a2 \o a) = Len(a2) + Len(a)
    OBVIOUS
  <2>. QED
    BY <1>0, <1>2, <2>1
<1>4. PICK a4 \in Seq(Token) : a4 = a3 \o b /\ Len(a4) = g + m + g + 1
  <2>1. a3 \o b \in Seq(Token) /\ Len(a3 \o b) = Len(a3) + Len(b)
    OBVIOUS
  <2>. QED
    BY <1>1, <1>3, <2>1
<1>5. PICK a5 \in Seq(Token) : a5 = a4 \o a /\ Len(a5) = g + m + g + 1 + g
  <2>1. a4 \o a \in Seq(Token) /\ Len(a4 \o a) = Len(a4) + Len(a)
    OBVIOUS
  <2>. QED
    BY <1>0, <1>4, <2>1
<1>6. PICK a6 \in Seq(Token) : a6 = a5 \o v /\ Len(a6) = g + m + g + 1 + g + n
  <2>1. a5 \o v \in Seq(Token) /\ Len(a5 \o v) = Len(a5) + Len(v)
    OBVIOUS
  <2>. QED
    BY <1>0, <1>5, <2>1
<1>7. PICK a7 \in Seq(Token) : a7 = a6 \o a /\ Len(a7) = g + m + g + 1 + g + n + g
  <2>1. a6 \o a \in Seq(Token) /\ Len(a6 \o a) = Len(a6) + Len(a)
    OBVIOUS
  <2>. QED
    BY <1>0, <1>6, <2>1
<1>8. PICK a8 \in Seq(Token) : a8 = a7 \o d /\ Len(a8) = g + m + g + 1 + g + n + g + 1
  <2>1. a7 \o d \in Seq(Token) /\ Len(a7 \o d) = Len(a7) + Len(d)
    OBVIOUS
  <2>. QED
    BY <1>1, <1>7, <2>1
<1>9. FieldText(a, k, c, v, sep) = a8
  BY <1>1, <1>2, <1>3, <1>4, <1>5, <1>6, <1>7, <1>8 DEF FieldText
<1>10. HasAt(s, i, a8)
  BY <1>9
<1>11. HasAt(s, i, a7) /\ HasAt(s, i + Len(a7), d)
  BY <1>8, <1>10, HasParts
<1>12. HasAt(s, i, a6) /\ HasAt(s, i + Len(a6), a)
  BY <1>7, <1>11, HasParts
<1>13. HasAt(s, i, a5) /\ HasAt(s, i + Len(a5), v)
  BY <1>6, <1>12, HasParts
<1>14. HasAt(s, i, a4) /\ HasAt(s, i + Len(a4), a)
  BY <1>5, <1>13, HasParts
<1>15. HasAt(s, i, a3) /\ HasAt(s, i + Len(a3), b)
  BY <1>4, <1>14, HasParts
<1>16. HasAt(s, i, a2) /\ HasAt(s, i + Len(a2), a)
  BY <1>3, <1>15, HasParts
<1>17. HasAt(s, i, a) /\ HasAt(s, i + Len(a), k)
  BY <1>2, <1>16, HasParts
<1>18. /\ i + Len(a2) = i + g + m /\ i + Len(a3) = i + g + m + g
       /\ i + Len(a4) = i + g + m + g + 1 /\ i + Len(a5) = i + g + m + g + 1 + g
       /\ i + Len(a6) = i + g + m + g + 1 + g + n /\ i + Len(a7) = i + g + m + g + 1 + g + n + g
       /\ i + Len(a8) = i + g + m + g + 1 + g + n + g + 1
  BY <1>2, <1>3, <1>4, <1>5, <1>6, <1>7, <1>8
<1>. QED
  BY <1>0, <1>1, <1>9, <1>11, <1>12, <1>13, <1>14, <1>15, <1>16, <1>17, <1>18
     DEF HasParts8

\* What may be between the tokens of a document, and after a field.
IsGap(gap) == gap \in Seq(Spaces)
Ends == {",", "}"}

LEMMA GapIsSkipped ==
    ASSUME NEW s \in Seq(Token), NEW i \in Nat, NEW gap, IsGap(gap), HasAt(s, i, gap),
           Get(s, i + Len(gap)) \notin Spaces
    PROVE  skip_json_ws(s, i) = i + Len(gap)
BY NoSpaces, SkippedText DEF skip_json_ws, IsGap

\* What the scanner makes of a field's text at i.
FieldScanned(s, i, gap, key, value, sep) ==
    /\ i \in 1 .. Len(s)
    /\ IsFieldAt(s, i) <=> ReadAs(key).ok
    /\ KeyText(s, i) = ReadAs(key).text
    /\ ValueAt(s, i) = ValuePlace(i, key, gap) /\ ValuePlace(i, key, gap) \in Nat \ {0}
    /\ HasAt(s, ValuePlace(i, key, gap), ValueText(value))
    /\ Get(s, ValuePlace(i, key, gap) + Len(ValueText(value))) \notin ScalarBytes
    /\ GoesOn(s, i) <=> sep = ","
    /\ AfterAt(s, i) + 1 = i + Len(PartText(key, value, gap, sep))

LEMMA FieldIsScanned ==
    ASSUME NEW s \in Seq(Token), NEW i \in Nat, NEW gap, IsGap(gap), NEW key, IsString(key),
           NEW value, IsValue(value), NEW sep \in Ends,
           HasAt(s, i, PartText(key, value, gap, sep))
    PROVE  FieldScanned(s, i, gap, key, value, sep)
<1>1. PICK k \in Seq(Token), v \in Seq(Token), c \in Token :
            k = StringText(key) /\ v = ValueText(value) /\ c = ":"
  BY StringTextType, ValueIs, GapIsText
<1>2. gap \in Seq(Token) /\ sep \in Token /\ sep \notin Spaces /\ sep # "end"
  BY GapIsText DEF IsGap, Ends
<1>3. PICK g \in Nat, m \in Nat, n \in Nat : g = Len(gap) /\ m = Len(k) /\ n = Len(v)
  BY <1>2
<1>4. PICK q1, q2, q3, q4, w, q5, q6 : /\ q1 = i + g /\ q2 = i + g + m /\ q3 = i + g + m + g
                                       /\ q4 = i + g + m + g + 1 /\ w = i + g + m + g + 1 + g
                                       /\ q5 = w + n /\ q6 = w + n + g
  OBVIOUS
<1>5. PartText(key, value, gap, sep) = FieldText(gap, k, c, v, sep)
  BY <1>1 DEF PartText, FieldText
<1>6. /\ HasAt(s, i, gap) /\ HasAt(s, q1, k) /\ HasAt(s, q2, gap) /\ HasAt(s, q3, <<c>>)
      /\ HasAt(s, q4, gap) /\ HasAt(s, w, v) /\ HasAt(s, q5, gap) /\ HasAt(s, q6, <<sep>>)
      /\ i + Len(PartText(key, value, gap, sep)) = q6 + 1
  <2>1. HasParts8(s, i, gap, k, c, v, sep)
    BY <1>2, <1>5, FieldParts
  <2>2. /\ i + Len(gap) = q1 /\ i + Len(gap) + Len(k) = q2 /\ i + Len(gap) + Len(k) + Len(gap) = q3
        /\ i + Len(gap) + Len(k) + Len(gap) + 1 = q4
        /\ i + Len(gap) + Len(k) + Len(gap) + 1 + Len(gap) = w
        /\ i + Len(gap) + Len(k) + Len(gap) + 1 + Len(gap) + Len(v) = q5
        /\ i + Len(gap) + Len(k) + Len(gap) + 1 + Len(gap) + Len(v) + Len(gap) = q6
    BY <1>3, <1>4
  <2>. QED
    BY <1>5, <2>1, <2>2 DEF HasParts8
<1>7. /\ q1 \in Nat /\ q2 \in Nat /\ q3 \in Nat /\ q4 \in Nat /\ w \in Nat /\ q5 \in Nat /\ q6 \in Nat
      /\ q2 = q1 + m /\ q3 = q2 + g /\ q4 = q3 + 1 /\ w = q4 + g /\ q5 = w + n /\ q6 = q5 + g
  BY <1>4
<1>8. Get(s, q6) = sep /\ q6 \in 1 .. Len(s)
  BY <1>2, <1>6, <1>7, HasFirst
<1>9. Get(s, q3) = ":"
  BY <1>1, <1>6, <1>7, HasFirst
<1>10. PICK p : LaidString(s, q1, key, p)
  <2>1. HasAt(s, q1, StringText(key))
    BY <1>1, <1>6
  <2>. QED
    BY <1>7, <2>1, StringLaid
<1>11. Get(s, q1) = "\""
  BY <1>10 DEF LaidString
<1>12. KeyAt(s, i) = q1
  <2>1. Get(s, i + Len(gap)) \notin Spaces
    BY <1>3, <1>4, <1>11, GapIsText
  <2>2. skip_json_ws(s, i) = i + Len(gap)
    BY <1>6, <2>1, GapIsSkipped
  <2>. QED
    BY <1>3, <1>4, <2>2 DEF KeyAt
<1>13. decode_json_string_bytes(s, q1) = ReadAs(key) /\ json_string_end(s, q1) = q2
  <2>1. HasAt(s, q1, StringText(key))
    BY <1>1, <1>6
  <2>2. decode_json_string_bytes(s, q1) = ReadAs(key)
    BY <1>7, <2>1, StringIsRead
  <2>3. json_string_end(s, q1) = q1 + Len(StringText(key))
    BY <1>7, <2>1, StringIsScanned
  <2>. QED
    BY <1>1, <1>3, <1>7, <2>2, <2>3
<1>14. ColonAt(s, i) = q3
  <2>1. Get(s, q2 + Len(gap)) \notin Spaces
    BY <1>3, <1>7, <1>9, GapIsText
  <2>2. skip_json_ws(s, q2) = q2 + Len(gap)
    BY <1>6, <1>7, <2>1, GapIsSkipped
  <2>. QED
    BY <1>3, <1>7, <1>12, <1>13, <2>2 DEF ColonAt
<1>15. Get(s, q5) \notin ScalarBytes
  <2>1. CASE g = 0
    <3>1. q5 = q6
      BY <1>7, <2>1
    <3>. QED
      BY <1>8, <3>1, GapIsText DEF Ends
  <2>2. CASE g # 0
    <3>1. Len(gap) >= 1 /\ gap[1] \in Spaces
      <4>1. Len(gap) \in Nat /\ Len(gap) >= 1
        BY <1>3, <2>2
      <4>2. DOMAIN gap = 1 .. Len(gap)
        BY <1>2
      <4>3. 1 \in DOMAIN gap
        BY <4>1, <4>2
      <4>. QED
        BY <4>1, <4>3 DEF IsGap
    <3>2. Get(s, q5) = gap[1]
      BY <1>2, <1>6, <3>1, HasTokens
    <3>. QED
      BY <3>1, <3>2, GapIsText
  <2>. QED
    BY <2>1, <2>2
<1>16. /\ json_value_end(s, w) = q5 /\ Get(s, w) # "end"
       /\ Get(s, w) \notin Spaces
  <2>1. HasAt(s, w, ValueText(value)) /\ Get(s, w + Len(ValueText(value))) \notin ScalarBytes
    BY <1>1, <1>3, <1>4, <1>6, <1>15
  <2>0. w \in Nat /\ IsValue(value)
    BY <1>7
  <2>2. /\ json_value_end(s, w) = w + Len(ValueText(value)) /\ w \in 1 .. Len(s)
        /\ value.is = "string" => Get(s, w) = "\""
        /\ value.is = "nested" => Get(s, w) \in Opens
        /\ value.is \notin {"string", "nested"} => Get(s, w) \in {"1", "-", "true"}
    BY <2>0, <2>1, ValueIsScanned, Zenon
  <2>3. Get(s, w) \in {"\"", "{", "[", "1", "-", "true"}
    BY <2>2, Scalars
  <2>. QED
    BY <1>1, <1>3, <1>4, <2>2, <2>3, GapIsText
<1>17. ValueAt(s, i) = w
  <2>1. Get(s, q4 + Len(gap)) \notin Spaces
    BY <1>3, <1>7, <1>16
  <2>2. skip_json_ws(s, q4) = q4 + Len(gap)
    BY <1>6, <1>7, <2>1, GapIsSkipped
  <2>. QED
    BY <1>3, <1>7, <1>14, <2>2 DEF ValueAt
<1>18. AfterAt(s, i) = q6
  <2>1. Get(s, q5 + Len(gap)) \notin Spaces
    BY <1>2, <1>3, <1>7, <1>8
  <2>2. skip_json_ws(s, q5) = q5 + Len(gap)
    BY <1>6, <1>7, <2>1, GapIsSkipped
  <2>. QED
    BY <1>3, <1>7, <1>16, <1>17, <2>2 DEF AfterAt
<1>19. i # 0 /\ i \in 1 .. Len(s) /\ q2 # 0 /\ q5 # 0 /\ w # 0
  <2>1. i # 0
    BY <1>6 DEF HasAt
  <2>2. PICK L \in Nat : L = Len(s)
    OBVIOUS
  <2>3. q6 <= L
    BY <1>8, <2>2
  <2>4. i <= q6 /\ i \in 1 .. L
    BY <1>4, <2>1, <2>3
  <2>5. q2 # 0 /\ q5 # 0 /\ w # 0
    BY <1>4, <2>1
  <2>. QED
    BY <2>1, <2>2, <2>4, <2>5
<1>20. IsFieldAt(s, i) <=> ReadAs(key).ok
  BY <1>9, <1>12, <1>13, <1>14, <1>19 DEF IsFieldAt
<1>21. KeyText(s, i) = ReadAs(key).text
  BY <1>12, <1>13 DEF KeyText
<1>22. GoesOn(s, i) <=> sep = ","
  BY <1>8, <1>16, <1>17, <1>18, <1>19 DEF GoesOn
<1>23. w = ValuePlace(i, key, gap)
  BY <1>1, <1>3, <1>4 DEF ValuePlace
<1>. QED
  BY <1>1, <1>3, <1>4, <1>6, <1>7, <1>15, <1>17, <1>18, <1>19, <1>20, <1>21, <1>22, <1>23
     DEF FieldScanned

-----------------------------------------------------------------------------
(* An object and its fields *)

LEMMA Joined ==
    ASSUME NEW a \in Seq(Token), NEW b \in Seq(Token)
    PROVE  a \o b \in Seq(Token) /\ Len(a \o b) = Len(a) + Len(b)
OBVIOUS

LEMMA OneToken == \A c \in Token : <<c>> \in Seq(Token) /\ Len(<<c>>) = 1
OBVIOUS

LEMMA PartTextType ==
    ASSUME NEW gap, IsGap(gap), NEW key, IsString(key), NEW value, IsValue(value), NEW sep \in Ends
    PROVE  PartText(key, value, gap, sep) \in Seq(Token)
<1>1. PICK k \in Seq(Token), v \in Seq(Token), a \in Seq(Token), c \in Seq(Token), d \in Seq(Token) :
            k = StringText(key) /\ v = ValueText(value) /\ a = gap /\ c = <<":">> /\ d = <<sep>>
  <2>1. StringText(key) \in Seq(Token) /\ ValueText(value) \in Seq(Token) /\ gap \in Seq(Token)
    BY StringTextType, ValueIs, GapIsText DEF IsGap
  <2>2. ":" \in Token /\ sep \in Token
    BY GapIsText DEF Ends
  <2>3. <<":">> \in Seq(Token) /\ <<sep>> \in Seq(Token)
    BY <2>2, OneToken
  <2>. QED
    BY <2>1, <2>3
<1>2. a \o k \in Seq(Token)
  BY Joined
<1>3. (a \o k) \o a \in Seq(Token)
  BY <1>2, Joined
<1>4. ((a \o k) \o a) \o c \in Seq(Token)
  BY <1>3, Joined
<1>5. (((a \o k) \o a) \o c) \o a \in Seq(Token)
  BY <1>4, Joined
<1>6. ((((a \o k) \o a) \o c) \o a) \o v \in Seq(Token)
  BY <1>5, Joined
<1>7. (((((a \o k) \o a) \o c) \o a) \o v) \o a \in Seq(Token)
  BY <1>6, Joined
<1>8. ((((((a \o k) \o a) \o c) \o a) \o v) \o a) \o d \in Seq(Token)
  BY <1>7, Joined
<1>. QED
  BY <1>1, <1>8 DEF PartText

SepOf(fields, k) == IF k < Len(fields) THEN "," ELSE "}"
PartsOf(fields, gap) ==
    [k \in DOMAIN fields |-> PartText(fields[k].key, fields[k].value, gap, SepOf(fields, k))]

LEMMA PartsOfObject ==
    ASSUME NEW fields, IsObject(fields), NEW gap, IsGap(gap)
    PROVE  /\ PartsOf(fields, gap) \in Seq(Seq(Token)) /\ Len(PartsOf(fields, gap)) = Len(fields)
           /\ Len(fields) \in Nat /\ DOMAIN fields = 1 .. Len(fields)
           /\ \A k \in 1 .. Len(fields) :
                 PartsOf(fields, gap)[k] = PartText(fields[k].key, fields[k].value, gap, SepOf(fields, k))
           /\ FlattenSeq(PartsOf(fields, gap)) \in Seq(Token)
           /\ \A k \in 1 .. Len(fields) : IsString(fields[k].key) /\ IsValue(fields[k].value)
<1>1. PICK n \in Nat : n = Len(fields) /\ DOMAIN fields = 1 .. n
  BY DEF IsObject
<1>2. PICK S : S = Seq(Token)
  OBVIOUS
<1>3. \A k \in 1 .. n : IsString(fields[k].key) /\ IsValue(fields[k].value)
  BY <1>1 DEF IsObject
<1>4. ASSUME NEW k \in 1 .. n
      PROVE  PartText(fields[k].key, fields[k].value, gap, SepOf(fields, k)) \in S
  <2>1. SepOf(fields, k) \in Ends
    BY DEF SepOf, Ends
  <2>. QED
    BY <1>2, <1>3, <2>1, PartTextType, Zenon
<1>5. PartsOf(fields, gap) =
         [k \in 1 .. n |-> PartText(fields[k].key, fields[k].value, gap, SepOf(fields, k))]
  BY <1>1 DEF PartsOf
<1>6. PartsOf(fields, gap) \in Seq(S) /\ Len(PartsOf(fields, gap)) = n
  BY <1>4, <1>5
<1>7. FlattenSeq(PartsOf(fields, gap)) \in Seq(Token)
  BY <1>2, <1>6, FlattenedType
<1>. QED
  BY <1>1, <1>2, <1>3, <1>5, <1>6, <1>7

\* Where the fields are in an object's text, and where they are looked for.
LaidObject(s, fields, gap, p) ==
    /\ Laid(s, Len(gap) + 2, PartsOf(fields, gap), p)
    /\ \A name : find_json_field_value(s, name) = Finding(s, name)[Len(gap) + 2]
    /\ Len(gap) + 2 \in 1 .. Len(s) + 1
    /\ fields = <<>> => Get(s, Len(gap) + 2) = "}"

LEMMA ObjectIs ==
    ASSUME NEW fields, IsObject(fields), NEW gap, IsGap(gap)
    PROVE  /\ ObjectText(fields, gap) \in Seq(Token)
           /\ \E p : LaidObject(ObjectText(fields, gap), fields, gap, p)
<1>0. PICK c \in Token, d \in Token : c = "{" /\ d = "}"
  BY GapIsText
<1>0a. PICK b \in Seq(Token), e \in Seq(Token), none \in Seq(Token) :
          b = <<c>> /\ e = <<d>> /\ none = <<>> /\ Len(b) = 1
  <2>1. <<c>> \in Seq(Token) /\ <<d>> \in Seq(Token) /\ Len(<<c>>) = 1
    BY OneToken
  <2>2. <<>> \in Seq(Token)
    OBVIOUS
  <2>. QED
    BY <2>1, <2>2
<1>0b. PICK tail \in Seq(Token) : tail = IF fields = <<>> THEN e ELSE none
  OBVIOUS
<1>1. PICK a \in Seq(Token), flat \in Seq(Token), g \in Nat :
          a = gap /\ flat = FlattenSeq(PartsOf(fields, gap)) /\ g = Len(a)
  <2>1. gap \in Seq(Token) /\ Len(gap) \in Nat
    <3>1. gap \in Seq(Token)
      BY GapIsText DEF IsGap
    <3>. QED
      BY <3>1
  <2>2. FlattenSeq(PartsOf(fields, gap)) \in Seq(Token)
    BY PartsOfObject
  <2>. QED
    BY <2>1, <2>2
<1>2. PICK s : s = ObjectText(fields, gap)
  OBVIOUS
<1>3. s = ((a \o b) \o flat) \o tail
  BY <1>0, <1>0a, <1>0b, <1>1, <1>2, Zenon DEF ObjectText, PartsOf, PartText, SepOf
<1>4. PICK a1 \in Seq(Token) : a1 = a \o b /\ Len(a1) = g + 1
  <2>1. a \o b \in Seq(Token) /\ Len(a \o b) = Len(a) + Len(b)
    BY Joined
  <2>. QED
    BY <1>0a, <1>1, <2>1
<1>5. PICK a2 \in Seq(Token) : a2 = a1 \o flat /\ Len(a2) = Len(a1) + Len(flat)
  BY Joined
<1>6. s \in Seq(Token) /\ s = a2 \o tail
  BY <1>3, <1>4, <1>5, Joined
<1>7. HasAt(s, 1, a2 \o tail)
  <2>1. PICK L \in Nat : L = Len(s) /\ DOMAIN s = 1 .. L
    BY <1>6
  <2>2. \A k \in 1 .. L : 1 + k - 1 = k
    BY <2>1
  <2>3. HasAt(s, 1, s)
    BY <2>1, <2>2 DEF HasAt, Get
  <2>. QED
    BY <1>6, <2>3
<1>8. HasAt(s, 1, a2) /\ HasAt(s, 1 + Len(a2), tail)
  BY <1>6, <1>7, HasParts
<1>9. HasAt(s, 1, a1) /\ HasAt(s, 1 + Len(a1), flat)
  BY <1>5, <1>6, <1>8, HasParts
<1>10. HasAt(s, 1, a) /\ HasAt(s, 1 + Len(a), b)
  BY <1>4, <1>6, <1>9, HasParts
<1>11. g = Len(gap) /\ g = Len(a) /\ 1 + Len(a) = g + 1 /\ 1 + Len(a1) = g + 2
       /\ Len(gap) + 2 = g + 2 /\ g + 1 \in Nat /\ g + 2 \in Nat
  BY <1>1, <1>4
<1>12. Get(s, g + 1) = "{" /\ g + 1 \in 1 .. Len(s)
  <2>1. HasAt(s, g + 1, <<c>>) /\ g + 1 \in Nat
    BY <1>0a, <1>10, <1>11
  <2>. QED
    BY <1>0, <1>6, <2>1, HasFirst
<1>13. skip_json_ws(s, 1) = g + 1
  <2>1. HasAt(s, 1, gap) /\ Get(s, 1 + Len(gap)) \notin Spaces /\ 1 \in Nat
    BY <1>1, <1>10, <1>11, <1>12, GapIsText
  <2>2. skip_json_ws(s, 1) = 1 + Len(gap)
    BY <1>6, <2>1, GapIsSkipped
  <2>. QED
    BY <1>1, <1>11, <2>2
<1>14. \A name : find_json_field_value(s, name) = Finding(s, name)[Len(gap) + 2]
  <2>1. Len(gap) + 2 = (g + 1) + 1
    BY <1>11
  <2>. QED
    BY <1>12, <1>13, <2>1 DEF find_json_field_value
<1>15. PICK p : Laid(s, Len(gap) + 2, PartsOf(fields, gap), p)
  <2>1. HasAt(s, Len(gap) + 2, FlattenSeq(PartsOf(fields, gap))) /\ Len(gap) + 2 \in Nat
    BY <1>1, <1>9, <1>11
  <2>2. PartsOf(fields, gap) \in Seq(Seq(Token))
    BY PartsOfObject
  <2>. QED
    BY <1>6, <2>1, <2>2, LaidOut
<1>16. Len(gap) + 2 \in 1 .. Len(s) + 1
  <2>1. PICK L \in Nat : L = Len(s)
    BY <1>6
  <2>2. g + 1 \in 1 .. L
    BY <1>12, <2>1
  <2>3. g + 2 \in 1 .. L + 1
    BY <2>2
  <2>. QED
    BY <1>11, <2>1, <2>3
<1>17. ASSUME fields = <<>> PROVE Get(s, Len(gap) + 2) = "}"
  <2>1. flat = <<>>
    <3>1. PartsOf(fields, gap) = <<>> /\ PartsOf(fields, gap) \in Seq(Seq(Token))
      BY <1>17, PartsOfObject DEF PartsOf
    <3>2. PICK parts \in Seq(Seq(Token)) : parts = PartsOf(fields, gap) /\ parts = <<>> /\ Len(parts) = 0
      BY <3>1
    <3>3. PICK f : f[0] = <<>> /\ FlattenSeq(parts) = f[Len(parts)]
      BY Flattened
    <3>. QED
      BY <1>1, <3>2, <3>3
  <2>2. Len(a2) = g + 1
    <3>1. Len(flat) = 0
      BY <2>1
    <3>. QED
      BY <1>4, <1>5, <3>1
  <2>3. HasAt(s, g + 2, <<d>>)
    <3>1. tail = <<d>>
      BY <1>0a, <1>0b, <1>17
    <3>2. 1 + Len(a2) = g + 2
      BY <2>2
    <3>. QED
      BY <1>8, <3>1, <3>2
  <2>4. Get(s, g + 2) = d
    BY <1>6, <1>11, <2>3, HasFirst
  <2>. QED
    BY <1>0, <1>11, <2>4
<1>. QED
  BY <1>2, <1>6, <1>14, <1>15, <1>16, <1>17 DEF LaidObject

\* What is found from the field on whose text is from i to j.
FoundAt(s, fields, gap, name, i, j, k) ==
    LET key == fields[k].key
        value == fields[k].value
    IN  /\ Finding(s, name)[i] =
              IF ~ReadAs(key).ok THEN 0
              ELSE IF ReadAs(key).text = name THEN ValuePlace(i, key, gap)
              ELSE IF k < Len(fields) THEN Finding(s, name)[j] ELSE 0
        /\ ValuePlace(i, key, gap) \in Nat \ {0}
        /\ HasAt(s, ValuePlace(i, key, gap), ValueText(value))
        /\ Get(s, ValuePlace(i, key, gap) + Len(ValueText(value))) \notin ScalarBytes

LEMMA FoundAtField ==
    ASSUME NEW s \in Seq(Token), NEW fields, IsObject(fields), NEW gap, IsGap(gap), NEW name,
           NEW p, LaidObject(s, fields, gap, p), NEW k \in 1 .. Len(fields)
    PROVE  FoundAt(s, fields, gap, name, p[k - 1], p[k], k)
<1>1. PICK n \in Nat : n = Len(fields) /\ n = Len(PartsOf(fields, gap))
  BY PartsOfObject
<1>2. k \in 1 .. n /\ k - 1 \in 0 .. n /\ k \in 0 .. n
  BY <1>1
<1>3. PICK i \in Nat, j \in Nat : i = p[k - 1] /\ j = p[k]
  <2>1. p \in [0 .. n -> Nat]
    BY <1>1 DEF LaidObject, Laid
  <2>. QED
    BY <1>2, <2>1
<1>4. PICK key, value : key = fields[k].key /\ value = fields[k].value
  OBVIOUS
<1>4a. IsString(key) /\ IsValue(value)
  BY <1>4, PartsOfObject
<1>4b. PICK sep : sep = SepOf(fields, k)
  OBVIOUS
<1>4c. sep \in Ends /\ (sep = "," <=> k < n)
  BY <1>1, <1>4b DEF SepOf, Ends
<1>5. HasAt(s, i, PartText(key, value, gap, sep)) /\ j = i + Len(PartText(key, value, gap, sep))
  <2>1. HasAt(s, p[k - 1], PartsOf(fields, gap)[k]) /\ p[k] = p[k - 1] + Len(PartsOf(fields, gap)[k])
    BY <1>1, <1>2 DEF LaidObject, Laid
  <2>2. PartsOf(fields, gap)[k] = PartText(key, value, gap, sep)
    BY <1>4, <1>4b, PartsOfObject
  <2>. QED
    BY <1>3, <2>1, <2>2
<1>6. /\ i \in 1 .. Len(s)
      /\ IsFieldAt(s, i) <=> ReadAs(key).ok
      /\ KeyText(s, i) = ReadAs(key).text
      /\ ValueAt(s, i) = ValuePlace(i, key, gap) /\ ValuePlace(i, key, gap) \in Nat \ {0}
      /\ HasAt(s, ValuePlace(i, key, gap), ValueText(value))
      /\ Get(s, ValuePlace(i, key, gap) + Len(ValueText(value))) \notin ScalarBytes
      /\ GoesOn(s, i) <=> sep = ","
      /\ AfterAt(s, i) + 1 = i + Len(PartText(key, value, gap, sep))
  <2>1. HasAt(s, i, PartText(key, value, gap, sep))
    BY <1>5
  <2>2. IsString(key)
    BY <1>4a
  <2>3. IsValue(value)
    BY <1>4a
  <2>4. sep \in Ends
    BY <1>4c
  <2>5. i \in Nat
    BY <1>3
  <2>6. FieldScanned(s, i, gap, key, value, sep)
    BY <2>1, <2>2, <2>3, <2>4, <2>5, FieldIsScanned
  <2>. QED
    BY <2>6 DEF FieldScanned
<1>7. Finding(s, name)[i] = FindingStep(s, name, i, Finding(s, name))
  <2>1. PICK L \in Nat : L = Len(s)
    OBVIOUS
  <2>2. i \in 1 .. L
    BY <1>6, <2>1
  <2>3. i \in 1 .. L + 1
    BY <2>2
  <2>. QED
    BY <2>1, <2>3, Finds
<1>8. Finding(s, name)[i] =
         IF ~ReadAs(key).ok THEN 0
         ELSE IF ReadAs(key).text = name THEN ValuePlace(i, key, gap)
         ELSE IF k < n THEN Finding(s, name)[j] ELSE 0
  BY <1>4c, <1>5, <1>6, <1>7 DEF FindingStep
<1>. QED
  BY <1>1, <1>3, <1>4, <1>6, <1>8 DEF FoundAt

HasName(key, name) == ReadAs(key).ok /\ ReadAs(key).text = name
HasOther(key, name) == ReadAs(key).ok /\ ReadAs(key).text # name

\* The fields before it are passed by.
LEMMA FieldsPassed ==
    ASSUME NEW s \in Seq(Token), NEW fields, IsObject(fields), NEW gap, IsGap(gap), NEW name,
           NEW p, LaidObject(s, fields, gap, p), NEW k \in 1 .. Len(fields),
           \A j \in 1 .. k - 1 : HasOther(fields[j].key, name)
    PROVE  find_json_field_value(s, name) = Finding(s, name)[p[k - 1]]
<1>1. PICK N \in Nat : N = k - 1 /\ N < Len(fields) /\ Len(fields) \in Nat
  <2>1. Len(fields) \in Nat
    BY PartsOfObject
  <2>. QED
    BY <2>1
<1>. DEFINE Same(n) == Finding(s, name)[p[n]] = Finding(s, name)[p[0]]
<1>2. PICK P : P = {n \in 0 .. N : Same(n)}
  OBVIOUS
<1>3. 0 \in P
  BY <1>2
<1>4. ASSUME NEW n \in 0 .. N - 1, n \in P PROVE n + 1 \in P
  <2>1. n + 1 \in 1 .. Len(fields) /\ (n + 1) - 1 = n /\ n + 1 \in 1 .. k - 1 /\ n + 1 \in 0 .. N
        /\ n + 1 < Len(fields)
    BY <1>1
  <2>2. PICK m : m = n + 1 /\ m \in 1 .. Len(fields) /\ m - 1 = n /\ m < Len(fields) /\ m \in 0 .. N
                 /\ HasOther(fields[m].key, name)
    BY <2>1
  <2>3. FoundAt(s, fields, gap, name, p[m - 1], p[m], m)
    BY <2>2, FoundAtField
  <2>4. Finding(s, name)[p[m - 1]] = Finding(s, name)[p[m]]
    BY <2>2, <2>3 DEF FoundAt, HasOther
  <2>5. Same(n)
    BY <1>2, <1>4
  <2>6. Same(m)
    BY <2>2, <2>4, <2>5
  <2>. QED
    BY <1>2, <2>2, <2>6
<1>5. \A n \in 0 .. N : n \in P
  BY <1>3, <1>4, Induct, Zenon
<1>6. Same(N)
  <2>1. N \in 0 .. N
    BY <1>1
  <2>. QED
    BY <1>2, <1>5, <2>1
<1>7. p[0] = Len(gap) + 2 /\ find_json_field_value(s, name) = Finding(s, name)[Len(gap) + 2]
  BY DEF LaidObject, Laid
<1>. QED
  BY <1>1, <1>6, <1>7

\* The first field that a name reads as is found, if all before it are passed by.
LEMMA FieldIsFound ==
    ASSUME NEW s \in Seq(Token), NEW fields, IsObject(fields), NEW gap, IsGap(gap), NEW name,
           NEW p, LaidObject(s, fields, gap, p), NEW k \in 1 .. Len(fields),
           \A j \in 1 .. k - 1 : HasOther(fields[j].key, name), HasName(fields[k].key, name)
    PROVE  /\ find_json_field_value(s, name) \in Nat \ {0}
           /\ HasAt(s, find_json_field_value(s, name), ValueText(fields[k].value))
           /\ Get(s, find_json_field_value(s, name) + Len(ValueText(fields[k].value))) \notin ScalarBytes
<1>1. find_json_field_value(s, name) = Finding(s, name)[p[k - 1]]
  BY FieldsPassed
<1>2. FoundAt(s, fields, gap, name, p[k - 1], p[k], k)
  BY FoundAtField
<1>3. Finding(s, name)[p[k - 1]] = ValuePlace(p[k - 1], fields[k].key, gap)
  BY <1>2 DEF FoundAt, HasName
<1>. QED
  BY <1>1, <1>2, <1>3 DEF FoundAt

\* Nothing is found if no field is the first that the name reads as.
LEMMA FieldIsNotFound ==
    ASSUME NEW s \in Seq(Token), NEW fields, IsObject(fields), NEW gap, IsGap(gap), NEW name,
           NEW p, LaidObject(s, fields, gap, p),
           \A k \in 1 .. Len(fields) :
              HasName(fields[k].key, name) => \E j \in 1 .. k - 1 : ~HasOther(fields[j].key, name)
    PROVE  find_json_field_value(s, name) = 0
<1>1. PICK n \in Nat : n = Len(fields)
  BY PartsOfObject
<1>2. CASE n = 0
  <2>1. fields = <<>>
    <3>1. PICK S : fields \in Seq(S) /\ Len(fields) = 0
      BY <1>1, <1>2 DEF IsObject
    <3>. QED
      BY <3>1
  <2>2. PICK i \in Nat \ {0} : /\ i = Len(gap) + 2 /\ i \in 1 .. Len(s) + 1 /\ Get(s, i) = "}"
                               /\ find_json_field_value(s, name) = Finding(s, name)[i]
    <3>1. \A i \in 1 .. Len(s) + 1 : i \in Nat \ {0}
      OBVIOUS
    <3>. QED
      BY <2>1, <3>1 DEF LaidObject
  <2>3. skip_json_ws(s, i) = i
    <3>1. i \in Nat /\ i <= i /\ \A k \in i .. i - 1 : Get(s, k) \in Spaces
      OBVIOUS
    <3>2. Get(s, i) \notin Spaces
      BY <2>2, GapIsText
    <3>. QED
      BY <3>1, <3>2, NoSpaces, SkippedTo DEF skip_json_ws
  <2>4. ~IsFieldAt(s, i)
    BY <2>2, <2>3 DEF IsFieldAt, KeyAt, decode_json_string_bytes, NotText
  <2>5. Finding(s, name)[i] = FindingStep(s, name, i, Finding(s, name))
    BY <2>2, Finds
  <2>. QED
    BY <2>2, <2>4, <2>5 DEF FindingStep
<1>3. CASE n # 0 /\ \A k \in 1 .. n : HasOther(fields[k].key, name)
  <2>1. n \in 1 .. Len(fields) /\ \A j \in 1 .. n - 1 : HasOther(fields[j].key, name)
    BY <1>1, <1>3
  <2>2. find_json_field_value(s, name) = Finding(s, name)[p[n - 1]]
    BY <2>1, FieldsPassed
  <2>3. FoundAt(s, fields, gap, name, p[n - 1], p[n], n)
    BY <2>1, FoundAtField
  <2>4. HasOther(fields[n].key, name) /\ ~(n < Len(fields))
    BY <1>1, <1>3
  <2>. QED
    BY <2>2, <2>3, <2>4 DEF FoundAt, HasOther
<1>4. CASE \E k \in 1 .. n : ~HasOther(fields[k].key, name)
  <2>1. PICK T : T = {k \in 1 .. n : ~HasOther(fields[k].key, name)}
    OBVIOUS
  <2>2. T \subseteq Nat /\ T # {}
    BY <1>4, <2>1
  <2>3. PICK k \in T : \A m \in T : k <= m
    BY <2>2, Least
  <2>4. k \in 1 .. n /\ ~HasOther(fields[k].key, name)
    BY <2>1
  <2>5. ASSUME NEW j \in 1 .. k - 1 PROVE HasOther(fields[j].key, name)
    <3>1. j \in 1 .. n /\ ~(k <= j)
      BY <2>4
    <3>. QED
      BY <2>1, <2>3, <3>1
  <2>6. ~HasName(fields[k].key, name) /\ k \in 1 .. Len(fields)
    BY <1>1, <2>4, <2>5
  <2>7. find_json_field_value(s, name) = Finding(s, name)[p[k - 1]]
    BY <2>5, <2>6, FieldsPassed
  <2>8. FoundAt(s, fields, gap, name, p[k - 1], p[k], k)
    BY <2>6, FoundAtField
  <2>. QED
    BY <2>4, <2>6, <2>7, <2>8 DEF FoundAt, HasOther, HasName
<1>. QED
  BY <1>2, <1>3, <1>4

-----------------------------------------------------------------------------
(* The answers *)

\* The field is the first that the name reads as.
IsFirst(fields, name, k) ==
    /\ k \in 1 .. Len(fields) /\ HasName(fields[k].key, name)
    /\ \A j \in 1 .. k - 1 : HasOther(fields[j].key, name)

\* What the field's value is read as, and what is taken of it.
PassphraseOf(value) == IF value.is = "string" THEN ReadAs(value.pieces) ELSE NotText
BlobOf(value) == IF value.is = "nested" THEN [ok |-> TRUE, text |-> ValueText(value)] ELSE NotText

\* A text that stands somewhere is the part of the whole from there on.
LEMMA PartIs ==
    ASSUME NEW s \in Seq(Token), NEW i \in Nat, NEW text \in Seq(Token), HasAt(s, i, text)
    PROVE  SubSeq(s, i, (i + Len(text)) - 1) = text
<1>1. PICK n \in Nat, L \in Nat : n = Len(text) /\ L = Len(s) /\ DOMAIN s = 1 .. L
  OBVIOUS
<1>2. i # 0 /\ i + n <= L + 1 /\ \A k \in 1 .. n : Get(s, i + k - 1) = text[k]
  BY <1>1 DEF HasAt
<1>3. PICK m, sub : m = (i + n) - 1 /\ sub = SubSeq(s, i, m)
  OBVIOUS
<1>4. /\ m \in Int /\ i - 1 <= m /\ m <= L /\ m - i + 1 = n
  BY <1>2, <1>3
<1>5. sub \in Seq(Token) /\ Len(sub) = n /\ \A k \in 1 .. n : sub[k] = s[i + k - 1]
  BY <1>1, <1>2, <1>3, <1>4
<1>6. ASSUME NEW k \in 1 .. n PROVE sub[k] = text[k]
  <2>1. i + k - 1 \in 1 .. L
    BY <1>2
  <2>. QED
    BY <1>1, <1>2, <1>5, <2>1 DEF Get
<1>7. sub = text
  BY <1>1, <1>5, <1>6, SameSeq
<1>. QED
  BY <1>1, <1>3, <1>7

LEMMA ValueIsRead ==
    ASSUME NEW s \in Seq(Token), NEW w \in Nat, NEW value, IsValue(value),
           HasAt(s, w, ValueText(value)), Get(s, w + Len(ValueText(value))) \notin ScalarBytes
    PROVE  /\ decode_json_string_bytes(s, w) = PassphraseOf(value)
           /\ json_value_end(s, w) # 0
           /\ SubSeq(s, w, json_value_end(s, w) - 1) = ValueText(value)
           /\ IsStruct(ValueText(value)) <=> value.is = "nested"
<1>1. /\ json_value_end(s, w) = w + Len(ValueText(value)) /\ w \in 1 .. Len(s)
      /\ value.is = "string" => Get(s, w) = "\""
      /\ value.is = "nested" => Get(s, w) \in Opens
      /\ value.is \notin {"string", "nested"} => Get(s, w) \in {"1", "-", "true"}
  BY ValueIsScanned, Zenon
<1>2. PICK text \in Seq(Token), n \in Nat : text = ValueText(value) /\ n = Len(text)
  BY ValueIs
<1>3. json_value_end(s, w) # 0 /\ n # 0
  <2>3. PICK L \in Nat : L = Len(s)
    OBVIOUS
  <2>0. w \in 1 .. L
    BY <1>1, <2>3
  <2>1. json_value_end(s, w) = w + n /\ w # 0
    <3>1. w # 0
      BY <2>0, <2>3
    <3>2. json_value_end(s, w) = w + Len(ValueText(value)) /\ n = Len(ValueText(value))
      BY <1>1, <1>2
    <3>. QED
      BY <3>1, <3>2, Zenon
  <2>2. json_value_end(s, w) \in EndRange(s, w)
    BY ValueEndType
  <2>4. w + n \in {0} \union (w + 1 .. L + 1)
    BY <2>1, <2>2, <2>3 DEF EndRange
  <2>. QED
    BY <2>1, <2>4
<1>4. SubSeq(s, w, json_value_end(s, w) - 1) = text
  <2>1. SubSeq(s, w, (w + Len(text)) - 1) = text
    BY <1>2, PartIs
  <2>. QED
    BY <1>1, <1>2, <2>1
<1>5. Get(text, 1) = Get(s, w)
  <2>1. n >= 1 /\ 1 \in DOMAIN text
    BY <1>2, <1>3
  <2>2. HasAt(s, w, text)
    BY <1>2
  <2>. QED
    BY <1>2, <2>1, <2>2, HasTokens DEF Get
<1>6. IsStruct(text) <=> value.is = "nested"
  <2>1. IsStruct(text) <=> Get(s, w) \in Opens
    BY <1>5, Scalars DEF IsStruct
  <2>2. value.is # "nested" => Get(s, w) \in {"\"", "1", "-", "true"}
    BY <1>1
  <2>. QED
    BY <1>1, <2>1, <2>2, Scalars
<1>7. decode_json_string_bytes(s, w) = PassphraseOf(value)
  <2>1. CASE value.is = "string"
    <3>1. IsString(value.pieces) /\ HasAt(s, w, StringText(value.pieces))
      BY <2>1, ValueIs
    <3>. QED
      BY <2>1, <3>1, StringIsRead DEF PassphraseOf
  <2>2. CASE value.is # "string"
    <3>1. Get(s, w) # "\""
      BY <1>1, <2>2, Opening, Scalars
    <3>. QED
      BY <2>2, <3>1 DEF PassphraseOf, decode_json_string_bytes, NotText
  <2>. QED
    BY <2>1, <2>2
<1>. QED
  BY <1>2, <1>3, <1>4, <1>6, <1>7

LEMMA AnswerIsFields ==
    ASSUME NEW s \in Seq(Token), NEW fields, IsObject(fields), NEW gap, IsGap(gap), NEW name,
           NEW p, LaidObject(s, fields, gap, p), NEW k, IsFirst(fields, name, k)
    PROVE  /\ import_passphrase_from_json(s, name) = PassphraseOf(fields[k].value)
           /\ import_blob_from_json(s, name) = BlobOf(fields[k].value)
<1>1. k \in 1 .. Len(fields) /\ HasName(fields[k].key, name)
      /\ \A j \in 1 .. k - 1 : HasOther(fields[j].key, name)
  BY DEF IsFirst
<1>2. PICK w : w = find_json_field_value(s, name)
  OBVIOUS
<1>3. PICK value : value = fields[k].value /\ IsValue(value)
  BY <1>1, PartsOfObject
<1>4. /\ w \in Nat \ {0}
      /\ HasAt(s, w, ValueText(value)) /\ Get(s, w + Len(ValueText(value))) \notin ScalarBytes
  BY <1>1, <1>2, <1>3, FieldIsFound
<1>5. /\ decode_json_string_bytes(s, w) = PassphraseOf(value)
      /\ json_value_end(s, w) # 0
      /\ SubSeq(s, w, json_value_end(s, w) - 1) = ValueText(value)
      /\ IsStruct(ValueText(value)) <=> value.is = "nested"
  <2>1. w \in Nat
    BY <1>4
  <2>2. IsValue(value)
    BY <1>3
  <2>. QED
    BY <1>4, <2>1, <2>2, ValueIsRead
<1>6. import_passphrase_from_json(s, name) = PassphraseOf(value)
  BY <1>2, <1>4, <1>5 DEF import_passphrase_from_json
<1>7. import_blob_from_json(s, name) = BlobOf(value)
  <2>1. import_blob_from_json(s, name) =
           IF IsStruct(ValueText(value)) THEN [ok |-> TRUE, text |-> ValueText(value)] ELSE NotText
    BY <1>2, <1>4, <1>5 DEF import_blob_from_json
  <2>. QED
    BY <1>5, <2>1 DEF BlobOf
<1>. QED
  BY <1>3, <1>6, <1>7

LEMMA AnswerIsNone ==
    ASSUME NEW s \in Seq(Token), NEW fields, IsObject(fields), NEW gap, IsGap(gap), NEW name,
           NEW p, LaidObject(s, fields, gap, p), \A k : ~IsFirst(fields, name, k)
    PROVE  import_passphrase_from_json(s, name) = NotText /\ import_blob_from_json(s, name) = NotText
<1>1. ASSUME NEW k \in 1 .. Len(fields), HasName(fields[k].key, name)
      PROVE  \E j \in 1 .. k - 1 : ~HasOther(fields[j].key, name)
  BY <1>1 DEF IsFirst
<1>2. find_json_field_value(s, name) = 0
  BY <1>1, FieldIsNotFound
<1>. QED
  BY <1>2 DEF import_passphrase_from_json, import_blob_from_json

\* What is found in a text that is cut off is found in the whole.
LEMMA FoundInCut ==
    ASSUME NEW s \in Seq(Token), NEW t \in Seq(Token), IsCut(t, s), NEW name,
           find_json_field_value(t, name) # 0, Get(t, find_json_field_value(t, name)) # "end"
    PROVE  find_json_field_value(s, name) = find_json_field_value(t, name)
<1>1. PICK q : q = skip_json_ws(t, 1)
  OBVIOUS
<1>2. Get(t, q) = "{" /\ find_json_field_value(t, name) = Finding(t, name)[q + 1]
  BY <1>1 DEF find_json_field_value
<1>3. Get(t, q) # "end"
  BY <1>2
<1>4. skip_json_ws(s, 1) = q
  <2>1. 1 \in Nat \ {0} /\ Get(t, SkipAll(t, 1, Spaces)) # "end"
    BY <1>1, <1>3 DEF skip_json_ws
  <2>. QED
    BY <1>1, <2>1, NoSpaces, SkippedInCut DEF skip_json_ws
<1>5. Get(s, q) = "{"
  BY <1>2, <1>3 DEF IsCut
<1>6. find_json_field_value(s, name) = Finding(s, name)[q + 1]
  BY <1>4, <1>5 DEF find_json_field_value
<1>7. q + 1 \in 1 .. Len(t) + 1
  <2>1. PICK L \in Nat : L = Len(t) /\ DOMAIN t = 1 .. L
    OBVIOUS
  <2>2. q \in 1 .. L
    BY <1>3, <2>1 DEF Get
  <2>3. q + 1 \in 1 .. L + 1
    BY <2>2
  <2>. QED
    BY <2>1, <2>3
<1>8. \A i \in 1 .. Len(t) + 1 :
         Finding(t, name)[i] # 0 /\ Get(t, Finding(t, name)[i]) # "end" =>
            Finding(s, name)[i] = Finding(t, name)[i]
  BY FindingInCut, Zenon
<1>9. PICK r : r = q + 1 /\ r \in 1 .. Len(t) + 1
  BY <1>7
<1>. QED
  BY <1>2, <1>6, <1>8, <1>9

\* t is the start of s.
IsStart(t, s) == Len(t) <= Len(s) /\ \A k \in 1 .. Len(t) : t[k] = s[k]

LEMMA StartIsCut ==
    ASSUME NEW s \in Seq(Token), NEW t \in Seq(Token), IsStart(t, s)
    PROVE  IsCut(t, s)
<1>1. PICK L \in Nat, M \in Nat : L = Len(t) /\ DOMAIN t = 1 .. L /\ M = Len(s) /\ DOMAIN s = 1 .. M
  OBVIOUS
<1>2. L <= M /\ \A k \in 1 .. L : t[k] = s[k]
  BY <1>1 DEF IsStart
<1>3. ASSUME NEW k, Get(t, k) # "end" PROVE Get(s, k) = Get(t, k)
  <2>1. k \in 1 .. L /\ Get(t, k) = t[k]
    BY <1>1, <1>3 DEF Get
  <2>2. k \in 1 .. M
    BY <1>1, <1>2, <2>1
  <2>. QED
    BY <1>1, <1>2, <2>1, <2>2 DEF Get
<1>. QED
  BY <1>1, <1>2, <1>3 DEF IsCut

LEMMA AnswerInCut ==
    ASSUME NEW s \in Seq(Token), NEW t \in Seq(Token), IsStart(t, s), NEW name
    PROVE  /\ import_passphrase_from_json(t, name).ok =>
                 import_passphrase_from_json(s, name) = import_passphrase_from_json(t, name)
           /\ import_blob_from_json(t, name).ok =>
                 import_blob_from_json(s, name) = import_blob_from_json(t, name)
<1>1. PICK w : w = find_json_field_value(t, name)
  OBVIOUS
<1>2. ~NotText.ok /\ IsCut(t, s)
  BY StartIsCut DEF NotText
<1>3. ASSUME import_passphrase_from_json(t, name).ok
      PROVE  import_passphrase_from_json(s, name) = import_passphrase_from_json(t, name)
  <2>1. w # 0 /\ import_passphrase_from_json(t, name) = decode_json_string_bytes(t, w)
        /\ decode_json_string_bytes(t, w).ok
    BY <1>1, <1>2, <1>3 DEF import_passphrase_from_json
  <2>2. Get(t, w) = "\""
    BY <1>2, <2>1 DEF decode_json_string_bytes
  <2>3. w \in Nat
    <3>1. w \in DOMAIN t
      BY <2>2 DEF Get
    <3>. QED
      BY <3>1
  <2>4. find_json_field_value(s, name) = w
    BY <1>1, <1>2, <2>1, <2>2, FoundInCut
  <2>5. decode_json_string_bytes(s, w) = decode_json_string_bytes(t, w)
    BY <1>2, <2>1, <2>3, StringInCut
  <2>. QED
    BY <2>1, <2>4, <2>5 DEF import_passphrase_from_json
<1>4. ASSUME import_blob_from_json(t, name).ok
      PROVE  import_blob_from_json(s, name) = import_blob_from_json(t, name)
  <2>1. PICK e, text : /\ w # 0 /\ e = json_value_end(t, w) /\ e # 0
                       /\ text = SubSeq(t, w, e - 1) /\ IsStruct(text)
                       /\ import_blob_from_json(t, name) = [ok |-> TRUE, text |-> text]
    BY <1>1, <1>2, <1>4 DEF import_blob_from_json
  <2>2. w \in Nat
    <3>1. w \in DOMAIN t
      BY <2>1 DEF json_value_end, Get
    <3>. QED
      BY <3>1
  <2>3. w \in 1 .. Len(t) /\ Get(t, w) # "end" /\ e \in EndRange(t, w)
    BY <2>1, <2>2, ValueEndType
  <2>4. PICK L \in Nat, M \in Nat : /\ L = Len(t) /\ DOMAIN t = 1 .. L /\ M = Len(s) /\ DOMAIN s = 1 .. M
                                    /\ L <= M
    BY DEF IsStart
  <2>5. w \in 1 .. L /\ e \in w + 1 .. L + 1 /\ L \in Nat
    BY <2>1, <2>3, <2>4 DEF EndRange
  <2>6. PICK m, n \in Nat : m = e - 1 /\ m \in w .. L /\ n = m - w + 1 /\ n >= 1
    <3>1. e \in Nat /\ w \in Nat /\ w < e /\ e <= L + 1
      BY <2>5
    <3>2. e - 1 \in Nat /\ e - 1 \in w .. L /\ (e - 1) - w + 1 \in Nat /\ (e - 1) - w + 1 >= 1
      BY <2>5, <3>1
    <3>. QED
      BY <3>2
  <2>7. text \in Seq(Token) /\ Len(text) = n /\ \A k \in 1 .. n : text[k] = t[w + k - 1]
    <3>1. text = SubSeq(t, w, m) /\ w \in 1 .. L + 1 /\ m \in w .. L
      BY <2>1, <2>5, <2>6
    <3>. QED
      BY <2>4, <2>6, <3>1
  <2>8. PICK more : more = SubSeq(s, w, m)
    OBVIOUS
  <2>9. more \in Seq(Token) /\ Len(more) = n /\ \A k \in 1 .. n : more[k] = s[w + k - 1]
    BY <2>4, <2>5, <2>6, <2>8
  <2>10. \A k \in 1 .. L : s[k] = t[k]
    BY <2>4 DEF IsStart
  <2>11. more = text
    <3>1. ASSUME NEW k \in 1 .. n PROVE more[k] = text[k]
      <4>1. w + k - 1 \in 1 .. L
        BY <2>5, <2>6
      <4>. QED
        BY <2>7, <2>9, <2>10, <4>1
    <3>. QED
      BY <2>7, <2>9, <3>1, SameSeq
  <2>12. Get(t, w) \in Opens
    <3>1. Get(text, 1) = text[1] /\ text[1] = t[w]
      <4>1. 1 \in DOMAIN text /\ 1 \in 1 .. n /\ w + 1 - 1 = w
        BY <2>5, <2>6, <2>7
      <4>. QED
        BY <2>7, <4>1 DEF Get
    <3>2. Get(t, w) = t[w]
      BY <2>4, <2>5 DEF Get
    <3>. QED
      BY <2>1, <3>1, <3>2, Scalars DEF IsStruct
  <2>13. json_value_end(s, w) = e
    BY <1>2, <2>1, <2>2, <2>12, ValueEndInCut
  <2>14. find_json_field_value(s, name) = w
    BY <1>1, <1>2, <2>1, <2>3, FoundInCut
  <2>. QED
    BY <2>1, <2>6, <2>8, <2>11, <2>13, <2>14 DEF import_blob_from_json
<1>. QED
  BY <1>3, <1>4

\* The text a string is read as, if it is: a set of at most one.
ReadsAs(pieces) == {text \in Means(pieces) : Len(text) <= MaxStdinSecret}

LEMMA ReadIs ==
    ASSUME NEW pieces, IsString(pieces)
    PROVE  ReadsAs(pieces) = IF ReadAs(pieces).ok THEN {ReadAs(pieces).text} ELSE {}
<1>1. CASE Means(pieces) = {}
  BY <1>1 DEF ReadsAs, ReadAs, NotText
<1>2. CASE Means(pieces) # {}
  <2>1. PICK text \in Seq(Token) : text = TextOf(pieces) /\ Means(pieces) = {text}
    BY <1>2, WhatItMeans
  <2>2. PICK n \in Nat : n = Len(text)
    OBVIOUS
  <2>3. CASE n <= MaxStdinSecret
    <3>1. ReadsAs(pieces) = {text}
      BY <2>1, <2>2, <2>3 DEF ReadsAs
    <3>2. ~(Len(TextOf(pieces)) > MaxStdinSecret)
      BY <2>1, <2>2, <2>3, ImportAssumption
    <3>3. ReadAs(pieces) = [ok |-> TRUE, text |-> TextOf(pieces)]
      BY <1>2, <3>2 DEF ReadAs
    <3>. QED
      BY <2>1, <3>1, <3>3
  <2>4. CASE ~(n <= MaxStdinSecret)
    <3>1. ReadsAs(pieces) = {}
      BY <2>1, <2>2, <2>4 DEF ReadsAs
    <3>2. Len(TextOf(pieces)) > MaxStdinSecret
      BY <2>1, <2>2, <2>4, ImportAssumption
    <3>3. ReadAs(pieces) = NotText
      BY <3>2 DEF ReadAs
    <3>. QED
      BY <3>1, <3>3 DEF NotText
  <2>. QED
    BY <2>3, <2>4
<1>. QED
  BY <1>1, <1>2

\* The fields a command is right to take, and what it is right to answer.
FirstOf(fields, name) ==
    {i \in DOMAIN fields :
       /\ ReadsAs(fields[i].key) = {name}
       /\ \A j \in 1 .. (i - 1) : ReadsAs(fields[j].key) \notin {{}, {name}}}
FieldsOf(fields, name, kind) == {i \in FirstOf(fields, name) : fields[i].value.is = kind}

LEMMA FirstIs ==
    ASSUME NEW fields, IsObject(fields), NEW name
    PROVE  /\ \A k : k \in FirstOf(fields, name) <=> IsFirst(fields, name, k)
           /\ \A i, j : IsFirst(fields, name, i) /\ IsFirst(fields, name, j) => i = j
<1>1. PICK n \in Nat : n = Len(fields) /\ DOMAIN fields = 1 .. n
  BY DEF IsObject
<1>2. ASSUME NEW k \in 1 .. n
      PROVE  /\ ReadsAs(fields[k].key) = {name} <=> HasName(fields[k].key, name)
             /\ ReadsAs(fields[k].key) \notin {{}, {name}} <=> HasOther(fields[k].key, name)
  <2>1. PICK key : key = fields[k].key /\ IsString(key)
    BY <1>1 DEF IsObject
  <2>2. ReadsAs(key) = IF ReadAs(key).ok THEN {ReadAs(key).text} ELSE {}
    BY <2>1, ReadIs
  <2>. QED
    BY <2>1, <2>2 DEF HasName, HasOther
<1>3. ASSUME NEW k PROVE k \in FirstOf(fields, name) <=> IsFirst(fields, name, k)
  <2>1. k \in 1 .. n => \A j \in 1 .. k - 1 : j \in 1 .. n
    OBVIOUS
  <2>. QED
    BY <1>1, <1>2, <2>1 DEF FirstOf, IsFirst
<1>4. ASSUME NEW i, NEW j, IsFirst(fields, name, i), IsFirst(fields, name, j) PROVE i = j
  <2>1. /\ i \in 1 .. n /\ HasName(fields[i].key, name)
        /\ j \in 1 .. n /\ HasName(fields[j].key, name)
        /\ \A k \in 1 .. i - 1 : HasOther(fields[k].key, name)
        /\ \A k \in 1 .. j - 1 : HasOther(fields[k].key, name)
    BY <1>1, <1>4 DEF IsFirst
  <2>2. ~HasOther(fields[i].key, name) /\ ~HasOther(fields[j].key, name)
    BY <2>1 DEF HasName, HasOther
  <2>3. i \notin 1 .. j - 1 /\ j \notin 1 .. i - 1
    BY <2>1, <2>2
  <2>. QED
    BY <2>1, <2>3
<1>. QED
  BY <1>3, <1>4

IsRight(got, wanted, cut) == IF got.ok THEN {got.text} = wanted ELSE wanted = {} \/ cut > 0

PassphraseIsRight(t, fields, name, cut) ==
    IsRight(import_passphrase_from_json(t, name),
            UNION {ReadsAs(fields[i].value.pieces) : i \in FieldsOf(fields, name, "string")}, cut)
BlobIsRight(t, fields, name, cut) ==
    IsRight(import_blob_from_json(t, name),
            {ValueText(fields[i].value) : i \in FieldsOf(fields, name, "nested")}, cut)
StartOf(s, cut) == SubSeq(s, 1, Len(s) - cut)

\* The start of an object's text gives what its fields are, or nothing.
LEMMA AnswersAreRight ==
    ASSUME NEW fields, IsObject(fields), NEW gap, IsGap(gap), NEW cut \in Nat, NEW name,
           NEW t, t = StartOf(ObjectText(fields, gap), cut)
    PROVE  PassphraseIsRight(t, fields, name, cut) /\ BlobIsRight(t, fields, name, cut)
<1>1. PICK s \in Seq(Token) : s = ObjectText(fields, gap) /\ \E p : LaidObject(s, fields, gap, p)
  BY ObjectIs
<1>2. PICK p : LaidObject(s, fields, gap, p)
  BY <1>1
<1>3. t \in Seq(Token) /\ IsStart(t, s) /\ (cut = 0 => t = s)
  <2>1. PICK L \in Nat : L = Len(s) /\ DOMAIN s = 1 .. L
    BY <1>1
  <2>2. PICK m \in Int : m = L - cut /\ m <= L /\ t = SubSeq(s, 1, m)
    BY <1>1, <2>1 DEF StartOf
  <2>3. CASE m >= 0
    <3>1. t \in Seq(Token) /\ Len(t) = m /\ \A k \in 1 .. m : t[k] = s[k]
      BY <2>1, <2>2, <2>3
    <3>2. IsStart(t, s)
      BY <2>1, <2>2, <3>1 DEF IsStart
    <3>3. ASSUME cut = 0 PROVE t = s
      <4>1. m = L
        BY <2>2, <3>3
      <4>. QED
        BY <2>1, <3>1, <4>1, SameSeq
    <3>. QED
      BY <3>1, <3>2, <3>3
  <2>4. CASE m < 0
    <3>1. t = <<>>
      BY <2>2, <2>4
    <3>2. cut # 0
      BY <2>1, <2>2, <2>4
    <3>3. <<>> \in Seq(Token) /\ Len(<<>>) = 0
      OBVIOUS
    <3>4. IsStart(<<>>, s)
      BY <2>1, <3>3 DEF IsStart
    <3>. QED
      BY <3>1, <3>2, <3>3, <3>4
  <2>. QED
    BY <2>3, <2>4
<1>4. /\ import_passphrase_from_json(t, name).ok \/ cut = 0 =>
            import_passphrase_from_json(s, name) = import_passphrase_from_json(t, name)
      /\ import_blob_from_json(t, name).ok \/ cut = 0 =>
            import_blob_from_json(s, name) = import_blob_from_json(t, name)
  BY <1>3, AnswerInCut
<1>5. ~NotText.ok
  BY DEF NotText
<1>6. cut > 0 <=> cut # 0
  OBVIOUS
<1>. DEFINE Phrases == {ReadsAs(fields[i].value.pieces) : i \in FieldsOf(fields, name, "string")}
            Blobs == {ValueText(fields[i].value) : i \in FieldsOf(fields, name, "nested")}
<1>7. /\ IF import_passphrase_from_json(s, name).ok
         THEN {import_passphrase_from_json(s, name).text} = UNION Phrases ELSE UNION Phrases = {}
      /\ IF import_blob_from_json(s, name).ok
         THEN {import_blob_from_json(s, name).text} = Blobs ELSE Blobs = {}
  <2>1. CASE \E k : IsFirst(fields, name, k)
    <3>1. PICK k : IsFirst(fields, name, k)
      BY <2>1
    <3>2. FirstOf(fields, name) = {k}
      BY <3>1, FirstIs
    <3>3. PICK value : value = fields[k].value /\ IsValue(value)
      BY <3>1, PartsOfObject DEF IsFirst
    <3>4. /\ import_passphrase_from_json(s, name) = PassphraseOf(value)
          /\ import_blob_from_json(s, name) = BlobOf(value)
      BY <1>2, <3>1, <3>3, AnswerIsFields
    <3>5. Phrases = IF value.is = "string" THEN {ReadsAs(value.pieces)} ELSE {}
      BY <3>2, <3>3 DEF FieldsOf
    <3>6. Blobs = IF value.is = "nested" THEN {ValueText(value)} ELSE {}
      BY <3>2, <3>3 DEF FieldsOf
    <3>7. value.is = "string" =>
             ReadsAs(value.pieces) = IF ReadAs(value.pieces).ok THEN {ReadAs(value.pieces).text} ELSE {}
      BY <3>3, ValueIs, ReadIs
    <3>. HIDE DEF Phrases, Blobs
    <3>8. IF PassphraseOf(value).ok THEN {PassphraseOf(value).text} = UNION Phrases ELSE UNION Phrases = {}
      <4>1. CASE value.is = "string"
        <5>1. UNION Phrases = ReadsAs(value.pieces) /\ PassphraseOf(value) = ReadAs(value.pieces)
          BY <3>5, <4>1 DEF PassphraseOf
        <5>. QED
          BY <3>7, <4>1, <5>1
      <4>2. CASE value.is # "string"
        <5>1. UNION Phrases = {} /\ PassphraseOf(value) = NotText
          BY <3>5, <4>2 DEF PassphraseOf
        <5>. QED
          BY <1>5, <5>1
      <4>. QED
        BY <4>1, <4>2
    <3>9. IF BlobOf(value).ok THEN {BlobOf(value).text} = Blobs ELSE Blobs = {}
      BY <1>5, <3>6 DEF BlobOf
    <3>. QED
      BY <3>4, <3>8, <3>9
  <2>2. CASE \A k : ~IsFirst(fields, name, k)
    <3>1. FirstOf(fields, name) = {}
      BY <2>2, FirstIs
    <3>2. Phrases = {} /\ Blobs = {}
      BY <3>1 DEF FieldsOf
    <3>3. import_passphrase_from_json(s, name) = NotText /\ import_blob_from_json(s, name) = NotText
      BY <1>2, <2>2, AnswerIsNone
    <3>. HIDE DEF Phrases, Blobs
    <3>. QED
      BY <1>5, <3>2, <3>3
  <2>. QED
    BY <2>1, <2>2
<1>. HIDE DEF Phrases, Blobs
<1>8. /\ IsRight(import_passphrase_from_json(t, name), UNION Phrases, cut)
      /\ IsRight(import_blob_from_json(t, name), Blobs, cut)
  BY <1>4, <1>6, <1>7 DEF IsRight
<1>. QED
  BY <1>8 DEF Phrases, Blobs, PassphraseIsRight, BlobIsRight

\* The reading of an import document is right: the passphrase and the blob are
\* those of the first fields with their names, whatever escapes, spaces and nested
\* values the document has, and from one that was cut off anywhere come the same
\* or nothing (find_json_field_value, import_passphrase_from_json,
\* import_blob_from_json).
THEOREM ImportIsExact == OneShotSpec => []ImportReadsItsFields
<1>1. ASSUME Ran, Answered("import") PROVE ImportReadsItsFields
  <2>1. input \in Documents /\ input.kind = "import"
    BY <1>1, KindOfInput DEF Answered
  <2>2. PICK fields, gap, cut, t :
            /\ fields = input.fields /\ gap = input.gap /\ cut = input.cut
            /\ t = StartOf(ObjectText(fields, gap), cut)
    OBVIOUS
  <2>3. IsObject(fields) /\ IsGap(gap) /\ cut \in Nat
    BY <2>1, <2>2, DocumentsAssumption DEF IsGap
  <2>4. answer = [passphrase |-> import_passphrase_from_json(t, <<"p">>),
                  blob |-> import_blob_from_json(t, <<"b">>)]
    BY <1>1, <2>1, <2>2 DEF Ran, Answered, DocumentText, StartOf
  <2>5. PassphraseIsRight(t, fields, <<"p">>, cut) /\ BlobIsRight(t, fields, <<"b">>, cut)
    BY <2>2, <2>3, AnswersAreRight
  <2>6. PassphraseIsRight(t, input.fields, <<"p">>, input.cut)
        /\ BlobIsRight(t, input.fields, <<"b">>, input.cut)
    BY <2>2, <2>5
  <2>7. /\ answer.passphrase = import_passphrase_from_json(t, <<"p">>)
        /\ answer.blob = import_blob_from_json(t, <<"b">>)
    BY <2>4
  <2>. QED
    BY <2>6, <2>7, Zenon
    DEF ImportReadsItsFields, PassphraseIsRight, BlobIsRight, IsRight, FieldsOf, FirstOf, ReadsAs
<1>2. Ran => ImportReadsItsFields
  BY <1>1 DEF ImportReadsItsFields
<1>. QED
  BY <1>2, RanInvariant, PTL
=============================================================================
