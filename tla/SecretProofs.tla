---------------------------- MODULE SecretProofs -----------------------------
(***************************************************************************)
(* Theorems about secrets at rest and secrets handed over.                 *)
(*                                                                         *)
(* Vault: for every set of machines, names, passphrases and records and    *)
(* any number of rows, exports and boxes, what is sealed opens as what it  *)
(* was and nowhere else.                                                   *)
(*                                                                         *)
(* Deliver: the deliverer holds a prefix of the request's secrets, all of  *)
(* them from the moment it hands them over; the pipe holds the part of the *)
(* frame that was written and not read, and the helper's step says how     *)
(* much of the frame it has read.                                          *)
(***************************************************************************)
EXTENDS Vault, Deliver, SequenceTheorems, WellFoundedInduction, TLAPS

-----------------------------------------------------------------------------
(* Sequences *)

IsSeq(s) == \E S : s \in Seq(S)

\* What Append does, whatever the sequence is made of.
LEMMA Appended ==
    ASSUME NEW s, IsSeq(s), NEW e
    PROVE  /\ IsSeq(Append(s, e))
           /\ Len(s) \in Nat /\ DOMAIN s = 1 .. Len(s)
           /\ Len(Append(s, e)) = Len(s) + 1
           /\ DOMAIN Append(s, e) = 1 .. Len(s) + 1
           /\ \A i \in 1 .. Len(s) : Append(s, e)[i] = s[i]
           /\ Append(s, e)[Len(s) + 1] = e
<1>1. PICK S : s \in Seq(S)
  BY DEF IsSeq
<1>2. s \in Seq(S \union {e})
  BY <1>1
<1>3. Append(s, e) \in Seq(S \union {e})
  BY <1>2
<1>. QED
  BY <1>2, <1>3 DEF IsSeq

\* And concatenation.
LEMMA Joined ==
    ASSUME NEW s, IsSeq(s), NEW t, IsSeq(t), NEW u, u = s \o t
    PROVE  /\ IsSeq(u)
           /\ Len(s) \in Nat /\ Len(t) \in Nat
           /\ Len(u) = Len(s) + Len(t)
           /\ \A i \in 1 .. Len(s) : u[i] = s[i]
           /\ \A i \in 1 .. Len(t) : u[i + Len(s)] = t[i]
<1>1. PICK S : s \in Seq(S)
  BY DEF IsSeq
<1>2. PICK T : t \in Seq(T)
  BY DEF IsSeq
<1>3. s \in Seq(S \union T) /\ t \in Seq(S \union T)
  BY <1>1, <1>2
<1>4. /\ s \o t \in Seq(S \union T)
      /\ Len(s \o t) = Len(s) + Len(t)
      /\ \A i \in 1 .. Len(s) + Len(t) :
            (s \o t)[i] = IF i <= Len(s) THEN s[i] ELSE t[i - Len(s)]
  BY <1>3, ConcatProperties
<1>5. ASSUME NEW i \in 1 .. Len(t) PROVE (s \o t)[i + Len(s)] = t[i]
  <2>1. i + Len(s) \in 1 .. Len(s) + Len(t) /\ ~(i + Len(s) <= Len(s))
    BY <1>3
  <2>2. (i + Len(s)) - Len(s) = i
    BY <1>3
  <2>. QED
    BY <1>4, <2>1, <2>2
<1>. QED
  BY <1>3, <1>4, <1>5 DEF IsSeq

\* Short sequences.
LEMMA Tuples ==
    ASSUME NEW a, NEW b, NEW c
    PROVE  /\ IsSeq(<<a>>) /\ Len(<<a>>) = 1 /\ <<a>>[1] = a
           /\ IsSeq(<<a, b>>) /\ Len(<<a, b>>) = 2 /\ <<a, b>>[2] = b
           /\ IsSeq(<<a, b, c>>) /\ Len(<<a, b, c>>) = 3 /\ <<a, b, c>>[3] = c
<1>1. <<a>> \in Seq({a, b, c}) /\ <<a, b>> \in Seq({a, b, c}) /\ <<a, b, c>> \in Seq({a, b, c})
  OBVIOUS
<1>. QED
  BY <1>1 DEF IsSeq

\* Sequences are their length and their elements.
LEMMA SameSeq ==
    ASSUME NEW s, IsSeq(s), NEW t, IsSeq(t), Len(s) = Len(t),
           \A i \in 1 .. Len(s) : s[i] = t[i]
    PROVE  s = t
<1>1. PICK S : s \in Seq(S)
  BY DEF IsSeq
<1>2. PICK T : t \in Seq(T)
  BY DEF IsSeq
<1>3. s \in Seq(S \union T) /\ t \in Seq(S \union T)
  BY <1>1, <1>2
<1>. QED
  BY <1>3

-----------------------------------------------------------------------------
(* Associated data *)

\* aad keeps the name, and is never empty.
LEMMA AadElements ==
    ASSUME NEW n, IsSeq(n)
    PROVE  /\ Len(n) \in Nat /\ Len(aad(n)) = Len(n) + 2
           /\ \A i \in 1 .. Len(n) : aad(n)[i] = n[i]
           /\ aad(n)[Len(aad(n))] = "1"
           /\ aad(n) # <<>>
<1>1. PICK t : t = <<WRAP_SCHEME, WRAP_META_VERSION>>
  OBVIOUS
<1>2. PICK u : u = aad(n)
  OBVIOUS
<1>3. IsSeq(t)
  BY <1>1, Tuples
<1>4. Len(t) = 2 /\ t[2] = "1"
  BY <1>1, Tuples DEF WRAP_META_VERSION
<1>5. u = n \o t
  BY <1>1, <1>2 DEF aad
<1>6. /\ Len(n) \in Nat /\ Len(u) = Len(n) + Len(t)
      /\ \A i \in 1 .. Len(n) : u[i] = n[i]
      /\ \A i \in 1 .. Len(t) : u[i + Len(n)] = t[i]
  BY <1>3, <1>5, Joined
<1>7. u[2 + Len(n)] = "1" /\ 2 + Len(n) = Len(u)
  BY <1>4, <1>6
<1>8. u # <<>>
  BY <1>4, <1>6
<1>. QED
  BY <1>2, <1>4, <1>6, <1>7, <1>8

LEMMA AadInjective ==
    ASSUME NEW n1, IsSeq(n1), NEW n2, IsSeq(n2), aad(n1) = aad(n2)
    PROVE  n1 = n2
<1>1. Len(n1) = Len(n2)
  BY AadElements
<1>2. \A i \in 1 .. Len(n1) : n1[i] = n2[i]
  BY <1>1, AadElements
<1>. QED
  BY <1>1, <1>2, SameSeq

\* The record of protected_record_aad: one token, or "keypair" and a key.
RecordPart(meta) ==
    IF meta.record_meta = <<>> THEN <<"null">>
    ELSE [i \in DOMAIN meta.record_meta |-> to_ascii_lowercase(meta.record_meta[i])]

LEMMA RecordPartShape ==
    ASSUME NEW meta, meta.record_meta \in Seq(STRING), RecordMeta(meta.record_meta)
    PROVE  /\ IsSeq(RecordPart(meta))
           /\ \/ Len(RecordPart(meta)) = 1
              \/ Len(RecordPart(meta)) = 2 /\ RecordPart(meta)[1] = "keypair"
<1>0. PICK r : r = meta.record_meta
  OBVIOUS
<1>1. CASE r = <<>>
  BY <1>0, <1>1, Tuples DEF RecordPart
<1>2. CASE r # <<>>
  <2> DEFINE f == [i \in 1 .. Len(r) |-> to_ascii_lowercase(r[i])]
             S == {to_ascii_lowercase(r[i]) : i \in 1 .. Len(r)}
  <2>0. r \in Seq(STRING) /\ Len(r) \in Nat /\ DOMAIN r = 1 .. Len(r)
    BY <1>0
  <2>1. RecordPart(meta) = f
    BY <1>0, <1>2, <2>0 DEF RecordPart
  <2>2. f \in Seq(S) /\ Len(f) = Len(r)
    BY <2>0
  <2>3. Len(r) = 1 \/ (Len(r) = 2 /\ r[1] = "keypair")
    BY <1>0, <1>2 DEF RecordMeta
  <2>4. Len(r) = 2 /\ r[1] = "keypair" => f[1] = "keypair"
    BY DEF to_ascii_lowercase
  <2> HIDE DEF f, S
  <2>. QED
    BY <2>1, <2>2, <2>3, <2>4 DEF IsSeq
<1>. QED
  BY <1>1, <1>2

\* A sequence put together as protected_record_aad is: where the name, the quote
\* that ends it and the record are in it.
Parts(h, q, n, r, t) ==
    /\ IsSeq(h) /\ Len(h) = 1
    /\ IsSeq(q) /\ Len(q) = 1 /\ q[1] = "quote"
    /\ IsSeq(n)
    /\ IsSeq(r) /\ Len(r) \in 1 .. 2
    /\ IsSeq(t) /\ Len(t) = 3 /\ t[3] = "end"

Together(h, q, n, r, t) == h \o (q \o n \o q) \o r \o t

LaidOut(P, n, r) ==
    /\ Len(n) \in Nat
    /\ Len(P) = Len(n) + Len(r) + 6
    /\ \A i \in 1 .. Len(n) : P[i + 2] = n[i]
    /\ P[Len(n) + 3] = "quote"
    /\ P[Len(n) + 4] = r[1]
    /\ P[Len(P)] = "end"

LEMMA Layout ==
    ASSUME NEW h, NEW q, NEW n, NEW r, NEW t, Parts(h, q, n, r, t),
           NEW P, P = Together(h, q, n, r, t)
    PROVE  LaidOut(P, n, r)
<1>3. PICK qn : qn = q \o n
  OBVIOUS
<1>4. PICK J : J = qn \o q
  OBVIOUS
<1>5. PICK hj : hj = h \o J
  OBVIOUS
<1>6. PICK hjr : hjr = hj \o r
  OBVIOUS
<1>7. P = hjr \o t
  BY <1>3, <1>4, <1>5, <1>6 DEF Together
<1>8. Len(h) = 1 /\ Len(q) = 1 /\ q[1] = "quote" /\ Len(t) = 3 /\ t[3] = "end"
  BY DEF Parts
<1>9. IsSeq(h)
  BY DEF Parts
<1>10. IsSeq(q)
  BY DEF Parts
<1>26. IsSeq(n)
  BY DEF Parts
<1>27. IsSeq(r)
  BY DEF Parts
<1>28. IsSeq(t)
  BY DEF Parts
<1>11. Len(r) \in 1 .. 2
  BY DEF Parts
<1>12. IsSeq(qn)
  BY <1>3, <1>10, <1>26, Joined, Zenon
<1>13. IsSeq(J)
  BY <1>4, <1>10, <1>12, Joined, Zenon
<1>14. IsSeq(hj)
  BY <1>5, <1>9, <1>13, Joined, Zenon
<1>15. IsSeq(hjr)
  BY <1>6, <1>14, <1>27, Joined, Zenon
<1>16. /\ Len(n) \in Nat /\ Len(qn) = Len(q) + Len(n)
       /\ \A i \in 1 .. Len(n) : qn[i + Len(q)] = n[i]
  BY <1>3, <1>10, <1>26, Joined
<1>17. /\ Len(J) = Len(qn) + Len(q)
       /\ \A i \in 1 .. Len(qn) : J[i] = qn[i]
       /\ \A i \in 1 .. Len(q) : J[i + Len(qn)] = q[i]
  BY <1>4, <1>10, <1>12, Joined
<1>18. /\ Len(hj) = Len(h) + Len(J)
       /\ \A i \in 1 .. Len(J) : hj[i + Len(h)] = J[i]
  BY <1>5, <1>9, <1>13, Joined
<1>19. /\ Len(hjr) = Len(hj) + Len(r)
       /\ \A i \in 1 .. Len(hj) : hjr[i] = hj[i]
       /\ \A i \in 1 .. Len(r) : hjr[i + Len(hj)] = r[i]
  BY <1>6, <1>14, <1>27, Joined
<1>20. /\ Len(P) = Len(hjr) + Len(t)
       /\ \A i \in 1 .. Len(hjr) : P[i] = hjr[i]
       /\ \A i \in 1 .. Len(t) : P[i + Len(hjr)] = t[i]
  BY <1>7, <1>15, <1>28, Joined
<1>21. /\ Len(n) \in Nat /\ Len(qn) = Len(n) + 1 /\ Len(J) = Len(n) + 2
       /\ Len(hj) = Len(n) + 3 /\ Len(hjr) = Len(n) + Len(r) + 3
       /\ Len(P) = Len(n) + Len(r) + 6
  <2>1. Len(n) \in Nat /\ Len(qn) = Len(n) + 1
    BY <1>8, <1>16
  <2>2. Len(J) = Len(n) + 2
    BY <1>8, <1>17, <2>1
  <2>3. Len(hj) = Len(n) + 3
    BY <1>8, <1>18, <2>1, <2>2
  <2>4. Len(hjr) = Len(n) + Len(r) + 3
    BY <1>11, <1>19, <2>1, <2>3
  <2>5. Len(P) = Len(n) + Len(r) + 6
    BY <1>8, <1>11, <1>20, <2>1, <2>4
  <2>. QED
    BY <2>1, <2>2, <2>3, <2>4, <2>5
<1>22. ASSUME NEW i \in 1 .. Len(n) PROVE P[i + 2] = n[i]
  <2>1. qn[i + 1] = n[i]
    BY <1>8, <1>16
  <2>2. J[i + 1] = qn[i + 1]
    BY <1>17, <1>21
  <2>3. i + 1 \in 1 .. Len(J)
    BY <1>21
  <2>5. hj[(i + 1) + 1] = J[i + 1]
    BY <1>8, <1>18, <2>3
  <2>4. i + 2 = (i + 1) + 1 /\ i + 2 \in 1 .. Len(hj) /\ i + 2 \in 1 .. Len(hjr)
    BY <1>11, <1>21
  <2>. QED
    BY <1>19, <1>20, <2>1, <2>2, <2>4, <2>5
<1>23. P[Len(n) + 3] = "quote"
  <2>0. 1 + Len(qn) = Len(n) + 2
    BY <1>21
  <2>1. J[1 + Len(qn)] = "quote" /\ 1 + Len(qn) = Len(n) + 2
    BY <1>8, <1>17, <2>0
  <2>2. Len(n) + 2 \in 1 .. Len(J)
    BY <1>21
  <2>3. hj[(Len(n) + 2) + 1] = J[Len(n) + 2]
    BY <1>8, <1>18, <2>2
  <2>4. (Len(n) + 2) + 1 = Len(n) + 3 /\ Len(n) + 3 \in 1 .. Len(hj)
        /\ Len(n) + 3 \in 1 .. Len(hjr)
    BY <1>11, <1>21
  <2>. QED
    BY <1>19, <1>20, <2>1, <2>3, <2>4
<1>24. P[Len(n) + 4] = r[1]
  <2>1. 1 \in 1 .. Len(r)
    BY <1>11
  <2>2. 1 + Len(hj) = Len(n) + 4
    BY <1>21
  <2>3. Len(n) + 4 \in 1 .. Len(hjr)
    <3>1. Len(n) \in Nat /\ Len(hjr) = Len(n) + Len(r) + 3
      BY <1>21
    <3>2. \A k \in Nat, l \in 1 .. 2 : k + 4 \in 1 .. k + l + 3
      OBVIOUS
    <3>. QED
      BY <1>11, <3>1, <3>2
  <2>. QED
    BY <1>19, <1>20, <2>1, <2>2, <2>3
<1>25. P[Len(P)] = "end"
  <2>1. 3 \in 1 .. Len(t)
    BY <1>8
  <2>2. 3 + Len(hjr) = Len(P)
    BY <1>11, <1>21
  <2>. QED
    BY <1>8, <1>20, <2>1, <2>2
<1>. QED
  BY <1>21, <1>22, <1>23, <1>24, <1>25 DEF LaidOut

LEMMA RecordElements ==
    ASSUME NEW n, IsSeq(n), NEW meta,
           meta.record_meta \in Seq(STRING), RecordMeta(meta.record_meta)
    PROVE  LaidOut(protected_record_aad(n, meta), n, RecordPart(meta))
<1>1. PICK h, q, t : /\ h = <<"avault:protected-record:aad:v2">> /\ q = <<"quote">>
                     /\ t = <<meta.scheme, meta.v, "end">>
  OBVIOUS
<1>2. PICK r : r = RecordPart(meta)
  OBVIOUS
<1>3. protected_record_aad(n, meta) = Together(h, q, n, r, t)
  BY <1>1, <1>2 DEF protected_record_aad, RecordPart, json_string, Together
<1>4. /\ Len(h) = 1 /\ Len(q) = 1 /\ q[1] = "quote" /\ Len(t) = 3 /\ t[3] = "end"
  BY <1>1
<1>5. IsSeq(h)
  BY <1>1, Tuples
<1>6. IsSeq(q)
  BY <1>1, Tuples
<1>7. IsSeq(t)
  BY <1>1, Tuples
<1>8. IsSeq(r)
  BY <1>2, RecordPartShape
<1>9. Len(r) \in 1 .. 2
  BY <1>2, RecordPartShape
<1>10. Parts(h, q, n, r, t)
  BY <1>4, <1>5, <1>6, <1>7, <1>8, <1>9 DEF Parts
<1>. QED
  BY <1>2, <1>3, <1>10, Layout, Zenon

\* A record's associated data is never a value's.
LEMMA RecordIsNotAad ==
    ASSUME NEW n, IsSeq(n), NEW n2, IsSeq(n2), NEW meta,
           meta.record_meta \in Seq(STRING), RecordMeta(meta.record_meta)
    PROVE  protected_record_aad(n, meta) # aad(n2)
<1>1. aad(n2)[Len(aad(n2))] = "1"
  BY AadElements
<1>2. protected_record_aad(n, meta)[Len(protected_record_aad(n, meta))] = "end"
  BY RecordElements DEF LaidOut
<1>. QED
  BY <1>1, <1>2

\* And names one record only: a name cannot take the record's place in it.
LEMMA RecordInjective ==
    ASSUME NEW n1, IsSeq(n1), NEW m1,
           m1.record_meta \in Seq(STRING), RecordMeta(m1.record_meta),
           NEW n2, IsSeq(n2), NEW m2,
           m2.record_meta \in Seq(STRING), RecordMeta(m2.record_meta),
           protected_record_aad(n1, m1) = protected_record_aad(n2, m2)
    PROVE  n1 = n2
<1> DEFINE P1 == protected_record_aad(n1, m1)
           P2 == protected_record_aad(n2, m2)
           R1 == RecordPart(m1)
           R2 == RecordPart(m2)
<1>1. /\ Len(n1) \in Nat /\ Len(P1) = Len(n1) + Len(R1) + 6
      /\ \A i \in 1 .. Len(n1) : P1[i + 2] = n1[i]
      /\ P1[Len(n1) + 3] = "quote" /\ P1[Len(n1) + 4] = R1[1]
  BY RecordElements DEF LaidOut
<1>2. /\ Len(n2) \in Nat /\ Len(P2) = Len(n2) + Len(R2) + 6
      /\ \A i \in 1 .. Len(n2) : P2[i + 2] = n2[i]
      /\ P2[Len(n2) + 3] = "quote" /\ P2[Len(n2) + 4] = R2[1]
  BY RecordElements DEF LaidOut
<1>3. /\ Len(R1) = 1 \/ (Len(R1) = 2 /\ R1[1] = "keypair")
      /\ Len(R2) = 1 \/ (Len(R2) = 2 /\ R2[1] = "keypair")
  BY RecordPartShape
<1>4. P1 = P2
  OBVIOUS
<1> HIDE DEF P1, P2, R1, R2
<1>5. Len(n1) = Len(n2)
  <2>1. CASE Len(R1) = 1 /\ Len(R2) = 2
    <3>1. Len(n1) = Len(n2) + 1
      BY <1>1, <1>2, <1>4, <2>1
    <3>2. Len(n1) + 3 = Len(n2) + 4
      BY <1>1, <1>2, <3>1
    <3>3. P1[Len(n1) + 3] = "quote" /\ P2[Len(n2) + 4] = "keypair"
      BY <1>1, <1>2, <1>3, <2>1
    <3>. QED
      BY <1>4, <3>2, <3>3
  <2>2. CASE Len(R1) = 2 /\ Len(R2) = 1
    <3>1. Len(n2) = Len(n1) + 1
      BY <1>1, <1>2, <1>4, <2>2
    <3>2. Len(n2) + 3 = Len(n1) + 4
      BY <1>1, <1>2, <3>1
    <3>3. P2[Len(n2) + 3] = "quote" /\ P1[Len(n1) + 4] = "keypair"
      BY <1>1, <1>2, <1>3, <2>2
    <3>. QED
      BY <1>4, <3>2, <3>3
  <2>3. CASE Len(R1) = Len(R2)
    BY <1>1, <1>2, <1>3, <1>4, <2>3
  <2>. QED
    BY <1>3, <2>1, <2>2, <2>3
<1>6. \A i \in 1 .. Len(n1) : n1[i] = n2[i]
  BY <1>1, <1>2, <1>4, <1>5
<1>. QED
  BY <1>5, <1>6, SameSeq

-----------------------------------------------------------------------------
(* Passphrases *)

\* A set of numbers up to M that holds 0 has a greatest.
LEMMA Greatest ==
    ASSUME NEW M \in Nat, NEW S, S \subseteq 0 .. M, 0 \in S
    PROVE  /\ Max(S) \in S
           /\ \A y \in S : Max(S) >= y
<1> DEFINE T == {M - i : i \in S}
<1>1. T \subseteq Nat /\ T # {}
  OBVIOUS
<1>2. PICK R : R = OpToRel(<, Nat)
  OBVIOUS
<1>3. IsWellFoundedOn(R, Nat)
  BY <1>2, NatLessThanWellFounded
<1>4. \A x, y \in Nat : y < x => <<y, x>> \in R
  BY <1>2 DEF OpToRel
<1> HIDE DEF T
<1>5. PICK x \in T : \A y \in T : ~(<<y, x>> \in R)
  BY <1>1, <1>3, WFMin
<1>6. \A y \in T : x <= y
  <2>1. \A y \in T : x \in Nat /\ y \in Nat /\ ~(y < x)
    BY <1>1, <1>4, <1>5
  <2>. QED
    BY <2>1
<1>7. PICK i \in S : x = M - i
  BY <1>5 DEF T
<1>8. ASSUME NEW y \in S PROVE i >= y
  <2>1. M - i <= M - y
    BY <1>6, <1>7 DEF T
  <2>2. i \in 0 .. M /\ y \in 0 .. M
    BY <1>7
  <2>. QED
    BY <2>1, <2>2
<1>. QED
  BY <1>7, <1>8 DEF Max

\* Where trim_trailing_newlines cuts.
Kept(p) == {0} \union {i \in DOMAIN p : p[i] \notin NewLines}
Cut(p) == Max(Kept(p))

LEMMA CutPlace ==
    ASSUME NEW p \in Seq(STRING)
    PROVE  /\ Cut(p) \in 0 .. Len(p)
           /\ \A j \in Cut(p) + 1 .. Len(p) : p[j] \in NewLines
           /\ Cut(p) # 0 => p[Cut(p)] \notin NewLines
<1>1. PICK M, S : M = Len(p) /\ S = Kept(p)
  OBVIOUS
<1>2. M \in Nat /\ DOMAIN p = 1 .. M
  BY <1>1
<1>3. S \subseteq 0 .. M /\ 0 \in S
  BY <1>1, <1>2 DEF Kept
<1>4. Max(S) \in S /\ \A y \in S : Max(S) >= y
  BY <1>2, <1>3, Greatest
<1>5. PICK c : c = Max(S)
  OBVIOUS
<1>6. c \in 0 .. M
  BY <1>3, <1>4, <1>5
<1>7. ASSUME NEW j \in c + 1 .. M PROVE p[j] \in NewLines
  <2>1. j \in 1 .. M /\ ~(c >= j)
    BY <1>2, <1>6
  <2>2. j \notin S
    BY <1>4, <1>5, <2>1
  <2>. QED
    BY <1>1, <1>2, <2>1, <2>2 DEF Kept
<1>8. c # 0 => p[c] \notin NewLines
  BY <1>1, <1>4, <1>5 DEF Kept
<1>. QED
  BY <1>1, <1>5, <1>6, <1>7, <1>8 DEF Cut

\* What is left, and how long it is.
LEMMA Trimmed ==
    ASSUME NEW p \in Seq(STRING)
    PROVE  /\ IsSeq(trim_trailing_newlines(p))
           /\ Len(trim_trailing_newlines(p)) = Cut(p)
           /\ \A i \in 1 .. Cut(p) : trim_trailing_newlines(p)[i] = p[i]
<1>1. PICK c : c = Cut(p)
  OBVIOUS
<1>2. c \in 0 .. Len(p)
  BY <1>1, CutPlace
<1>3. trim_trailing_newlines(p) = SubSeq(p, 1, c)
  BY <1>1 DEF trim_trailing_newlines, Cut, Kept
<1>4. PICK t : t = SubSeq(p, 1, c)
  OBVIOUS
<1>5. t \in Seq(STRING) /\ Len(t) = c /\ \A i \in 1 .. c : t[i] = p[i]
  BY <1>2, <1>4
<1>6. IsSeq(t)
  BY <1>5 DEF IsSeq
<1>. QED
  BY <1>1, <1>3, <1>4, <1>5, <1>6

\* Two typed passphrases are the same but for line ends exactly when they are
\* trimmed to the same one.
LEMMA TrimmedTheSame ==
    ASSUME NEW p \in Seq(STRING), NEW q \in Seq(STRING)
    PROVE  SamePassphrase(p, q) <=> trim_trailing_newlines(p) = trim_trailing_newlines(q)
<1>1. PICK a, b : a = Cut(p) /\ b = Cut(q)
  OBVIOUS
<1>2. PICK t, u : t = trim_trailing_newlines(p) /\ u = trim_trailing_newlines(q)
  OBVIOUS
<1>3. /\ a \in 0 .. Len(p) /\ \A j \in a + 1 .. Len(p) : p[j] \in NewLines
      /\ a # 0 => p[a] \notin NewLines
  BY <1>1, CutPlace
<1>4. /\ b \in 0 .. Len(q) /\ \A j \in b + 1 .. Len(q) : q[j] \in NewLines
      /\ b # 0 => q[b] \notin NewLines
  BY <1>1, CutPlace
<1>5. Len(t) = a /\ \A i \in 1 .. a : t[i] = p[i]
  BY <1>1, <1>2, Trimmed
<1>6. Len(u) = b /\ \A i \in 1 .. b : u[i] = q[i]
  BY <1>1, <1>2, Trimmed
<1>7. IsSeq(t)
  BY <1>2, Trimmed
<1>8. IsSeq(u)
  BY <1>2, Trimmed
<1>9. Len(p) \in Nat /\ Len(q) \in Nat
  OBVIOUS
<1>10. ASSUME t = u PROVE SamePassphrase(p, q)
  <2>1. a = b /\ \A j \in 1 .. a : p[j] = q[j]
    BY <1>5, <1>6, <1>10
  <2>. QED
    BY <1>3, <1>4, <1>9, <2>1 DEF SamePassphrase
<1>11. ASSUME SamePassphrase(p, q) PROVE t = u
  <2>1. PICK i \in 0 .. Len(p) :
           /\ i <= Len(q)
           /\ \A j \in 1 .. i : p[j] = q[j]
           /\ \A j \in i + 1 .. Len(p) : p[j] \in NewLines
           /\ \A j \in i + 1 .. Len(q) : q[j] \in NewLines
    BY <1>11 DEF SamePassphrase
  <2>2. a <= i /\ b <= i
    BY <1>3, <1>4, <1>9, <2>1
  <2>3. ~(a < b)
    <3>1. ASSUME a < b PROVE FALSE
      <4>1. b \in 1 .. i /\ b \in a + 1 .. Len(p) /\ b # 0
        BY <1>3, <1>4, <1>9, <2>1, <2>2, <3>1
      <4>. QED
        BY <1>3, <1>4, <2>1, <4>1
    <3>. QED
      BY <3>1
  <2>4. ~(b < a)
    <3>1. ASSUME b < a PROVE FALSE
      <4>1. a \in 1 .. i /\ a \in b + 1 .. Len(q) /\ a # 0
        BY <1>3, <1>4, <1>9, <2>1, <2>2, <3>1
      <4>. QED
        BY <1>3, <1>4, <2>1, <4>1
    <3>. QED
      BY <3>1
  <2>5. a = b
    BY <1>3, <1>4, <1>9, <2>3, <2>4
  <2>6. \A j \in 1 .. a : j \in 1 .. i
    BY <1>3, <2>1, <2>2
  <2>7. \A j \in 1 .. a : t[j] = u[j]
    BY <1>5, <1>6, <2>1, <2>5, <2>6
  <2>. QED
    BY <1>5, <1>6, <1>7, <1>8, <2>5, <2>7, SameSeq
<1>. QED
  BY <1>2, <1>10, <1>11

-----------------------------------------------------------------------------
(***************************************************************************)
(* The invariant: what the i-th row, the i-th export and a box are made    *)
(* of.  Random values are the row's own number, so fields of two rows      *)
(* never fit one another.                                                  *)
(***************************************************************************)

MasterKeys == {OwnKey(m) : m \in Machines}

RowOK(i, r) ==
    LET ct == r.sealed.ciphertext
        wm == r.sealed.wrap_meta
    IN
    /\ r.name \in Names
    /\ r.sealed.nonce = i
    /\ ct.key = Key("dek", i) /\ ct.nonce = i /\ ct.msg = r.value
    /\ wm = WrapMeta("1", wm.wrapped_dek, i, wm.record_meta)
    /\ wm.record_meta \in Records \union {<<>>}
    /\ wm.wrapped_dek.nonce = i /\ wm.wrapped_dek.msg = Key("dek", i)
    /\ wm.wrapped_dek.aad = <<>>
    /\ \/ /\ r.tier = "standard" /\ ct.aad = aad(r.name)
          /\ wm.wrapped_dek.key = r.key /\ r.key \in MasterKeys
       \/ /\ r.tier = "legacy" /\ ct.aad = <<>>
          /\ wm.wrapped_dek.key = r.key /\ r.key \in MasterKeys
       \/ /\ r.tier = "protected" /\ ct.aad = protected_record_aad(r.name, wm)
          /\ wm.wrapped_dek.key = Key("vmk", 0) /\ r.key = Key("dek", i)
    /\ "boxed" \in DOMAIN r.value => r.value.boxed = r.name

BlobOK(i, b) ==
    /\ b.key \in MasterKeys
    /\ b.passphrase \in Passphrases
    /\ trim_trailing_newlines(b.passphrase) # <<>>
    /\ b.blob = [scheme |-> EXPORT_SCHEME, n |-> SCRYPT_N, salt |-> i, nonce |-> i,
                 ciphertext |-> encrypt_with_key(
                     derive_kek_scrypt(trim_trailing_newlines(b.passphrase), i, SCRYPT_N),
                     i, b.key, <<>>)]

BoxOK(b) ==
    /\ b.to = derive_blind_box_keypair_from_master(b.to.of)
    /\ b.context = seal_context(b.value.boxed)
    /\ b.value = [boxed |-> b.value.boxed]

MastersInv == master \in [Machines -> MasterKeys \union {NoKey}]
RowsInv == \A i \in DOMAIN rows : RowOK(i, rows[i])
BlobsInv == \A i \in DOMAIN blobs : BlobOK(i, blobs[i])
BoxesInv == \A i \in DOMAIN boxes : BoxOK(boxes[i])

VaultInv == MastersInv /\ RowsInv /\ BlobsInv /\ BoxesInv
SeqsInv == IsSeq(rows) /\ IsSeq(blobs) /\ IsSeq(boxes)

-----------------------------------------------------------------------------
(* New rows, exports and boxes are as the invariant says *)

\* A key tells its kind and its number.
LEMMA Keys ==
    /\ \A i, j : Key("dek", i) = Key("dek", j) => i = j
    /\ \A i, j : Key("dek", i) # Key("vmk", j)
    /\ NoKey # Key("vmk", 0)
    /\ \A k \in MasterKeys : k # NoKey /\ k # Key("vmk", 0)
<1>1. \A i, j : Key("dek", i) = Key("dek", j) => i = j
  BY DEF Key
<1>2. \A i, j : Key("dek", i) # Key("vmk", j)
  <2>1. \A i, j : Key("dek", i).kind = "dek" /\ Key("vmk", j).kind = "vmk"
    BY DEF Key
  <2>. QED
    BY <2>1
<1>3. NoKey.kind = "none" /\ Key("vmk", 0).kind = "vmk"
  BY DEF Key, NoKey
<1>4. \A k \in MasterKeys : k.kind = "master"
  BY DEF MasterKeys, OwnKey, Key
<1>5. NoKey # Key("vmk", 0)
  BY <1>3
<1>6. \A k \in MasterKeys : k # NoKey /\ k # Key("vmk", 0)
  BY <1>3, <1>4
<1>. QED
  BY <1>1, <1>2, <1>5, <1>6

LEMMA StandardRow ==
    ASSUME NEW i, NEW key \in MasterKeys, NEW n \in Names, NEW v,
           "boxed" \in DOMAIN v => v.boxed = n
    PROVE  RowOK(i, Row(seal(key, n, v, Key("dek", i), i, i), "standard", n, v, key))
<1>1. PICK dek, ad : dek = Key("dek", i) /\ ad = aad(n)
  OBVIOUS
<1>. QED
  BY <1>1 DEF RowOK, Row, seal, encrypt_with_key, WrapMeta, WRAP_META_VERSION

LEMMA LegacyRow ==
    ASSUME NEW i, NEW key \in MasterKeys, NEW n \in Names, NEW v,
           "boxed" \notin DOMAIN v, NEW dek, dek = Key("dek", i)
    PROVE  RowOK(i, Row(
               [ciphertext |-> encrypt_with_key(dek, i, v, <<>>), nonce |-> i,
                wrap_meta |-> WrapMeta("", encrypt_with_key(key, i, dek, <<>>), i, <<>>)],
               "legacy", n, v, key))
BY DEF RowOK, Row, encrypt_with_key, WrapMeta, WRAP_META_VERSION

LEMMA ProtectedRow ==
    ASSUME NEW i, NEW rec \in Records, NEW n \in Names, NEW v,
           "boxed" \notin DOMAIN v, NEW dek, dek = Key("dek", i),
           NEW meta, meta = WrapMeta("1", encrypt_with_key(Key("vmk", 0), i, dek, <<>>), i, rec)
    PROVE  RowOK(i, Row(
               [ciphertext |-> encrypt_with_key(dek, i, v, protected_record_aad(n, meta)),
                nonce |-> i, wrap_meta |-> meta],
               "protected", n, v, dek))
<1>1. PICK vmk, ad : vmk = Key("vmk", 0) /\ ad = protected_record_aad(n, meta)
  OBVIOUS
<1>. QED
  BY <1>1 DEF RowOK, Row, encrypt_with_key, WrapMeta, WRAP_META_VERSION

\* A typed value is not one that came in a box.
LEMMA TypedValue ==
    ASSUME NEW i
    PROVE  "boxed" \notin DOMAIN [typed |-> i]
OBVIOUS

-----------------------------------------------------------------------------
(* One step keeps it *)

LEMMA RowsGrow ==
    ASSUME IsSeq(rows), RowsInv, NEW r, RowOK(Len(rows) + 1, r), rows' = Append(rows, r)
    PROVE  IsSeq(rows') /\ RowsInv'
<1>1. IsSeq(rows')
  BY Appended, Zenon
<1>2. /\ Len(rows) \in Nat /\ DOMAIN rows = 1 .. Len(rows)
      /\ DOMAIN rows' = 1 .. Len(rows) + 1
      /\ \A i \in 1 .. Len(rows) : rows'[i] = rows[i]
      /\ rows'[Len(rows) + 1] = r
  BY Appended
<1>3. ASSUME NEW i \in DOMAIN rows' PROVE RowOK(i, rows'[i])
  <2>1. i \in 1 .. Len(rows) \/ i = Len(rows) + 1
    BY <1>2
  <2>. QED
    BY <1>2, <2>1 DEF RowsInv
<1>4. RowsInv'
  BY <1>3 DEF RowsInv
<1>. QED
  BY <1>1, <1>4

LEMMA BlobsGrow ==
    ASSUME IsSeq(blobs), BlobsInv, NEW b, BlobOK(Len(blobs) + 1, b), blobs' = Append(blobs, b)
    PROVE  IsSeq(blobs') /\ BlobsInv'
<1>1. IsSeq(blobs')
  BY Appended, Zenon
<1>2. /\ Len(blobs) \in Nat /\ DOMAIN blobs = 1 .. Len(blobs)
      /\ DOMAIN blobs' = 1 .. Len(blobs) + 1
      /\ \A i \in 1 .. Len(blobs) : blobs'[i] = blobs[i]
      /\ blobs'[Len(blobs) + 1] = b
  BY Appended
<1>3. ASSUME NEW i \in DOMAIN blobs' PROVE BlobOK(i, blobs'[i])
  <2>1. i \in 1 .. Len(blobs) \/ i = Len(blobs) + 1
    BY <1>2
  <2>. QED
    BY <1>2, <2>1 DEF BlobsInv
<1>4. BlobsInv'
  BY <1>3 DEF BlobsInv
<1>. QED
  BY <1>1, <1>4

LEMMA BoxesGrow ==
    ASSUME IsSeq(boxes), BoxesInv, NEW b, BoxOK(b), boxes' = Append(boxes, b)
    PROVE  IsSeq(boxes') /\ BoxesInv'
<1>1. IsSeq(boxes')
  BY Appended, Zenon
<1>2. /\ Len(boxes) \in Nat /\ DOMAIN boxes = 1 .. Len(boxes)
      /\ DOMAIN boxes' = 1 .. Len(boxes) + 1
      /\ \A i \in 1 .. Len(boxes) : boxes'[i] = boxes[i]
      /\ boxes'[Len(boxes) + 1] = b
  BY Appended
<1>3. ASSUME NEW i \in DOMAIN boxes' PROVE BoxOK(boxes'[i])
  <2>1. i \in 1 .. Len(boxes) \/ i = Len(boxes) + 1
    BY <1>2
  <2>. QED
    BY <1>2, <2>1 DEF BoxesInv
<1>4. BoxesInv'
  BY <1>3 DEF BoxesInv
<1>. QED
  BY <1>1, <1>4

\* load_or_create leaves a master key.
LEMMA LoadedKey ==
    ASSUME MastersInv, NEW m \in Machines,
           master' = [master EXCEPT ![m] = LoadedOrCreated(m)]
    PROVE  MastersInv' /\ master'[m] \in MasterKeys
<1>1. LoadedOrCreated(m) \in MasterKeys
  BY DEF LoadedOrCreated, MastersInv, MasterKeys
<1>. QED
  BY <1>1 DEF MastersInv

LEMMA SealKeeps ==
    ASSUME VaultInv, SeqsInv, NEW m \in Machines, NEW n \in Names, Seal(m, n)
    PROVE  VaultInv' /\ SeqsInv'
<1>1. /\ master' = [master EXCEPT ![m] = LoadedOrCreated(m)]
      /\ SealRow(master'[m], n, [typed |-> Id])
      /\ UNCHANGED <<blobs, boxes>>
  BY DEF Seal
<1>2. MastersInv' /\ master'[m] \in MasterKeys
  BY <1>1, LoadedKey DEF VaultInv
<1>3. PICK i, v, key : i = Id /\ v = [typed |-> Id] /\ key = master'[m]
  OBVIOUS
<1>4. PICK r : r = Row(seal(key, n, v, Key("dek", i), i, i), "standard", n, v, key)
  OBVIOUS
<1>5. "boxed" \notin DOMAIN v
  BY <1>3, TypedValue
<1>6. RowOK(i, r)
  BY <1>2, <1>3, <1>4, <1>5, StandardRow
<1>7. rows' = Append(rows, r) /\ i = Len(rows) + 1
  BY <1>1, <1>3, <1>4 DEF SealRow, Id
<1>8. IsSeq(rows') /\ RowsInv'
  BY <1>6, <1>7, RowsGrow DEF VaultInv, SeqsInv
<1>. QED
  BY <1>1, <1>2, <1>8 DEF VaultInv, SeqsInv, BlobsInv, BoxesInv

LEMMA SealBlindBoxKeeps ==
    ASSUME VaultInv, SeqsInv, NEW m \in Machines, NEW n \in Names,
           NEW b, BoxOK(b), SealBlindBox(m, n, b)
    PROVE  VaultInv' /\ SeqsInv'
<1>1. PICK v \in open_blind_box(derive_blind_box_keypair_from_master(master[m]),
                               b, seal_context(n)) : SealRow(master[m], n, v)
  BY DEF SealBlindBox
<1>2. v = b.value /\ b.context = seal_context(n)
  BY <1>1 DEF open_blind_box
<1>3. v.boxed = n
  BY <1>2 DEF BoxOK, seal_context
<1>4. master[m] \in MasterKeys /\ UNCHANGED <<master, blobs, boxes>>
  BY DEF SealBlindBox, VaultInv, MastersInv
<1>5. PICK i, key : i = Id /\ key = master[m]
  OBVIOUS
<1>6. PICK r : r = Row(seal(key, n, v, Key("dek", i), i, i), "standard", n, v, key)
  OBVIOUS
<1>7. RowOK(i, r)
  BY <1>3, <1>4, <1>5, <1>6, StandardRow
<1>8. rows' = Append(rows, r) /\ i = Len(rows) + 1
  BY <1>1, <1>5, <1>6 DEF SealRow, Id
<1>9. IsSeq(rows') /\ RowsInv'
  BY <1>7, <1>8, RowsGrow DEF VaultInv, SeqsInv
<1>. QED
  BY <1>4, <1>9 DEF VaultInv, SeqsInv, MastersInv, BlobsInv, BoxesInv

LEMMA PubkeyKeeps ==
    ASSUME VaultInv, SeqsInv, NEW m \in Machines, NEW n \in Names, PubkeyThenBox(m, n)
    PROVE  VaultInv' /\ SeqsInv'
<1>1. /\ master' = [master EXCEPT ![m] = LoadedOrCreated(m)]
      /\ UNCHANGED <<rows, blobs>>
  BY DEF PubkeyThenBox
<1>2. MastersInv'
  BY <1>1, LoadedKey DEF VaultInv
<1>3. PICK b : b = [to |-> derive_blind_box_keypair_from_master(master'[m]),
                    context |-> seal_context(n), value |-> [boxed |-> n]]
  OBVIOUS
<1>4. BoxOK(b)
  BY <1>3 DEF BoxOK, derive_blind_box_keypair_from_master
<1>5. boxes' = Append(boxes, b)
  BY <1>3 DEF PubkeyThenBox
<1>6. IsSeq(boxes') /\ BoxesInv'
  BY <1>4, <1>5, BoxesGrow DEF VaultInv, SeqsInv
<1>. QED
  BY <1>1, <1>2, <1>6 DEF VaultInv, SeqsInv, RowsInv, BlobsInv

LEMMA LegacyKeeps ==
    ASSUME VaultInv, SeqsInv, NEW m \in Machines, NEW n \in Names, SealLegacy(m, n)
    PROVE  VaultInv' /\ SeqsInv'
<1>1. master[m] \in MasterKeys /\ UNCHANGED <<master, blobs, boxes>>
  BY DEF SealLegacy, VaultInv, MastersInv
<1>2. PICK i, v, key, dek :
         i = Id /\ v = [typed |-> Id] /\ key = master[m] /\ dek = Key("dek", Id)
  OBVIOUS
<1>3. PICK r : r = Row(
               [ciphertext |-> encrypt_with_key(dek, i, v, <<>>), nonce |-> i,
                wrap_meta |-> WrapMeta("", encrypt_with_key(key, i, dek, <<>>), i, <<>>)],
               "legacy", n, v, key)
  OBVIOUS
<1>4. "boxed" \notin DOMAIN v
  BY <1>2, TypedValue
<1>5. RowOK(i, r)
  BY <1>1, <1>2, <1>3, <1>4, LegacyRow
<1>6. rows' = Append(rows, r) /\ i = Len(rows) + 1
  BY <1>2, <1>3 DEF SealLegacy, Id
<1>7. IsSeq(rows') /\ RowsInv'
  BY <1>5, <1>6, RowsGrow DEF VaultInv, SeqsInv
<1>. QED
  BY <1>1, <1>7 DEF VaultInv, SeqsInv, MastersInv, BlobsInv, BoxesInv

LEMMA ProtectedKeeps ==
    ASSUME VaultInv, SeqsInv, NEW n \in Names, NEW rec \in Records, SealProtected(n, rec)
    PROVE  VaultInv' /\ SeqsInv'
<1>1. UNCHANGED <<master, blobs, boxes>>
  BY DEF SealProtected
<1>2. PICK i, v, dek : i = Id /\ v = [typed |-> Id] /\ dek = Key("dek", Id)
  OBVIOUS
<1>3. PICK meta : meta = WrapMeta("1", encrypt_with_key(Key("vmk", 0), i, dek, <<>>), i, rec)
  OBVIOUS
<1>4. PICK r : r = Row(
               [ciphertext |-> encrypt_with_key(dek, i, v, protected_record_aad(n, meta)),
                nonce |-> i, wrap_meta |-> meta],
               "protected", n, v, dek)
  OBVIOUS
<1>5. "boxed" \notin DOMAIN v
  BY <1>2, TypedValue
<1>6. RowOK(i, r)
  BY <1>2, <1>3, <1>4, <1>5, ProtectedRow
<1>7. rows' = Append(rows, r) /\ i = Len(rows) + 1
  BY <1>2, <1>3, <1>4 DEF SealProtected, Id
<1>8. IsSeq(rows') /\ RowsInv'
  BY <1>6, <1>7, RowsGrow DEF VaultInv, SeqsInv
<1>. QED
  BY <1>1, <1>8 DEF VaultInv, SeqsInv, MastersInv, BlobsInv, BoxesInv

LEMMA ExportKeeps ==
    ASSUME VaultInv, SeqsInv, NEW m \in Machines, NEW p \in Passphrases, Export(m, p)
    PROVE  VaultInv' /\ SeqsInv'
<1>1. master[m] \in MasterKeys /\ UNCHANGED <<master, rows, boxes>>
  BY DEF Export, VaultInv, MastersInv
<1>2. PICK b \in export_master_key(master[m], trim_trailing_newlines(p),
                                  Len(blobs) + 1, Len(blobs) + 1) :
          blobs' = Append(blobs, [blob |-> b, key |-> master[m], passphrase |-> p])
  BY DEF Export
<1>3. PICK i, key, t : i = Len(blobs) + 1 /\ key = master[m] /\ t = trim_trailing_newlines(p)
  OBVIOUS
<1>4. t # <<>> /\ b = [scheme |-> EXPORT_SCHEME, n |-> SCRYPT_N, salt |-> i, nonce |-> i,
                       ciphertext |-> encrypt_with_key(derive_kek_scrypt(t, i, SCRYPT_N),
                                                       i, key, <<>>)]
  BY <1>2, <1>3 DEF export_master_key
<1>5. PICK e : e = [blob |-> b, key |-> key, passphrase |-> p]
  OBVIOUS
<1>6. e.key \in MasterKeys /\ e.passphrase = p /\ e.blob = b /\ e.key = key
  BY <1>1, <1>3, <1>5
<1>7. BlobOK(i, e)
  BY <1>3, <1>4, <1>6 DEF BlobOK
<1>8. blobs' = Append(blobs, e)
  BY <1>2, <1>3, <1>5
<1>9. IsSeq(blobs') /\ BlobsInv'
  BY <1>3, <1>7, <1>8, BlobsGrow DEF VaultInv, SeqsInv
<1>. QED
  BY <1>1, <1>9 DEF VaultInv, SeqsInv, MastersInv, RowsInv, BoxesInv

\* What an export put together from three holds.
MixedBlobIs(b, i, j, b2, b3) ==
    /\ b.scheme = EXPORT_SCHEME /\ b.n = SCRYPT_N /\ b.nonce = i
    /\ b.salt = b3.blob.salt
    /\ b.ciphertext.nonce = j /\ b.ciphertext.msg = b2.key
    /\ b.ciphertext.key = [passphrase |-> trim_trailing_newlines(b2.passphrase),
                           salt |-> j, n |-> SCRYPT_N]
    /\ b.ciphertext.aad = <<>>
    /\ b = [scheme |-> EXPORT_SCHEME, n |-> SCRYPT_N, salt |-> b3.blob.salt,
            nonce |-> i, ciphertext |-> b2.blob.ciphertext]

LEMMA MixedBlobFields ==
    ASSUME NEW i, NEW j, NEW b1, BlobOK(i, b1), NEW b2, BlobOK(j, b2), NEW b3,
           NEW b, b = MixedBlob(b1, b2, b3)
    PROVE  MixedBlobIs(b, i, j, b2, b3)
<1>1. PICK c1, c2, s : /\ c1 = b1.blob.ciphertext /\ c2 = b2.blob.ciphertext
                       /\ s = b3.blob.salt
  OBVIOUS
<1>2. PICK t, kek : /\ t = trim_trailing_newlines(b2.passphrase)
                    /\ kek = [passphrase |-> t, salt |-> j, n |-> SCRYPT_N]
  OBVIOUS
<1>3. c2 = [key |-> kek, nonce |-> j, msg |-> b2.key, aad |-> <<>>]
  BY <1>1, <1>2 DEF BlobOK, encrypt_with_key, derive_kek_scrypt
<1>4. b1.blob = [scheme |-> EXPORT_SCHEME, n |-> SCRYPT_N, salt |-> i, nonce |-> i,
                 ciphertext |-> c1]
  BY <1>1 DEF BlobOK
<1>5. MixedBlob(b1, b2, b3) = [scheme |-> EXPORT_SCHEME, n |-> SCRYPT_N, salt |-> s,
                               nonce |-> i, ciphertext |-> c2]
  <2>1. PICK x, y : x = b1.blob /\ y = MixedBlob(b1, b2, b3)
    OBVIOUS
  <2>2. y = [x EXCEPT !.ciphertext = c2, !.salt = s]
    BY <1>1, <2>1 DEF MixedBlob
  <2>3. DOMAIN y = {"scheme", "n", "salt", "nonce", "ciphertext"}
    BY <1>4, <2>1, <2>2
  <2>4. /\ y.scheme = EXPORT_SCHEME /\ y.n = SCRYPT_N /\ y.salt = s /\ y.nonce = i
        /\ y.ciphertext = c2
    BY <1>4, <2>1, <2>2
  <2>5. y = [f \in DOMAIN y |-> y[f]]
    BY <2>2
  <2>. QED
    BY <2>1, <2>3, <2>4, <2>5
<1>. QED
  BY <1>1, <1>2, <1>3, <1>5 DEF MixedBlobIs

LEMMA ImportKeeps ==
    ASSUME VaultInv, SeqsInv, NEW m \in Machines, NEW p \in Passphrases,
           NEW b \in MixedBlobs, NEW force \in BOOLEAN, Import(m, b, p, force)
    PROVE  VaultInv' /\ SeqsInv'
<1>1. UNCHANGED <<rows, blobs, boxes>>
  BY DEF Import
<1>2. PICK i, j, k \in DOMAIN blobs : b = MixedBlob(blobs[i], blobs[j], blobs[k])
  BY DEF MixedBlobs
<1>3. b.ciphertext.msg \in MasterKeys
  <2>1. PICK b1, b2, b3 : b1 = blobs[i] /\ b2 = blobs[j] /\ b3 = blobs[k]
    OBVIOUS
  <2>2. BlobOK(i, b1)
    BY <2>1 DEF VaultInv, BlobsInv
  <2>3. BlobOK(j, b2)
    BY <2>1 DEF VaultInv, BlobsInv
  <2>5. b = MixedBlob(b1, b2, b3)
    BY <1>2, <2>1
  <2>4. MixedBlobIs(b, i, j, b2, b3)
    BY <2>2, <2>3, <2>5, MixedBlobFields
  <2>. QED
    BY <2>3, <2>4 DEF BlobOK, MixedBlobIs
<1>4. PICK key \in import_master_key(b, trim_trailing_newlines(p)) :
         master' = [master EXCEPT ![m] = key]
  BY DEF Import
<1>5. key = b.ciphertext.msg
  BY <1>4 DEF import_master_key, decrypt_with_key
<1>6. MastersInv'
  BY <1>3, <1>4, <1>5 DEF VaultInv, MastersInv
<1>. QED
  BY <1>1, <1>6 DEF VaultInv, SeqsInv, RowsInv, BlobsInv, BoxesInv

LEMMA VaultInvariant == VaultSpec => [](VaultInv /\ SeqsInv)
<1>1. VaultInit => VaultInv /\ SeqsInv
  <2>1. ASSUME VaultInit PROVE VaultInv
    BY <2>1 DEF VaultInit, VaultInv, MastersInv, RowsInv, BlobsInv, BoxesInv
  <2>2. <<>> \in Seq({})
    OBVIOUS
  <2>3. IsSeq(<<>>)
    BY <2>2 DEF IsSeq
  <2>4. ASSUME VaultInit PROVE SeqsInv
    BY <2>3, <2>4 DEF VaultInit, SeqsInv
  <2>. QED
    BY <2>1, <2>4
<1>2. VaultInv /\ SeqsInv /\ [VaultNext]_vvars => (VaultInv /\ SeqsInv)'
  <2> SUFFICES ASSUME VaultInv, SeqsInv, [VaultNext]_vvars PROVE VaultInv' /\ SeqsInv'
    OBVIOUS
  <2>1. ASSUME NEW m \in Machines, NEW n \in Names, NEW i \in DOMAIN boxes,
               SealBlindBox(m, n, boxes[i])
        PROVE  VaultInv' /\ SeqsInv'
    <3>1. PICK b : b = boxes[i]
      OBVIOUS
    <3>2. BoxOK(b)
      BY <3>1 DEF VaultInv, BoxesInv
    <3>. QED
      BY <2>1, <3>1, <3>2, SealBlindBoxKeeps
  <2>2. ASSUME UNCHANGED vvars PROVE VaultInv' /\ SeqsInv'
    BY <2>2 DEF vvars, VaultInv, SeqsInv, MastersInv, RowsInv, BlobsInv, BoxesInv
  <2>3. ASSUME NEW m \in Machines, NEW n \in Names,
               Seal(m, n) \/ PubkeyThenBox(m, n) \/ SealLegacy(m, n)
        PROVE  VaultInv' /\ SeqsInv'
    BY <2>3, SealKeeps, PubkeyKeeps, LegacyKeeps
  <2>4. ASSUME NEW n \in Names, NEW r \in Records, SealProtected(n, r)
        PROVE  VaultInv' /\ SeqsInv'
    BY <2>4, ProtectedKeeps
  <2>5. ASSUME NEW m \in Machines, NEW p \in Passphrases, Export(m, p)
        PROVE  VaultInv' /\ SeqsInv'
    BY <2>5, ExportKeeps
  <2>6. ASSUME NEW m \in Machines, NEW p \in Passphrases,
               NEW b \in MixedBlobs, NEW force \in BOOLEAN, Import(m, b, p, force)
        PROVE  VaultInv' /\ SeqsInv'
    BY <2>6, ImportKeeps
  <2>. QED
    BY <2>1, <2>2, <2>3, <2>4, <2>5, <2>6 DEF VaultNext
<1>. QED
  BY <1>1, <1>2, PTL DEF VaultSpec

-----------------------------------------------------------------------------
(* What opening yields *)

\* What a row put together from four holds.
MixedRowIs(s, i, j, k, r1, r3, r4) ==
    /\ s.ciphertext = r1.sealed.ciphertext /\ s.nonce = j
    /\ s.ciphertext.key = Key("dek", i) /\ s.ciphertext.msg = r1.value
    /\ s.wrap_meta.scheme = WRAP_SCHEME /\ s.wrap_meta.v = WRAP_META_VERSION
    /\ s.wrap_meta.dek_nonce = k
    /\ s.wrap_meta.wrapped_dek = r3.sealed.wrap_meta.wrapped_dek
    /\ s.wrap_meta.wrapped_dek.msg = Key("dek", k)
    /\ s.wrap_meta.record_meta = r4.sealed.wrap_meta.record_meta

LEMMA MixedRowFields ==
    ASSUME NEW i, NEW j, NEW k, NEW r1, RowOK(i, r1), NEW r2, RowOK(j, r2),
           NEW r3, RowOK(k, r3), NEW r4, NEW s, s = MixedRow(r1, r2, r3, r4)
    PROVE  MixedRowIs(s, i, j, k, r1, r3, r4)
<1>1. PICK wm, w, rec, rec4 :
         /\ wm = r3.sealed.wrap_meta /\ w = wm.wrapped_dek /\ rec = wm.record_meta
         /\ rec4 = r4.sealed.wrap_meta.record_meta
  OBVIOUS
<1>2. wm = [v |-> WRAP_META_VERSION, scheme |-> WRAP_SCHEME, wrapped_dek |-> w,
            dek_nonce |-> k, record_meta |-> rec]
  BY <1>1 DEF RowOK, WrapMeta, WRAP_META_VERSION
<1>3. w.msg = Key("dek", k)
  BY <1>1 DEF RowOK
<1>4. r1.sealed.ciphertext.key = Key("dek", i) /\ r1.sealed.ciphertext.msg = r1.value
  BY DEF RowOK
<1>5. r2.sealed.nonce = j
  BY DEF RowOK
<1>6. s = [ciphertext |-> r1.sealed.ciphertext, nonce |-> j,
           wrap_meta |-> [wm EXCEPT !.record_meta = rec4]]
  BY <1>1, <1>5 DEF MixedRow
<1>7. PICK x : x = [wm EXCEPT !.record_meta = rec4]
  OBVIOUS
<1>8. /\ x.scheme = WRAP_SCHEME /\ x.v = WRAP_META_VERSION /\ x.dek_nonce = k
      /\ x.wrapped_dek = w /\ x.record_meta = rec4
  BY <1>2, <1>7
<1>9. s.ciphertext = r1.sealed.ciphertext /\ s.nonce = j /\ s.wrap_meta = x
  BY <1>6, <1>7
<1>. QED
  BY <1>1, <1>3, <1>4, <1>8, <1>9 DEF MixedRowIs

\* Opened with a master: the value of the row the ciphertext is from.
LEMMA OpenYields ==
    ASSUME NEW i, NEW j, NEW k, NEW r1, RowOK(i, r1), NEW r3, RowOK(k, r3), NEW r4,
           i = k => r1 = r3,
           NEW s, MixedRowIs(s, i, j, k, r1, r3, r4),
           NEW mk \in MasterKeys \union {NoKey}, NEW n \in Names, NEW v \in open(mk, n, s)
    PROVE  /\ r1.value = v /\ r1.key = mk
           /\ \/ r1.tier = "standard" /\ r1.name = n
              \/ r1.tier = "legacy"
<1>1. PICK dek : /\ dek \in decrypt_with_key(mk, s.wrap_meta.dek_nonce, s.wrap_meta.wrapped_dek, <<>>)
                 /\ v \in open_value_with_dek(dek, n, s)
  BY DEF open
<1>2. dek = s.wrap_meta.wrapped_dek.msg /\ s.wrap_meta.wrapped_dek.key = mk
  BY <1>1 DEF decrypt_with_key
<1>3. dek = Key("dek", k) /\ r3.sealed.wrap_meta.wrapped_dek.key = mk
  BY <1>2 DEF MixedRowIs
<1>4. /\ v = s.ciphertext.msg /\ s.ciphertext.key = dek
      /\ s.ciphertext.aad = aad(n) \/ s.ciphertext.aad = <<>>
  BY <1>1 DEF open_value_with_dek, decrypt_with_key
<1>5. v = r1.value /\ Key("dek", i) = Key("dek", k)
  BY <1>3, <1>4 DEF MixedRowIs
<1>6. r1 = r3
  BY <1>5, Keys
<1>7. mk # Key("vmk", 0)
  BY Keys
<1>8. /\ r1.key = mk
      /\ \/ r1.tier = "standard" /\ r1.sealed.ciphertext.aad = aad(r1.name)
         \/ r1.tier = "legacy"
  BY <1>3, <1>6, <1>7 DEF RowOK
<1>9. ASSUME r1.tier = "standard", r1.sealed.ciphertext.aad = aad(r1.name) PROVE r1.name = n
  <2>1. PICK n1 : n1 = r1.name
    OBVIOUS
  <2>2. n1 \in Seq(STRING) /\ n \in Seq(STRING)
    BY <2>1, VaultAssumption DEF RowOK
  <2>3. IsSeq(n1)
    BY <2>2 DEF IsSeq
  <2>4. IsSeq(n)
    BY <2>2 DEF IsSeq
  <2>5. s.ciphertext.aad = aad(n1)
    BY <1>9, <2>1 DEF MixedRowIs
  <2>6. aad(n1) # <<>>
    BY <2>3, AadElements
  <2>7. aad(n1) = aad(n)
    BY <1>4, <2>5, <2>6
  <2>8. n1 = n
    BY <2>3, <2>4, <2>7, AadInjective
  <2>. QED
    BY <2>1, <2>8
<1>. QED
  BY <1>5, <1>8, <1>9

\* A row's record is one that protected_record_aad can be read back from.
LEMMA RowRecord ==
    ASSUME NEW i, NEW r, RowOK(i, r), NEW rec, rec = r.sealed.wrap_meta.record_meta
    PROVE  rec \in Seq(STRING) /\ RecordMeta(rec)
<1>1. rec \in Records \union {<<>>}
  BY DEF RowOK
<1>2. <<>> \in Seq(STRING) /\ RecordMeta(<<>>)
  BY DEF RecordMeta
<1>. QED
  BY <1>1, <1>2, VaultAssumption

\* Opened with a DEK: that record's value, under its name and kind.
LEMMA OpenDekYields ==
    ASSUME NEW i, NEW j, NEW k, NEW l, NEW r1, RowOK(i, r1), NEW r3, NEW r4, RowOK(l, r4),
           NEW s, MixedRowIs(s, i, j, k, r1, r3, r4),
           NEW d, NEW n \in Names, NEW v \in open_with_dek(Key("dek", d), n, s)
    PROVE  /\ i = d /\ r1.value = v /\ r1.name = n
           /\ r1.tier \in {"standard", "protected"}
           /\ r1.tier = "protected" =>
                 protected_record_aad(n, s.wrap_meta)
                     = protected_record_aad(n, r1.sealed.wrap_meta)
<1>1. PICK dek, x, wm, n1 : /\ dek = Key("dek", d) /\ x = s.wrap_meta
                            /\ wm = r1.sealed.wrap_meta /\ n1 = r1.name
  OBVIOUS
<1>2. v \in open_protected_value_with_dek(dek, n, s, x)
  BY <1>1 DEF open_with_dek
<1>3. /\ v = s.ciphertext.msg /\ s.ciphertext.key = dek
      /\ s.ciphertext.aad = protected_record_aad(n, x) \/ s.ciphertext.aad = aad(n)
  BY <1>2 DEF open_protected_value_with_dek, decrypt_with_key
<1>4. v = r1.value /\ Key("dek", i) = Key("dek", d)
  BY <1>1, <1>3 DEF MixedRowIs
<1>5. i = d
  BY <1>4, Keys
<1>6. x.record_meta \in Seq(STRING) /\ RecordMeta(x.record_meta)
  <2>1. x.record_meta = r4.sealed.wrap_meta.record_meta
    BY <1>1 DEF MixedRowIs
  <2>. QED
    BY <2>1, RowRecord
<1>7. wm.record_meta \in Seq(STRING) /\ RecordMeta(wm.record_meta)
  BY <1>1, RowRecord
<1>8. n1 \in Seq(STRING) /\ n \in Seq(STRING)
  BY <1>1, VaultAssumption DEF RowOK
<1>9. IsSeq(n1)
  BY <1>8 DEF IsSeq
<1>10. IsSeq(n)
  BY <1>8 DEF IsSeq
<1>11. aad(n) # <<>> /\ aad(n1) # <<>>
  BY <1>9, <1>10, AadElements
<1>12. protected_record_aad(n, x) # <<>>
  <2>1. PICK P, r : P = protected_record_aad(n, x) /\ r = RecordPart(x)
    OBVIOUS
  <2>2. LaidOut(P, n, r)
    BY <1>6, <1>10, <2>1, RecordElements
  <2>3. Len(r) \in Nat
    BY <1>6, <2>1, RecordPartShape
  <2>4. Len(P) # 0
    BY <2>2, <2>3 DEF LaidOut
  <2>. QED
    BY <2>1, <2>4
<1>13. CASE r1.tier = "standard" /\ s.ciphertext.aad = aad(n1)
  <2>1. protected_record_aad(n, x) # aad(n1)
    BY <1>6, <1>9, <1>10, RecordIsNotAad
  <2>2. aad(n1) = aad(n)
    BY <1>3, <1>13, <2>1
  <2>3. n1 = n
    BY <1>9, <1>10, <2>2, AadInjective
  <2>. QED
    BY <1>1, <1>4, <1>5, <1>13, <2>3
<1>14. CASE r1.tier = "protected" /\ s.ciphertext.aad = protected_record_aad(n1, wm)
  <2>1. protected_record_aad(n1, wm) # aad(n)
    BY <1>7, <1>9, <1>10, RecordIsNotAad
  <2>2. protected_record_aad(n, x) = protected_record_aad(n1, wm)
    BY <1>3, <1>14, <2>1
  <2>3. n1 = n
    BY <1>6, <1>7, <1>9, <1>10, <2>2, RecordInjective
  <2>. QED
    BY <1>1, <1>4, <1>5, <1>14, <2>2, <2>3
<1>15. CASE r1.tier = "legacy" /\ s.ciphertext.aad = <<>>
  BY <1>3, <1>11, <1>12, <1>15
<1>16. \/ r1.tier = "standard" /\ s.ciphertext.aad = aad(n1)
       \/ r1.tier = "protected" /\ s.ciphertext.aad = protected_record_aad(n1, wm)
       \/ r1.tier = "legacy" /\ s.ciphertext.aad = <<>>
  BY <1>1 DEF RowOK, MixedRowIs
<1>. QED
  BY <1>13, <1>14, <1>15, <1>16

-----------------------------------------------------------------------------
(* The properties *)

\* EnvelopesAreNotTransplanted for every set of machines, names, records and
\* passphrases and any number of rows: whatever fields of stored rows are put
\* together and under whatever name, open and open_with_dek yield a value only
\* under the key, the name and the kind it was sealed with (P0 rows, which have no
\* name in them, aside), and a value from a blind box is sealed under the name the
\* browser meant.
THEOREM NoTransplant == VaultSpec => []EnvelopesAreNotTransplanted
<1>1. ASSUME VaultInv PROVE EnvelopesAreNotTransplanted
  <2>1. ASSUME NEW i \in DOMAIN rows, "boxed" \in DOMAIN rows[i].value
        PROVE  rows[i].value.boxed = rows[i].name
    <3>1. RowOK(i, rows[i])
      BY <1>1 DEF VaultInv, RowsInv
    <3>. QED
      BY <2>1, <3>1 DEF RowOK
  <2>2. ASSUME NEW s \in MixedRows, NEW n \in Names
        PROVE  /\ \A m \in Machines : \A v \in open(master[m], n, s) :
                     \E i \in DOMAIN rows :
                        /\ rows[i].value = v /\ rows[i].key = master[m]
                        /\ \/ rows[i].tier = "standard" /\ rows[i].name = n
                           \/ rows[i].tier = "legacy"
               /\ \A d \in DOMAIN rows : \A v \in open_with_dek(Key("dek", d), n, s) :
                     /\ rows[d].value = v /\ rows[d].name = n
                     /\ rows[d].tier \in {"standard", "protected"}
                     /\ rows[d].tier = "protected" =>
                           protected_record_aad(n, s.wrap_meta)
                               = protected_record_aad(n, rows[d].sealed.wrap_meta)
    <3>1. PICK i, j, k, l \in DOMAIN rows : s = MixedRow(rows[i], rows[j], rows[k], rows[l])
      BY <2>2 DEF MixedRows
    <3>2. PICK r1, r2, r3, r4 :
             r1 = rows[i] /\ r2 = rows[j] /\ r3 = rows[k] /\ r4 = rows[l]
      OBVIOUS
    <3>3. RowOK(i, r1)
      BY <1>1, <3>2 DEF VaultInv, RowsInv
    <3>4. RowOK(j, r2)
      BY <1>1, <3>2 DEF VaultInv, RowsInv
    <3>5. RowOK(k, r3)
      BY <1>1, <3>2 DEF VaultInv, RowsInv
    <3>6. RowOK(l, r4)
      BY <1>1, <3>2 DEF VaultInv, RowsInv
    <3>7. s = MixedRow(r1, r2, r3, r4)
      BY <3>1, <3>2
    <3>8. MixedRowIs(s, i, j, k, r1, r3, r4)
      BY <3>3, <3>4, <3>5, <3>7, MixedRowFields
    <3>9. ASSUME NEW m \in Machines, NEW v \in open(master[m], n, s)
          PROVE  \E x \in DOMAIN rows :
                    /\ rows[x].value = v /\ rows[x].key = master[m]
                    /\ \/ rows[x].tier = "standard" /\ rows[x].name = n
                       \/ rows[x].tier = "legacy"
      <4>1. PICK mk : mk = master[m]
        OBVIOUS
      <4>2. mk \in MasterKeys \union {NoKey}
        BY <1>1, <4>1 DEF VaultInv, MastersInv
      <4>3. i = k => r1 = r3
        BY <3>2
      <4>4. v \in open(mk, n, s)
        BY <3>9, <4>1
      <4>5. /\ r1.value = v /\ r1.key = mk
            /\ \/ r1.tier = "standard" /\ r1.name = n
               \/ r1.tier = "legacy"
        BY <2>2, <3>3, <3>5, <3>8, <4>2, <4>3, <4>4, OpenYields
      <4>. QED
        BY <3>2, <4>1, <4>5
    <3>10. ASSUME NEW d \in DOMAIN rows, NEW v \in open_with_dek(Key("dek", d), n, s)
           PROVE  /\ rows[d].value = v /\ rows[d].name = n
                  /\ rows[d].tier \in {"standard", "protected"}
                  /\ rows[d].tier = "protected" =>
                        protected_record_aad(n, s.wrap_meta)
                            = protected_record_aad(n, rows[d].sealed.wrap_meta)
      <4>1. /\ i = d /\ r1.value = v /\ r1.name = n
            /\ r1.tier \in {"standard", "protected"}
            /\ r1.tier = "protected" =>
                  protected_record_aad(n, s.wrap_meta)
                      = protected_record_aad(n, r1.sealed.wrap_meta)
        BY <2>2, <3>3, <3>6, <3>8, <3>10, OpenDekYields
      <4>. QED
        BY <3>2, <4>1
    <3>. QED
      BY <3>9, <3>10
  <2>. QED
    BY <2>1, <2>2 DEF EnvelopesAreNotTransplanted
<1>. QED
  BY <1>1, VaultInvariant, PTL

\* A row opens under its own name with its own key.
LEMMA RowOpens ==
    ASSUME NEW i, NEW r, RowOK(i, r)
    PROVE  IF r.tier = "protected"
           THEN open_with_dek(r.key, r.name, r.sealed) = {r.value}
           ELSE open(r.key, r.name, r.sealed) = {r.value}
<1>1. PICK s, ct, wm, w, n, dek :
         /\ s = r.sealed /\ ct = s.ciphertext /\ wm = s.wrap_meta /\ w = wm.wrapped_dek
         /\ n = r.name /\ dek = Key("dek", i)
  OBVIOUS
<1>2. wm.scheme = WRAP_SCHEME /\ wm.v = WRAP_META_VERSION /\ wm.dek_nonce = i
  <2>1. wm = [v |-> WRAP_META_VERSION, scheme |-> WRAP_SCHEME, wrapped_dek |-> w,
              dek_nonce |-> i, record_meta |-> wm.record_meta]
    BY <1>1 DEF RowOK, WrapMeta, WRAP_META_VERSION
  <2>. QED
    BY <2>1
<1>3. /\ s.nonce = i /\ ct.key = dek /\ ct.nonce = i /\ ct.msg = r.value
      /\ w.nonce = i /\ w.msg = dek /\ w.aad = <<>>
  BY <1>1 DEF RowOK
<1>4. Supported(wm)
  BY <1>2 DEF Supported
<1>5. CASE r.tier = "protected"
  <2>1. r.key = dek /\ ct.aad = protected_record_aad(n, wm)
    BY <1>1, <1>5 DEF RowOK
  <2>2. decrypt_with_key(dek, s.nonce, ct, protected_record_aad(n, wm)) = {r.value}
    BY <1>3, <2>1 DEF decrypt_with_key
  <2>3. open_protected_value_with_dek(dek, n, s, wm) = {r.value}
    BY <1>1, <2>2 DEF open_protected_value_with_dek
  <2>. QED
    BY <1>1, <1>4, <1>5, <2>1, <2>3 DEF open_with_dek
<1>6. CASE r.tier # "protected"
  <2>1. /\ w.key = r.key
        /\ ct.aad = aad(n) \/ ct.aad = <<>>
    BY <1>1, <1>6 DEF RowOK
  <2>2. decrypt_with_key(r.key, wm.dek_nonce, w, <<>>) = {dek}
    BY <1>2, <1>3, <2>1 DEF decrypt_with_key
  <2>3. open_value_with_dek(dek, n, s) = {r.value}
    <3>1. PICK ad : ad = aad(n)
      OBVIOUS
    <3>2. CASE ct.aad = ad
      <4>1. decrypt_with_key(dek, s.nonce, ct, ad) = {r.value}
        BY <1>3, <3>2 DEF decrypt_with_key
      <4>. QED
        BY <1>1, <3>1, <4>1 DEF open_value_with_dek
    <3>3. CASE ct.aad # ad
      <4>1. decrypt_with_key(dek, s.nonce, ct, ad) = {}
        BY <1>3, <3>3 DEF decrypt_with_key
      <4>2. decrypt_with_key(dek, s.nonce, ct, <<>>) = {r.value}
        BY <1>3, <2>1, <3>1, <3>3 DEF decrypt_with_key
      <4>. QED
        BY <1>1, <3>1, <4>1, <4>2 DEF open_value_with_dek
    <3>. QED
      BY <3>2, <3>3
  <2>4. open(r.key, n, s) = UNION {open_value_with_dek(x, n, s) : x \in {dek}}
    BY <1>1, <1>4, <2>2 DEF open
  <2>5. UNION {open_value_with_dek(x, n, s) : x \in {dek}} = {r.value}
    BY <2>3
  <2>. QED
    BY <1>1, <1>6, <2>4, <2>5
<1>. QED
  BY <1>5, <1>6

\* SealedValuesStayReadable for every instance: a row opens to what was sealed
\* wherever its master has been exported and imported to, P0 rows by the fallback
\* and protected records with their DEK, and a blind box opens to the key published
\* from that master (open, open_with_dek, open_blind_box_with_private_key).
THEOREM ValuesStayReadable == VaultSpec => []SealedValuesStayReadable
<1>1. ASSUME VaultInv PROVE SealedValuesStayReadable
  <2>1. ASSUME NEW i \in DOMAIN rows
        PROVE  IF rows[i].tier = "protected"
               THEN open_with_dek(rows[i].key, rows[i].name, rows[i].sealed) = {rows[i].value}
               ELSE \A m \in Machines : master[m] = rows[i].key =>
                       open(master[m], rows[i].name, rows[i].sealed) = {rows[i].value}
    <3>1. PICK r : r = rows[i]
      OBVIOUS
    <3>2. RowOK(i, r)
      BY <1>1, <3>1 DEF VaultInv, RowsInv
    <3>3. IF r.tier = "protected"
          THEN open_with_dek(r.key, r.name, r.sealed) = {r.value}
          ELSE open(r.key, r.name, r.sealed) = {r.value}
      BY <3>2, RowOpens
    <3>. QED
      BY <3>1, <3>3
  <2>2. ASSUME NEW i \in DOMAIN boxes, NEW m \in Machines, boxes[i].to.of = master[m]
        PROVE  open_blind_box(derive_blind_box_keypair_from_master(master[m]), boxes[i],
                              seal_context(boxes[i].value.boxed)) = {boxes[i].value}
    <3>1. BoxOK(boxes[i])
      BY <1>1 DEF VaultInv, BoxesInv
    <3>2. /\ boxes[i].to = derive_blind_box_keypair_from_master(master[m])
          /\ boxes[i].context = seal_context(boxes[i].value.boxed)
      BY <2>2, <3>1 DEF BoxOK
    <3>. QED
      BY <3>2 DEF open_blind_box
  <2>. QED
    BY <2>1, <2>2 DEF SealedValuesStayReadable
<1>. QED
  BY <1>1, VaultInvariant, PTL

\* The exports' own parameters are accepted.
LEMMA ScryptAccepted == validate_scrypt_params(SCRYPT_N)
<1>1. 2^15 >= 2 /\ 2^15 <= 2^17
  OBVIOUS
<1>2. \E e \in 1 .. 17 : 2^15 = 2^e
  OBVIOUS
<1>. QED
  BY <1>1, <1>2 DEF validate_scrypt_params, SCRYPT_N

\* What an import yields: the key of the export the ciphertext is from, if its
\* nonce, its salt and the passphrase are that export's too.
ImportIs(keys, fits, key) ==
    /\ fits => keys = {key}
    /\ ~fits => keys = {}

LEMMA ImportYields ==
    ASSUME NEW i, NEW j, NEW k, NEW b2, BlobOK(j, b2), NEW b3, b3.blob.salt = k,
           NEW b, MixedBlobIs(b, i, j, b2, b3), NEW t,
           NEW t2, t2 = trim_trailing_newlines(b2.passphrase),
           NEW keys, keys = import_master_key(b, t)
    PROVE  ImportIs(keys, i = j /\ k = j /\ t2 = t, b2.key)
<1>1. t2 = trim_trailing_newlines(b2.passphrase)
  OBVIOUS
<1>2. /\ b.scheme = EXPORT_SCHEME /\ b.n = SCRYPT_N /\ b.nonce = i /\ b.salt = k
      /\ b.ciphertext.nonce = j /\ b.ciphertext.msg = b2.key
      /\ b.ciphertext.key = [passphrase |-> t2, salt |-> j, n |-> SCRYPT_N]
      /\ b.ciphertext.aad = <<>>
  BY <1>1 DEF MixedBlobIs
<1>3. t2 # <<>>
  BY <1>1 DEF BlobOK
<1>4. validate_scrypt_params(b.n)
  BY <1>2, ScryptAccepted
<1>5. PICK kek : kek = derive_kek_scrypt(t, b.salt, b.n)
  OBVIOUS
<1>6. kek = [passphrase |-> t, salt |-> k, n |-> SCRYPT_N]
  BY <1>2, <1>5 DEF derive_kek_scrypt
<1>7. b.ciphertext.key = kek <=> t2 = t /\ j = k
  <2>1. ASSUME b.ciphertext.key = kek PROVE t2 = t /\ j = k
    <3>1. [passphrase |-> t2, salt |-> j, n |-> SCRYPT_N]
            = [passphrase |-> t, salt |-> k, n |-> SCRYPT_N]
      BY <1>2, <1>6, <2>1
    <3>. QED
      BY <3>1
  <2>. QED
    BY <1>2, <1>6, <2>1
<1>8. decrypt_with_key(kek, b.nonce, b.ciphertext, <<>>) =
         IF t2 = t /\ j = k /\ i = j THEN {b2.key} ELSE {}
  BY <1>2, <1>7 DEF decrypt_with_key
<1>9. import_master_key(b, t) =
         IF t # <<>> THEN decrypt_with_key(kek, b.nonce, b.ciphertext, <<>>) ELSE {}
  BY <1>2, <1>4, <1>5 DEF import_master_key
<1>. QED
  BY <1>1, <1>3, <1>8, <1>9 DEF ImportIs

\* ExportsRestoreTheirKey for every instance: an import gives the key of an export,
\* to its passphrase, typed with whatever line ends, and only to it; parts of several
\* exports give nothing (key export, key import, trim_trailing_newlines).
THEOREM ExportsRestore == VaultSpec => []ExportsRestoreTheirKey
<1>1. ASSUME VaultInv, NEW b \in MixedBlobs, NEW p \in Passphrases
      PROVE  import_master_key(b, trim_trailing_newlines(p))
                 = {blobs[x].key : x \in {x \in DOMAIN blobs :
                        blobs[x].blob = b /\ SamePassphrase(blobs[x].passphrase, p)}}
  <2>1. PICK i, j, k \in DOMAIN blobs : b = MixedBlob(blobs[i], blobs[j], blobs[k])
    BY <1>1 DEF MixedBlobs
  <2>2. PICK b1, b2, b3 : b1 = blobs[i] /\ b2 = blobs[j] /\ b3 = blobs[k]
    OBVIOUS
  <2>3. PICK t, t2 : t = trim_trailing_newlines(p) /\ t2 = trim_trailing_newlines(b2.passphrase)
    OBVIOUS
  <2>4. BlobOK(i, b1)
    BY <1>1, <2>2 DEF VaultInv, BlobsInv
  <2>5. BlobOK(j, b2)
    BY <1>1, <2>2 DEF VaultInv, BlobsInv
  <2>6. BlobOK(k, b3)
    BY <1>1, <2>2 DEF VaultInv, BlobsInv
  <2>7. b3.blob.salt = k
    BY <2>6 DEF BlobOK
  <2>8. b = MixedBlob(b1, b2, b3)
    BY <2>1, <2>2
  <2>9. MixedBlobIs(b, i, j, b2, b3)
    BY <2>4, <2>5, <2>8, MixedBlobFields
  <2>16. PICK keys : keys = import_master_key(b, t)
    OBVIOUS
  <2>17. ImportIs(keys, i = j /\ k = j /\ t2 = t, b2.key)
    BY <2>3, <2>5, <2>7, <2>9, <2>16, ImportYields
  <2>10. import_master_key(b, t) = IF i = j /\ k = j /\ t2 = t THEN {b2.key} ELSE {}
    BY <2>16, <2>17 DEF ImportIs
  <2>11. \A x \in DOMAIN blobs :
            SamePassphrase(blobs[x].passphrase, p)
                <=> trim_trailing_newlines(blobs[x].passphrase) = t
    <3>1. ASSUME NEW x \in DOMAIN blobs
          PROVE  SamePassphrase(blobs[x].passphrase, p)
                    <=> trim_trailing_newlines(blobs[x].passphrase) = t
      <4>1. PICK q : q = blobs[x].passphrase
        OBVIOUS
      <4>2. q \in Passphrases
        BY <1>1, <4>1 DEF VaultInv, BlobsInv, BlobOK
      <4>3. q \in Seq(STRING) /\ p \in Seq(STRING)
        BY <1>1, <4>2, VaultAssumption
      <4>. QED
        BY <2>3, <4>1, <4>3, TrimmedTheSame
    <3>. QED
      BY <3>1
  <2>12. \A x \in DOMAIN blobs : blobs[x].blob = b => x = i /\ x = j /\ x = k
    <3>1. ASSUME NEW x \in DOMAIN blobs, blobs[x].blob = b PROVE x = i /\ x = j /\ x = k
      <4>1. BlobOK(x, blobs[x])
        BY <1>1 DEF VaultInv, BlobsInv
      <4>2. b.nonce = x /\ b.salt = x
        BY <3>1, <4>1 DEF BlobOK
      <4>3. b.ciphertext.nonce = x
        BY <3>1, <4>1 DEF BlobOK, encrypt_with_key
      <4>. QED
        BY <2>7, <2>9, <4>2, <4>3 DEF MixedBlobIs
    <3>. QED
      BY <3>1
  <2>13. i = j /\ k = j => blobs[j].blob = b
    <3>1. b = [scheme |-> EXPORT_SCHEME, n |-> SCRYPT_N, salt |-> k,
               nonce |-> i, ciphertext |-> b2.blob.ciphertext]
      BY <2>7, <2>9 DEF MixedBlobIs
    <3>2. PICK c : c = b2.blob.ciphertext
      OBVIOUS
    <3>3. b2.blob = [scheme |-> EXPORT_SCHEME, n |-> SCRYPT_N, salt |-> j, nonce |-> j,
                     ciphertext |-> c]
      BY <2>5, <3>2 DEF BlobOK
    <3>. QED
      BY <2>2, <3>1, <3>2, <3>3
  <2> DEFINE X == {x \in DOMAIN blobs :
                      blobs[x].blob = b /\ SamePassphrase(blobs[x].passphrase, p)}
  <2>14. CASE i = j /\ k = j /\ t2 = t
    <3>1. j \in X
      BY <2>2, <2>3, <2>11, <2>13, <2>14
    <3>2. \A x \in X : x = j
      BY <2>12
    <3>3. {blobs[x].key : x \in X} = {blobs[j].key}
      BY <3>1, <3>2
    <3>. QED
      BY <2>2, <2>3, <2>10, <2>14, <3>3
  <2>15. CASE ~(i = j /\ k = j /\ t2 = t)
    <3>1. ASSUME NEW x \in X PROVE FALSE
      <4>1. x = i /\ x = j /\ x = k
        BY <2>12
      <4>2. trim_trailing_newlines(blobs[x].passphrase) = t
        BY <2>11
      <4>. QED
        BY <2>2, <2>3, <2>15, <4>1, <4>2
    <3>2. X = {}
      BY <3>1
    <3>3. {blobs[x].key : x \in X} = {}
      BY <3>2
    <3>. QED
      BY <2>3, <2>10, <2>15, <3>3
  <2>. QED
    BY <2>14, <2>15
<1>2. VaultInv => ExportsRestoreTheirKey
  BY <1>1 DEF ExportsRestoreTheirKey
<1>. QED
  BY <1>2, VaultInvariant, PTL

-----------------------------------------------------------------------------
(* Deliver: the invariant *)

Secret == [target: STRING, fault: Faults]

\* The first secrets of the request.
Prefix(s) ==
    /\ s \in Seq(Secret) /\ Len(s) <= N
    /\ \A i \in 1..Len(s) : s[i] = Secrets[i]

\* The first n of them can be opened and have targets of their own.
Accepted(n) ==
    \A i \in 1..n :
        /\ Secrets[i].fault \notin {"tier", "name", "open"}
        /\ \A j \in 1..n : Secrets[i].target = Secrets[j].target => i = j

\* Field f of the frame of the whole request.
Item(f) ==
    CASE f = 1 -> [kind |-> "magic"]
      [] f = 2 -> [kind |-> "count", n |-> N]
      [] OTHER -> [kind |-> IF f % 2 = 1 THEN "name" ELSE "value",
                   secret |-> Secrets[(f - 1) \div 2]]
FrameItems == {Item(f) : f \in 1..(2 + 2 * N)}

\* Fields the helper has read.
HasRead == written - Len(pipe)

Opening == {"start", "open", "spawn", "helper"}
Writing == {"temp", "temp_sync", "persist", "dir_sync"}
HandedOver == {"spawn", "helper", "write", "render"}

Types ==
    /\ job \in Jobs
    /\ at \in {"start", "open", "spawn", "helper", "write", "kill", "reap", "wait",
              "render", "temp", "temp_sync", "persist", "dir_sync",
              "done", "failed", "killed"}
    /\ hat \in Reading \union {"off", "exec", "child", "exited", "killed"}
    /\ written \in 0..(2 + 2 * N)
    /\ pipe \in Seq(FrameItems) /\ Len(pipe) <= PipeCap /\ Len(pipe) <= written
    /\ need \in 0..MaxSecrets
    /\ alive \in BOOLEAN

\* What the deliverer holds, and where.
OpenInv ==
    /\ Prefix(opened) /\ Accepted(Len(opened))
    /\ at \in HandedOver => Len(opened) = N
    /\ at \notin HandedOver \union {"open"} => opened = <<>>
    /\ at \in Writing => rendered = All
    /\ at \notin Writing => rendered = None
    /\ at \in {"spawn", "helper", "write", "kill", "reap", "wait"} => job.what = "run"
    /\ at \in Writing \union {"render"} => job.what = "inject"
    /\ at \in {"helper", "write", "kill", "reap"} => job.by = "agent"

\* What is in the pipe, and that no secret that cannot be sent was.
PipeInv ==
    /\ \A i \in 1..Len(pipe) : pipe[i] = Item(HasRead + i)
    /\ \A j \in 1..N : 2 * j + 1 <= written => Secrets[j].fault # "text"

\* What the helper has read at each of its steps, and when there is one.
HelperInv ==
    /\ Prefix(got) /\ Len(got) + need <= N
    /\ hat = "off" => written = 0 /\ pipe = <<>>
    /\ hat \in {"off", "magic", "count"} => got = <<>> /\ need = 0
    /\ hat = "magic" => HasRead = 0
    /\ hat = "count" => HasRead = 1
    /\ hat \in {"name", "value"} => need > 0 /\ Len(got) + need = N
    /\ hat = "name" => HasRead = 2 + 2 * Len(got)
    /\ hat = "value" => HasRead = 3 + 2 * Len(got)
    /\ hat = "exec" => Len(got) = N /\ HasRead = 2 + 2 * N

HelperLife ==
    /\ hat # "off" => job.what = "run" /\ job.by = "agent" /\ Accepted(N)
    /\ at \in Opening \union Writing \union {"render"} => hat = "off"
    /\ at \in {"write", "kill", "reap"} => hat # "off"
    /\ at \in {"done", "failed"} => hat \in {"off", "exited", "killed"}

\* The command's environment, and the files.
ChildInv ==
    child # None =>
        /\ job.what = "run" /\ child = All /\ Accepted(N)
        /\ \A i \in 1..N : Secrets[i].fault # "text"

Whole == [text |-> All, synced |-> TRUE]

FileInv ==
    /\ \A f \in {file, disk} :
        \/ f = None
        \/ f = [text |-> Existing, synced |-> TRUE]
        \/ job.what = "inject" /\ f = Whole
    /\ at = "temp_sync" => \E b \in BOOLEAN : tmp = [text |-> All, synced |-> b]
    /\ at = "persist" => tmp = Whole
    /\ at = "dir_sync" => file = Whole
    /\ (at = "done" /\ job.what = "inject") => disk = Whole

DeliverInv ==
    Types /\ OpenInv /\ PipeInv /\ HelperInv /\ HelperLife /\ ChildInv /\ FileInv

-----------------------------------------------------------------------------
(* The request and its frame *)

LEMMA JobFacts ==
    ASSUME job \in Jobs
    PROVE  /\ Secrets \in Seq(Secret) /\ N \in Nat /\ DOMAIN Secrets = 1..N
           /\ job.by \in {"cli", "agent"} /\ job.what \in {"run", "inject"}
           /\ Whole # None
<1>1. job \in Job
  BY DeliverAssumption
<1>2. Secrets \in Seq(Secret)
  BY <1>1 DEF Secrets, Job, Secret
<1>3. N \in Nat /\ DOMAIN Secrets = 1..N
  BY <1>2 DEF N
<1>4. job.by \in {"cli", "agent"} /\ job.what \in {"run", "inject"}
  BY <1>1 DEF Job
<1>5. Whole # None
  BY DeliverAssumption DEF Whole, All, Secrets
<1>6. QED
  BY <1>2, <1>3, <1>4, <1>5

\* A request stays what it is.
LEMMA JobKept ==
    ASSUME job' = job
    PROVE  /\ Secrets' = Secrets /\ N' = N /\ All' = All /\ Whole' = Whole
           /\ \A f : Item(f)' = Item(f)
           /\ FrameItems' = FrameItems
           /\ \A n : Accepted(n)' <=> Accepted(n)
<1>1. Secrets' = Secrets /\ N' = N /\ All' = All /\ Whole' = Whole
  BY DEF Secrets, N, All, Whole
<1>2. \A f : Item(f)' = Item(f)
  BY <1>1 DEF Item
<1>3. FrameItems' = FrameItems
  BY <1>1, <1>2 DEF FrameItems
<1>4. \A n : Accepted(n)' <=> Accepted(n)
  BY <1>1 DEF Accepted
<1>5. QED
  BY <1>1, <1>2, <1>3, <1>4

LEMMA WholePrefix ==
    ASSUME job \in Jobs, NEW s, Prefix(s), Len(s) = N
    PROVE  s = Secrets /\ Targets(s) = All
<1>1. s = Secrets
  BY JobFacts, SeqEqual DEF Prefix, N
<1>2. QED
  BY <1>1 DEF All

\* The fields of the frame in order, and that the deliverer writes those.
LEMMA FrameFields ==
    ASSUME job \in Jobs
    PROVE  /\ Item(1) = [kind |-> "magic"]
           /\ Item(2) = [kind |-> "count", n |-> N]
           /\ \A j \in 1..N :
                /\ Item(2 * j + 1) = [kind |-> "name", secret |-> Secrets[j]]
                /\ Item(2 * j + 2) = [kind |-> "value", secret |-> Secrets[j]]
<1>1. Item(1) = [kind |-> "magic"] /\ Item(2) = [kind |-> "count", n |-> N]
  BY DEF Item
<1>2. ASSUME NEW j \in 1..N
      PROVE  /\ Item(2 * j + 1) = [kind |-> "name", secret |-> Secrets[j]]
             /\ Item(2 * j + 2) = [kind |-> "value", secret |-> Secrets[j]]
  <2>0. j \in Nat /\ j >= 1
    BY JobFacts
  <2>1. /\ (2 * j + 1) % 2 = 1 /\ ((2 * j + 1) - 1) \div 2 = j
        /\ (2 * j + 2) % 2 = 0 /\ ((2 * j + 2) - 1) \div 2 = j
    BY <2>0
  <2>2. 2 * j + 1 # 1 /\ 2 * j + 1 # 2 /\ 2 * j + 2 # 1 /\ 2 * j + 2 # 2
    BY <2>0
  <2>3. QED
    BY <2>1, <2>2 DEF Item
<1>3. QED
  BY <1>1, <1>2

LEMMA FieldIsItem ==
    ASSUME job \in Jobs, opened = Secrets, NEW f \in 1..(2 + 2 * N)
    PROVE  Field(f) = Item(f) /\ Item(f) \in FrameItems /\ FrameLen = 2 + 2 * N
<1>1. Len(opened) = N
  BY DEF N
<1>2. Field(f) = Item(f)
  BY <1>1 DEF Field, Item
<1>3. Item(f) \in FrameItems
  BY DEF FrameItems
<1>4. FrameLen = 2 + 2 * N
  BY <1>1 DEF FrameLen
<1>5. QED
  BY <1>2, <1>3, <1>4

-----------------------------------------------------------------------------
(* Parts of the invariant that a step leaves alone *)

LEMMA PipeKept ==
    ASSUME PipeInv, UNCHANGED <<job, written, pipe>>
    PROVE  PipeInv'
  BY JobKept DEF PipeInv, HasRead

LEMMA HelperKept ==
    ASSUME HelperInv, UNCHANGED <<job, written, pipe, helper>>
    PROVE  HelperInv'
  BY JobKept DEF HelperInv, HasRead, helper, Prefix

LEMMA ChildKept ==
    ASSUME ChildInv, UNCHANGED <<job, child>>
    PROVE  ChildInv'
  BY JobKept DEF ChildInv

LEMMA InitInv == DeliverInit => DeliverInv
<1>1. SUFFICES ASSUME DeliverInit PROVE DeliverInv
  OBVIOUS
<1>2. /\ job \in Jobs
      /\ at = "start" /\ opened = <<>> /\ rendered = None /\ written = 0
      /\ pipe = <<>> /\ hat = "off" /\ need = 0 /\ got = <<>>
      /\ child = None /\ alive = FALSE
      /\ tmp = None /\ file = FileBefore /\ disk = FileBefore
  BY <1>1 DEF DeliverInit, NothingDone
<1>3. N \in Nat
  BY <1>2, JobFacts
<1>4. Len(<<>>) = 0 /\ <<>> \in Seq(Secret) /\ <<>> \in Seq(FrameItems)
  BY EmptySeq
<1>5. Prefix(<<>>) /\ Accepted(0)
  BY <1>3, <1>4 DEF Prefix, Accepted
<1>6. Types
  <2>1. MaxSecrets \in Nat /\ PipeCap \in Nat
    BY DeliverAssumption
  <2>2. pipe \in Seq(FrameItems) /\ Len(pipe) = 0
    BY <1>2, <1>4
  <2>3. written \in 0..(2 + 2 * N) /\ need \in 0..MaxSecrets
    BY <1>2, <1>3, <2>1
  <2>4. hat \in Reading \union {"off", "exec", "child", "exited", "killed"}
    BY <1>2
  <2>5. Len(pipe) <= PipeCap /\ Len(pipe) <= written
    BY <1>2, <2>1, <2>2
  <2>6. alive \in BOOLEAN
    BY <1>2
  <2>7. QED
    BY <1>2, <2>2, <2>3, <2>4, <2>5, <2>6 DEF Types
<1>7. OpenInv
  BY <1>2, <1>4, <1>5 DEF OpenInv, HandedOver, Writing
<1>8. PipeInv
  BY <1>2, <1>3, <1>4 DEF PipeInv, HasRead
<1>9. HelperInv
  BY <1>2, <1>3, <1>4, <1>5 DEF HelperInv
<1>10. HelperLife /\ ChildInv
  BY <1>2 DEF HelperLife, ChildInv
<1>11. FileInv
  BY <1>2 DEF FileInv, FileBefore
<1>12. QED
  BY <1>6, <1>7, <1>8, <1>9, <1>10, <1>11 DEF DeliverInv

-----------------------------------------------------------------------------
(* Steps of the deliverer that touch nothing else *)

\* Such a step keeps the invariant if what it leaves the deliverer with is right.
LEMMA OnlyDelivererStep ==
    ASSUME DeliverInv, OnlyDeliverer, at' \in {"open", "spawn", "helper", "kill", "reap",
               "wait", "render", "temp", "done", "failed", "killed"},
           OpenInv', HelperLife',
           (at' = "done" /\ job.what = "inject") => at = "done"
    PROVE  DeliverInv'
<1>1. UNCHANGED <<job, written, pipe, helper, child, alive, tmp, file, disk>>
  BY DEF OnlyDeliverer, files
<1>2. Types'
  BY <1>1, JobKept DEF DeliverInv, Types, helper
<1>3. PipeInv' /\ HelperInv' /\ ChildInv'
  BY <1>1, PipeKept, HelperKept, ChildKept DEF DeliverInv
<1>4. FileInv'
  BY <1>1, JobKept DEF DeliverInv, FileInv
<1>5. QED
  BY <1>2, <1>3, <1>4 DEF DeliverInv

\* Leaving a step, or ending, with nothing held.
LEMMA LeaveStep ==
    ASSUME DeliverInv, NEW l \in {"kill", "wait", "failed", "killed"}, Leave(l), OnlyDeliverer,
           l \in {"kill", "wait"} => at = "write",
           l = "failed" => hat = "off"
    PROVE  DeliverInv'
<1>1. /\ at' = l /\ opened' = <<>> /\ rendered' = None
      /\ job' = job /\ hat' = hat
  BY DEF Leave, OnlyDeliverer, helper
<1>2. Prefix(opened)' /\ Accepted(Len(opened))'
  <2>1. Len(<<>>) = 0 /\ <<>> \in Seq(Secret) /\ N \in Nat
    BY EmptySeq, JobFacts DEF DeliverInv, Types
  <2>2. QED
    BY <1>1, <2>1, JobKept DEF Prefix, Accepted
<1>3. OpenInv'
  BY <1>1, <1>2 DEF DeliverInv, OpenInv, HandedOver, Writing
<1>4. HelperLife'
  BY <1>1, JobKept DEF DeliverInv, HelperLife, Opening, Writing
<1>5. QED
  BY <1>1, <1>3, <1>4, OnlyDelivererStep

LEMMA BeginInv ==
    ASSUME DeliverInv, Begin
    PROVE  DeliverInv'
<1>1. CASE Goto("open")
  <2>1. /\ at = "start" /\ at' = "open" /\ opened' = opened /\ rendered' = rendered
        /\ job' = job /\ hat' = hat
    BY <1>1 DEF Begin, Goto, OnlyDeliverer, helper
  <2>2. OpenInv'
    BY <2>1, JobKept DEF DeliverInv, OpenInv, Prefix, HandedOver, Writing
  <2>3. HelperLife'
    BY <2>1, JobKept DEF DeliverInv, HelperLife, Opening, Writing
  <2>4. QED
    BY <2>1, <2>2, <2>3, OnlyDelivererStep DEF Begin
<1>2. CASE Leave("failed")
  <2>1. hat = "off"
    BY DEF DeliverInv, HelperLife, Begin, Opening
  <2>2. QED
    BY <1>2, <2>1, LeaveStep DEF Begin
<1>3. QED
  BY <1>1, <1>2 DEF Begin

LEMMA OpenNextInv ==
    ASSUME DeliverInv, OpenNext
    PROVE  DeliverInv'
<1> DEFINE n == Len(opened)
           s == Secrets[n + 1]
<1>1. /\ n \in Nat /\ N \in Nat /\ n < N /\ s \in Secret /\ opened \in Seq(Secret)
      /\ \A i \in 1..n : opened[i] = Secrets[i]
      /\ DOMAIN opened = 1..n
  BY JobFacts DEF DeliverInv, Types, OpenInv, Prefix, OpenNext, N
<1>2. CASE Leave("failed")
  <2>1. hat = "off"
    BY DEF DeliverInv, HelperLife, OpenNext, Opening
  <2>2. QED
    BY <1>2, <2>1, LeaveStep DEF OpenNext
<1>3. CASE /\ s.fault \notin {"tier", "name", "open"}
           /\ \A i \in DOMAIN opened : opened[i].target # s.target
           /\ opened' = Append(opened, s) /\ UNCHANGED <<at, rendered>>
  <2>1. /\ at = "open" /\ at' = "open" /\ rendered' = rendered /\ job' = job /\ hat' = hat
    BY <1>3 DEF OpenNext, OnlyDeliverer, helper
  <2>2. /\ opened' \in Seq(Secret) /\ Len(opened') = n + 1
        /\ \A i \in 1..(n + 1) : opened'[i] = Secrets[i]
    BY <1>1, <1>3
  <2>3. Prefix(opened)'
    BY <1>1, <2>1, <2>2, JobKept DEF Prefix
  <2>4. Accepted(n + 1)
    <3>1. Accepted(n) /\ \A i \in 1..n : Secrets[i].target # s.target
      BY <1>1, <1>3 DEF DeliverInv, OpenInv
    <3>2. QED
      BY <1>1, <1>3, <3>1 DEF Accepted
  <2>5. OpenInv'
    BY <2>1, <2>2, <2>3, <2>4, JobKept DEF DeliverInv, OpenInv, HandedOver, Writing
  <2>6. HelperLife'
    BY <2>1, JobKept DEF DeliverInv, HelperLife, Opening, Writing
  <2>7. QED
    BY <2>1, <2>5, <2>6, OnlyDelivererStep DEF OpenNext
<1>4. QED
  BY <1>2, <1>3 DEF OpenNext

LEMMA OpenedInv ==
    ASSUME DeliverInv, Opened
    PROVE  DeliverInv'
<1>1. PICK l \in {"render", "spawn", "helper"} :
        /\ at = "open" /\ Len(opened) = N /\ Goto(l)
        /\ l = "render" => job.what = "inject"
        /\ l # "render" => job.what = "run"
        /\ l = "helper" => job.by = "agent"
  BY JobFacts DEF Opened, DeliverInv, Types
<1>2. /\ at' = l /\ opened' = opened /\ rendered' = rendered /\ job' = job /\ hat' = hat
  BY <1>1 DEF Goto, Opened, OnlyDeliverer, helper
<1>3. OpenInv'
  BY <1>1, <1>2, JobKept DEF DeliverInv, OpenInv, Prefix, HandedOver, Writing
<1>4. HelperLife'
  BY <1>1, <1>2, JobKept DEF DeliverInv, HelperLife, Opening, Writing
<1>5. QED
  BY <1>2, <1>3, <1>4, OnlyDelivererStep DEF Opened

\* The frame is complete, or given up; the deliverer dies.
LEMMA FrameEndInv ==
    ASSUME DeliverInv, FrameWritten \/ WriteFails \/ Killed
    PROVE  DeliverInv'
  BY LeaveStep DEF FrameWritten, WriteFails, Killed

LEMMA WaitInv ==
    ASSUME DeliverInv, Wait
    PROVE  DeliverInv'
<1>1. PICK l \in {"done", "failed"} :
        /\ at \in {"wait", "reap"} /\ Goto(l)
        /\ IF job.by = "cli" THEN ~alive ELSE HelperGone
  BY DEF Wait
<1>2. /\ at' = l /\ opened' = opened /\ rendered' = rendered /\ job' = job /\ hat' = hat
  BY <1>1 DEF Goto, Wait, OnlyDeliverer, helper
<1>3. OpenInv'
  BY <1>1, <1>2, JobKept DEF DeliverInv, OpenInv, Prefix, HandedOver, Writing
<1>4. hat \in {"off", "exited", "killed"} /\ job.what = "run"
  BY <1>1 DEF HelperGone, DeliverInv, HelperLife, OpenInv
<1>5. HelperLife'
  BY <1>1, <1>2, <1>4, JobKept DEF DeliverInv, HelperLife, Opening, Writing
<1>6. QED
  BY <1>2, <1>3, <1>4, <1>5, OnlyDelivererStep DEF Wait

LEMMA RenderInv ==
    ASSUME DeliverInv, Render
    PROVE  DeliverInv'
<1>1. CASE Leave("failed")
  <2>1. hat = "off"
    BY DEF DeliverInv, HelperLife, Render
  <2>2. QED
    BY <1>1, <2>1, LeaveStep DEF Render
<1>2. CASE at' = "temp" /\ opened' = <<>> /\ rendered' = Targets(opened)
  <2>1. Prefix(opened) /\ Len(opened) = N /\ job \in Jobs
    BY DEF DeliverInv, Types, OpenInv, Render, HandedOver
  <2>2. Targets(opened) = All
    BY <2>1, WholePrefix
  <2>3. job' = job /\ hat' = hat /\ at = "render"
    BY DEF Render, OnlyDeliverer, helper
  <2>4. Prefix(opened)' /\ Accepted(Len(opened))'
    <3>1. Len(<<>>) = 0 /\ <<>> \in Seq(Secret) /\ N \in Nat
      BY <2>1, EmptySeq, JobFacts
    <3>2. QED
      BY <1>2, <2>3, <3>1, JobKept DEF Prefix, Accepted
  <2>5. OpenInv'
    BY <1>2, <2>2, <2>3, <2>4, JobKept DEF DeliverInv, OpenInv, HandedOver, Writing
  <2>6. HelperLife'
    BY <1>2, <2>3, JobKept DEF DeliverInv, HelperLife, Opening, Writing
  <2>7. QED
    BY <1>2, <2>5, <2>6, OnlyDelivererStep DEF Render
<1>3. QED
  BY <1>1, <1>2 DEF Render

LEMMA SyncDirFailsInv ==
    ASSUME DeliverInv, SyncDirFails
    PROVE  DeliverInv'
<1>1. hat = "off"
  BY DEF DeliverInv, HelperLife, SyncDirFails, Writing
<1>2. QED
  BY <1>1, LeaveStep DEF SyncDirFails

-----------------------------------------------------------------------------
(* The command, one-shot, and the agent's side of the pipe *)

LEMMA SpawnChildInv ==
    ASSUME DeliverInv, SpawnChild
    PROVE  DeliverInv'
<1>1. /\ at = "spawn" /\ job' = job /\ written' = written /\ pipe' = pipe
      /\ helper' = helper /\ hat' = hat /\ need' = need /\ got' = got
      /\ tmp' = tmp /\ file' = file /\ disk' = disk
  BY DEF SpawnChild, helper, files
<1>2. CASE Leave("failed") /\ UNCHANGED <<child, alive>>
  <2>1. hat = "off"
    BY <1>1 DEF DeliverInv, HelperLife, Opening
  <2>2. OnlyDeliverer
    BY <1>1, <1>2 DEF OnlyDeliverer, helper, files
  <2>3. QED
    BY <1>2, <2>1, <2>2, LeaveStep
<1>3. CASE Deliverable /\ child' = Targets(opened) /\ alive' = TRUE /\ Leave("wait")
  <2>1. /\ job \in Jobs /\ Prefix(opened) /\ Len(opened) = N /\ Accepted(N)
        /\ job.what = "run" /\ hat = "off"
    BY <1>1 DEF DeliverInv, Types, OpenInv, HandedOver, HelperLife, Opening
  <2>2. opened = Secrets /\ Targets(opened) = All
    BY <2>1, WholePrefix
  <2>3. at' = "wait" /\ opened' = <<>> /\ rendered' = None
    BY <1>3 DEF Leave
  <2>4. Types'
    BY <1>1, <1>3, <2>3, JobKept DEF DeliverInv, Types
  <2>5. OpenInv'
    <3>1. Len(<<>>) = 0 /\ <<>> \in Seq(Secret) /\ N \in Nat
      BY <2>1, EmptySeq, JobFacts
    <3>2. Prefix(opened)' /\ Accepted(Len(opened))'
      BY <1>1, <2>3, <3>1, JobKept DEF Prefix, Accepted
    <3>3. QED
      BY <1>1, <2>1, <2>3, <3>2, JobKept DEF OpenInv, HandedOver, Writing
  <2>6. PipeInv' /\ HelperInv'
    BY <1>1, PipeKept, HelperKept DEF DeliverInv
  <2>7. HelperLife'
    BY <1>1, <2>1, <2>3 DEF HelperLife, Opening, Writing
  <2>8. ChildInv'
    <3>1. \A i \in 1..N : Secrets[i].fault # "text"
      BY <1>3, <2>1, <2>2, JobFacts DEF Deliverable
    <3>2. QED
      BY <1>1, <1>3, <2>1, <2>2, <3>1, JobKept DEF ChildInv
  <2>9. FileInv'
    BY <1>1, <2>3, JobKept DEF DeliverInv, FileInv
  <2>10. QED
    BY <2>4, <2>5, <2>6, <2>7, <2>8, <2>9 DEF DeliverInv
<1>4. QED
  BY <1>2, <1>3 DEF SpawnChild

LEMMA SpawnHelperInv ==
    ASSUME DeliverInv, SpawnHelper
    PROVE  DeliverInv'
<1>1. /\ at = "helper" /\ job' = job /\ written' = written /\ pipe' = pipe
      /\ need' = need /\ got' = got /\ child' = child /\ alive' = alive
      /\ tmp' = tmp /\ file' = file /\ disk' = disk
  BY DEF SpawnHelper, files
<1>2. /\ job \in Jobs /\ Len(opened) = N /\ Accepted(N) /\ job.what = "run"
      /\ job.by = "agent" /\ hat = "off"
  BY <1>1 DEF DeliverInv, Types, OpenInv, HandedOver, HelperLife, Opening
<1>3. CASE Leave("failed") /\ UNCHANGED hat
  <2>1. OnlyDeliverer
    BY <1>1, <1>3 DEF OnlyDeliverer, helper, files
  <2>2. QED
    BY <1>2, <1>3, <2>1, LeaveStep
<1>4. CASE Goto("write") /\ hat' = "magic"
  <2>1. at' = "write" /\ opened' = opened /\ rendered' = rendered
    BY <1>4 DEF Goto
  <2>2. Types'
    BY <1>1, <1>4, <2>1, JobKept DEF DeliverInv, Types, Reading
  <2>3. OpenInv'
    BY <1>1, <1>2, <2>1, JobKept DEF DeliverInv, OpenInv, Prefix, HandedOver, Writing
  <2>4. PipeInv' /\ ChildInv'
    BY <1>1, PipeKept, ChildKept DEF DeliverInv
  <2>5. HelperInv'
    <3>1. written = 0 /\ Len(pipe) = 0 /\ got = <<>> /\ need = 0
      BY <1>2, EmptySeq DEF DeliverInv, HelperInv
    <3>2. QED
      BY <1>1, <1>4, <3>1, JobKept DEF DeliverInv, HelperInv, HasRead, Prefix
  <2>6. HelperLife'
    BY <1>1, <1>2, <1>4, <2>1, JobKept DEF HelperLife, Opening, Writing
  <2>7. FileInv'
    BY <1>1, <2>1, JobKept DEF DeliverInv, FileInv
  <2>8. QED
    BY <2>2, <2>3, <2>4, <2>5, <2>6, <2>7 DEF DeliverInv
<1>5. QED
  BY <1>3, <1>4 DEF SpawnHelper

\* The next field goes into the pipe, which is the next one of the whole frame.
LEMMA WriteFieldInv ==
    ASSUME DeliverInv, WriteField
    PROVE  DeliverInv'
<1>1. /\ at = "write" /\ written < FrameLen /\ Sendable(written + 1)
      /\ Len(pipe) < PipeCap /\ pipe' = Append(pipe, Field(written + 1))
      /\ written' = written + 1
      /\ job' = job /\ at' = at /\ opened' = opened /\ rendered' = rendered
      /\ hat' = hat /\ need' = need /\ got' = got /\ child' = child /\ alive' = alive
      /\ tmp' = tmp /\ file' = file /\ disk' = disk
  BY DEF WriteField, helper, files
<1>2. /\ job \in Jobs /\ N \in Nat /\ Prefix(opened) /\ Len(opened) = N
      /\ written \in 0..(2 + 2 * N) /\ pipe \in Seq(FrameItems) /\ Len(pipe) <= written
      /\ hat # "off" /\ PipeCap \in Nat
  BY <1>1, JobFacts, DeliverAssumption
  DEF DeliverInv, Types, OpenInv, HandedOver, HelperLife
<1>3. opened = Secrets
  BY <1>2, WholePrefix
<1>4. written + 1 \in 1..(2 + 2 * N)
  BY <1>1, <1>2 DEF FrameLen
<1>5. Field(written + 1) = Item(written + 1) /\ Item(written + 1) \in FrameItems
  BY <1>2, <1>3, <1>4, FieldIsItem
<1>6. /\ pipe' \in Seq(FrameItems) /\ Len(pipe') = Len(pipe) + 1
      /\ \A i \in 1..Len(pipe) : pipe'[i] = pipe[i]
      /\ pipe'[Len(pipe) + 1] = Item(written + 1)
  BY <1>1, <1>2, <1>5
<1>7. Len(pipe) \in Nat /\ written \in Nat /\ HasRead' = HasRead
      /\ HasRead + Len(pipe) = written
  BY <1>1, <1>2, <1>6 DEF HasRead
<1>8. Types'
  BY <1>1, <1>2, <1>4, <1>6, <1>7, JobKept DEF DeliverInv, Types
<1>9. OpenInv'
  BY <1>1, JobKept DEF DeliverInv, OpenInv, Prefix
<1>10. PipeInv'
  <2>1. ASSUME NEW i \in 1..(Len(pipe) + 1)
        PROVE  pipe'[i] = Item(HasRead + i)
    <3>1. CASE i \in 1..Len(pipe)
      BY <1>6, <3>1 DEF DeliverInv, PipeInv
    <3>2. CASE i = Len(pipe) + 1
      <4>1. HasRead + i = written + 1
        BY <1>7, <3>2 DEF HasRead
      <4>2. QED
        BY <1>6, <3>2, <4>1
    <3>3. QED
      BY <1>7, <3>1, <3>2
  <2>2. ASSUME NEW j \in 1..N, 2 * j + 1 <= written + 1
        PROVE  Secrets[j].fault # "text"
    <3>1. CASE 2 * j + 1 <= written
      BY <3>1 DEF DeliverInv, PipeInv
    <3>2. CASE 2 * j + 1 = written + 1
      <4>1. written + 1 > 2 /\ ((written + 1) - 1) \div 2 = j
        BY <1>2, <1>7, <3>2
      <4>2. opened[j].fault # "text"
        BY <1>1, <4>1 DEF Sendable
      <4>3. QED
        BY <1>3, <4>2
    <3>3. QED
      BY <1>2, <1>7, <2>2, <3>1, <3>2
  <2>3. QED
    BY <1>1, <1>6, <1>7, <2>1, <2>2, JobKept DEF PipeInv
<1>11. HelperInv'
  BY <1>1, <1>2, <1>7, JobKept DEF DeliverInv, HelperInv, Prefix
<1>12. HelperLife' /\ ChildInv' /\ FileInv'
  BY <1>1, JobKept DEF DeliverInv, HelperLife, ChildInv, FileInv
<1>13. QED
  BY <1>8, <1>9, <1>10, <1>11, <1>12 DEF DeliverInv

\* A field is read: it is the next of the frame, and the rest stays in order.
LEMMA PipeRest ==
    ASSUME DeliverInv, pipe # <<>>
    PROVE  /\ Head(pipe) = Item(HasRead + 1) /\ HasRead + 1 \in 1..written
           /\ Tail(pipe) \in Seq(FrameItems) /\ Len(Tail(pipe)) = Len(pipe) - 1
           /\ written - Len(Tail(pipe)) = HasRead + 1
           /\ \A i \in 1..Len(Tail(pipe)) :
                Tail(pipe)[i] = Item((written - Len(Tail(pipe))) + i)
<1>1. /\ job \in Jobs /\ pipe \in Seq(FrameItems) /\ Len(pipe) \in Nat
      /\ Len(pipe) <= written /\ written \in Nat
  BY JobFacts DEF DeliverInv, Types
<1>2. \A i \in 1..Len(pipe) : pipe[i] = Item(HasRead + i)
  BY DEF DeliverInv, PipeInv
<1>3. /\ Len(pipe) >= 1 /\ Head(pipe) = pipe[1]
      /\ Tail(pipe) \in Seq(FrameItems) /\ Len(Tail(pipe)) = Len(pipe) - 1
      /\ \A i \in 1..Len(Tail(pipe)) : Tail(pipe)[i] = pipe[i + 1]
  BY <1>1, HeadTailProperties, EmptySeq
<1>4. /\ HasRead \in Nat /\ HasRead + 1 \in 1..written
      /\ written - Len(Tail(pipe)) = HasRead + 1
  BY <1>1, <1>3 DEF HasRead
<1>5. ASSUME NEW i \in 1..Len(Tail(pipe))
      PROVE  Tail(pipe)[i] = Item((written - Len(Tail(pipe))) + i)
  <2>1. i + 1 \in 1..Len(pipe) /\ HasRead + (i + 1) = (HasRead + 1) + i
    BY <1>1, <1>3, <1>4
  <2>2. pipe[i + 1] = Item(HasRead + (i + 1))
    BY <1>2, <2>1
  <2>3. QED
    BY <1>3, <1>4, <2>1, <2>2
<1>6. Head(pipe) = Item(HasRead + 1)
  BY <1>1, <1>2, <1>3
<1>7. QED
  BY <1>3, <1>4, <1>5, <1>6

\* The helper ends, or the command it became; or the agent kills it.
LEMMA HelperEndStep ==
    ASSUME DeliverInv, hat # "off", hat' \in {"exited", "killed"},
           \/ at' = at
           \/ at = "kill" /\ at' = "reap",
           UNCHANGED <<job, opened, rendered, written, need, got, child, alive, tmp, file, disk>>,
           \/ pipe' = pipe
           \/ pipe # <<>> /\ pipe' = Tail(pipe)
    PROVE  DeliverInv'
<1>1. /\ job \in Jobs /\ N \in Nat /\ pipe \in Seq(FrameItems)
      /\ Len(pipe) \in Nat /\ Len(pipe) <= written /\ written \in Nat
      /\ Len(pipe) <= PipeCap /\ PipeCap \in Nat
  BY JobFacts, DeliverAssumption DEF DeliverInv, Types
<1>2. /\ pipe' \in Seq(FrameItems) /\ Len(pipe') <= PipeCap /\ Len(pipe') <= written
      /\ \A i \in 1..Len(pipe') : pipe'[i] = Item((written - Len(pipe')) + i)
  <2>1. CASE pipe' = pipe
    BY <1>1, <2>1 DEF DeliverInv, PipeInv, HasRead
  <2>2. CASE pipe # <<>> /\ pipe' = Tail(pipe)
    <3>1. /\ Tail(pipe) \in Seq(FrameItems) /\ Len(Tail(pipe)) = Len(pipe) - 1
          /\ \A i \in 1..Len(Tail(pipe)) :
                Tail(pipe)[i] = Item((written - Len(Tail(pipe))) + i)
      BY <2>2, PipeRest
    <3>2. Len(Tail(pipe)) <= PipeCap /\ Len(Tail(pipe)) <= written
      BY <1>1, <3>1
    <3>3. QED
      BY <2>2, <3>1, <3>2
  <2>3. QED
    BY <2>1, <2>2
<1>3. Types'
  BY <1>1, <1>2, JobKept DEF DeliverInv, Types
<1>4. OpenInv'
  BY JobKept DEF DeliverInv, OpenInv, Prefix, HandedOver, Writing
<1>5. PipeInv'
  BY <1>2, JobKept DEF DeliverInv, PipeInv, HasRead
<1>6. HelperInv'
  BY JobKept DEF DeliverInv, HelperInv, Prefix
<1>7. HelperLife' /\ ChildInv' /\ FileInv'
  BY JobKept DEF DeliverInv, HelperLife, ChildInv, FileInv, Opening, Writing
<1>8. QED
  BY <1>3, <1>4, <1>5, <1>6, <1>7 DEF DeliverInv

LEMMA HelperEndsInv ==
    ASSUME DeliverInv, ReadEof \/ CommandEnds \/ HelperDies
    PROVE  DeliverInv'
  BY HelperEndStep
  DEF ReadEof, CommandEnds, HelperDies, HelperExits, Reading, deliverer, files

LEMMA KillHelperInv ==
    ASSUME DeliverInv, KillHelper
    PROVE  DeliverInv'
<1>1. /\ at = "kill" /\ at' = "reap" /\ opened' = opened /\ rendered' = rendered
      /\ hat' = IF HelperGone THEN hat ELSE "killed"
      /\ UNCHANGED <<job, written, pipe, need, got, child, alive, tmp, file, disk>>
  BY DEF KillHelper, Goto, files
<1>2. hat' \in {"exited", "killed"}
  BY <1>1 DEF HelperGone
<1>3. hat # "off"
  BY <1>1 DEF DeliverInv, HelperLife
<1>4. QED
  BY <1>1, <1>2, <1>3, HelperEndStep

-----------------------------------------------------------------------------
(* The helper's side of the pipe *)

\* A field that is accepted keeps the invariant if what the helper knows is right.
LEMMA ReadStep ==
    ASSUME DeliverInv, hat \in Reading, pipe # <<>>, pipe' = Tail(pipe),
           UNCHANGED <<job, at, opened, rendered, written, child, alive, tmp, file, disk>>,
           hat' \in {"count", "name", "value", "exec"}, need' \in 0..MaxSecrets,
           HelperInv'
    PROVE  DeliverInv'
<1>1. /\ Len(pipe) \in Nat /\ Len(pipe) <= written /\ written \in Nat
      /\ Len(pipe) <= PipeCap /\ PipeCap \in Nat
  BY JobFacts, DeliverAssumption DEF DeliverInv, Types
<1>2. /\ pipe' \in Seq(FrameItems) /\ Len(pipe') = Len(pipe) - 1
      /\ \A i \in 1..Len(pipe') : pipe'[i] = Item((written - Len(pipe')) + i)
  BY PipeRest
<1>3. Len(pipe') <= PipeCap /\ Len(pipe') <= written
  BY <1>1, <1>2
<1>4. Types'
  BY <1>2, <1>3, JobKept DEF DeliverInv, Types, Reading
<1>5. OpenInv'
  BY JobKept DEF DeliverInv, OpenInv, Prefix
<1>6. PipeInv'
  BY <1>2, JobKept DEF DeliverInv, PipeInv, HasRead
<1>7. HelperLife'
  BY JobKept DEF DeliverInv, HelperLife, Reading
<1>8. ChildInv' /\ FileInv'
  BY JobKept DEF DeliverInv, ChildInv, FileInv
<1>9. QED
  BY <1>4, <1>5, <1>6, <1>7, <1>8 DEF DeliverInv

LEMMA ReadFieldInv ==
    ASSUME DeliverInv, ReadField
    PROVE  DeliverInv'
<1> DEFINE f == Head(pipe)
           j == Len(got) + 1
<1>1. /\ hat \in Reading /\ pipe # <<>> /\ pipe' = Tail(pipe)
      /\ UNCHANGED <<job, at, opened, rendered, written, child, alive, tmp, file, disk>>
  BY DEF ReadField, deliverer, files
<1>2. /\ job \in Jobs /\ N \in Nat /\ MaxSecrets \in Nat /\ need \in 0..MaxSecrets
      /\ Secrets \in Seq(Secret) /\ DOMAIN Secrets = 1..N
      /\ got \in Seq(Secret) /\ Len(got) \in Nat /\ Len(got) + need <= N
      /\ \A i \in 1..Len(got) : got[i] = Secrets[i]
  BY JobFacts, DeliverAssumption DEF DeliverInv, Types, HelperInv, Prefix
<1>3. f = Item(HasRead + 1) /\ HasRead' = HasRead + 1
  BY <1>1, PipeRest DEF HasRead
<1>4. HelperExits => DeliverInv'
  BY <1>1, HelperEndStep DEF HelperExits, Reading
<1>5. CASE hat = "magic"
  <2>1. HasRead = 0 /\ got = <<>> /\ need = 0
    BY <1>5 DEF DeliverInv, HelperInv
  <2>2. f.kind = "magic"
    BY <1>2, <1>3, <2>1, FrameFields
  <2>3. hat' = "count" /\ need' = need /\ got' = got
    BY <2>2 DEF ReadField
  <2>4. HelperInv'
    BY <1>1, <1>2, <1>3, <2>1, <2>3, JobKept DEF DeliverInv, HelperInv, Prefix
  <2>5. QED
    BY <1>1, <1>2, <2>3, <2>4, ReadStep
<1>6. CASE hat = "count"
  <2>1. HasRead = 1 /\ got = <<>> /\ need = 0 /\ Len(got) = 0
    BY <1>6, EmptySeq DEF DeliverInv, HelperInv
  <2>2. f.kind = "count" /\ f.n = N
    BY <1>2, <1>3, <2>1, FrameFields
  <2>3. CASE N \in 1..MaxSecrets /\ hat' = "name" /\ need' = N /\ got' = got
    <3>1. HelperInv'
      BY <1>1, <1>2, <1>3, <2>1, <2>3, JobKept DEF DeliverInv, HelperInv, Prefix
    <3>2. QED
      BY <1>1, <1>2, <2>3, <3>1, ReadStep
  <2>4. QED
    BY <1>4, <2>2, <2>3 DEF ReadField
<1>7. CASE hat = "name"
  <2>1. HasRead = 2 + 2 * Len(got) /\ need > 0 /\ Len(got) + need = N
    BY <1>7 DEF DeliverInv, HelperInv
  <2>2. j \in 1..N /\ HasRead + 1 = 2 * j + 1
    BY <1>2, <2>1
  <2>3. f = [kind |-> "name", secret |-> Secrets[j]]
    BY <1>2, <1>3, <2>2, FrameFields
  <2>4. CASE hat' = "value" /\ need' = need /\ got' = got
    <3>1. HasRead' = 3 + 2 * Len(got)
      BY <1>2, <1>3, <2>1
    <3>2. HelperInv'
      BY <1>1, <1>2, <2>1, <2>4, <3>1, JobKept DEF DeliverInv, HelperInv, Prefix
    <3>3. QED
      BY <1>1, <1>2, <2>4, <3>2, ReadStep
  <2>5. f.kind = "name"
    BY <2>3
  <2>6. QED
    BY <1>4, <2>4, <2>5 DEF ReadField
<1>8. CASE hat = "value"
  <2>1. HasRead = 3 + 2 * Len(got) /\ need > 0 /\ Len(got) + need = N
    BY <1>8 DEF DeliverInv, HelperInv
  <2>2. j \in 1..N /\ HasRead + 1 = 2 * j + 2
    BY <1>2, <2>1
  <2>3. f = [kind |-> "value", secret |-> Secrets[j]]
    BY <1>2, <1>3, <2>2, FrameFields
  <2>4. CASE /\ got' = Append(got, Secrets[j]) /\ need' = need - 1
             /\ hat' = IF need = 1 THEN "exec" ELSE "name"
    <3>1. /\ got' \in Seq(Secret) /\ Len(got') = j
          /\ \A i \in 1..j : got'[i] = Secrets[i]
      <4>1. Secrets[j] \in Secret
        BY <1>2, <2>2
      <4>2. got' \in Seq(Secret) /\ Len(got') = j
        BY <1>2, <2>4, <4>1
      <4>3. \A i \in 1..j : got'[i] = IF i <= Len(got) THEN got[i] ELSE Secrets[j]
        BY <1>2, <2>4, <4>1
      <4>4. QED
        BY <1>2, <4>2, <4>3
    <3>2. /\ HasRead' = 2 + 2 * j /\ j + need' = N /\ need' \in 0..MaxSecrets
          /\ hat' = "name" => need' > 0
          /\ hat' = "exec" => j = N
      <4>1. HasRead' = 2 + 2 * j
        BY <1>2, <1>3, <2>1
      <4>0. PICK g \in Nat, n \in 1..MaxSecrets :
                g = Len(got) /\ n = need /\ need' = n - 1 /\ g + n = N /\ j = g + 1
        BY <1>2, <2>1, <2>4
      <4>2. j + need' = N /\ need' \in 0..MaxSecrets
        BY <1>2, <4>0
      <4>3. (need # 1 => need' > 0) /\ (need = 1 => j = N)
        BY <1>2, <4>0
      <4>4. (hat' = "name" => need # 1) /\ (hat' = "exec" => need = 1)
        BY <2>4
      <4>5. QED
        BY <4>1, <4>2, <4>3, <4>4
    <3>3. Prefix(got)'
      BY <1>1, <2>2, <3>1, JobKept DEF Prefix
    <3>4. hat' \in {"name", "exec"}
      BY <2>4
    <3>5. Len(got') + need' <= N
      BY <1>2, <3>1, <3>2
    <3>6. HelperInv'
      BY <1>1, <3>1, <3>2, <3>3, <3>4, <3>5, JobKept DEF HelperInv
    <3>7. QED
      BY <1>1, <3>2, <3>4, <3>6, ReadStep
  <2>5. f.kind = "value" /\ f.secret = Secrets[j]
    BY <2>3
  <2>6. QED
    BY <1>4, <2>4, <2>5 DEF ReadField
<1>9. QED
  BY <1>1, <1>5, <1>6, <1>7, <1>8 DEF Reading

\* The helper has read the whole frame, so the command gets every secret.
LEMMA ExecInv ==
    ASSUME DeliverInv, Exec
    PROVE  DeliverInv'
<1>1. /\ hat = "exec" /\ need' = need /\ got' = got
      /\ UNCHANGED <<job, at, opened, rendered, written, pipe, alive, tmp, file, disk>>
  BY DEF Exec, deliverer, files
<1>2. CASE hat' = "exited" /\ child' = child
  BY <1>1, <1>2, HelperEndStep
<1>3. CASE hat' = "child" /\ child' = Targets(got)
  <2>1. /\ job \in Jobs /\ N \in Nat /\ Prefix(got) /\ Len(got) = N
        /\ HasRead = 2 + 2 * N /\ job.what = "run" /\ Accepted(N)
        /\ Len(pipe) \in Nat /\ written \in Nat
    BY <1>1, JobFacts DEF DeliverInv, Types, HelperInv, HelperLife
  <2>2. Targets(got) = All
    BY <2>1, WholePrefix
  <2>3. \A i \in 1..N : 2 * i + 1 <= written
    BY <2>1 DEF HasRead
  <2>4. \A i \in 1..N : Secrets[i].fault # "text"
    BY <2>3 DEF DeliverInv, PipeInv
  <2>5. ChildInv'
    BY <1>1, <1>3, <2>1, <2>2, <2>4, JobKept DEF ChildInv
  <2>6. Types' /\ OpenInv' /\ FileInv'
    BY <1>1, <1>3, JobKept DEF DeliverInv, Types, OpenInv, Prefix, FileInv
  <2>7. PipeInv'
    BY <1>1, PipeKept DEF DeliverInv
  <2>8. HelperInv'
    BY <1>1, <1>3, JobKept DEF DeliverInv, HelperInv, Prefix
  <2>9. HelperLife'
    BY <1>1, <1>3, JobKept DEF DeliverInv, HelperLife
  <2>10. QED
    BY <2>5, <2>6, <2>7, <2>8, <2>9 DEF DeliverInv
<1>4. QED
  BY <1>2, <1>3 DEF Exec

-----------------------------------------------------------------------------
(* The files, and the power *)

\* A call of atomic_write_secret_file that fails ends it and removes the file.
LEMMA InjectFails ==
    ASSUME DeliverInv, at \in {"temp", "temp_sync", "persist"}, Leave("failed"),
           UNCHANGED <<job, written, pipe, helper, child, alive, file, disk>>
    PROVE  DeliverInv'
<1>1. at' = "failed" /\ opened' = <<>> /\ rendered' = None
      /\ hat' = hat /\ need' = need /\ got' = got /\ hat = "off"
  BY DEF Leave, helper, DeliverInv, HelperLife, Writing
<1>2. Types'
  BY <1>1, JobKept DEF DeliverInv, Types
<1>3. OpenInv'
  <2>1. opened = <<>>
    BY DEF DeliverInv, OpenInv, HandedOver
  <2>2. QED
    BY <1>1, <2>1, JobKept DEF DeliverInv, OpenInv, Prefix, HandedOver, Writing
<1>4. PipeInv' /\ HelperInv' /\ ChildInv'
  BY PipeKept, HelperKept, ChildKept DEF DeliverInv
<1>5. HelperLife'
  BY <1>1, JobKept DEF DeliverInv, HelperLife, Opening, Writing
<1>6. FileInv'
  BY <1>1, JobKept DEF DeliverInv, FileInv
<1>7. QED
  BY <1>2, <1>3, <1>4, <1>5, <1>6 DEF DeliverInv

\* One that succeeds keeps the invariant if the files are right.
LEMMA InjectStep ==
    ASSUME DeliverInv, at \in {"temp", "temp_sync", "persist"},
           NEW l \in {"temp_sync", "persist", "dir_sync"}, Goto(l),
           UNCHANGED <<job, written, pipe, helper, child, alive>>, FileInv'
    PROVE  DeliverInv'
<1>1. at' = l /\ opened' = opened /\ rendered' = rendered
      /\ hat' = hat /\ need' = need /\ got' = got
  BY DEF Goto, helper
<1>2. Types'
  BY <1>1, JobKept DEF DeliverInv, Types
<1>3. OpenInv'
  BY <1>1, JobKept DEF DeliverInv, OpenInv, Prefix, HandedOver, Writing
<1>4. PipeInv' /\ HelperInv' /\ ChildInv'
  BY PipeKept, HelperKept, ChildKept DEF DeliverInv
<1>5. HelperLife'
  BY <1>1, JobKept DEF DeliverInv, HelperLife, Opening, Writing
<1>6. QED
  BY <1>2, <1>3, <1>4, <1>5 DEF DeliverInv

LEMMA WriteTempInv ==
    ASSUME DeliverInv, WriteTemp
    PROVE  DeliverInv'
<1>1. at = "temp" /\ UNCHANGED <<job, written, pipe, helper, child, alive>>
  BY DEF WriteTemp, InjectCall
<1>2. CASE Leave("failed") /\ UNCHANGED <<file, disk>>
  BY <1>1, <1>2, InjectFails
<1>3. CASE Goto("temp_sync") /\ tmp' = [text |-> rendered, synced |-> FALSE]
           /\ UNCHANGED <<file, disk>>
  <2>1. rendered = All
    BY <1>1 DEF DeliverInv, OpenInv, Writing
  <2>2. FileInv'
    BY <1>1, <1>3, <2>1, JobKept DEF DeliverInv, FileInv, Goto
  <2>3. QED
    BY <1>1, <1>3, <2>2, InjectStep
<1>4. QED
  BY <1>2, <1>3 DEF WriteTemp, InjectCall

LEMMA SyncTempInv ==
    ASSUME DeliverInv, SyncTemp
    PROVE  DeliverInv'
<1>1. at = "temp_sync" /\ UNCHANGED <<job, written, pipe, helper, child, alive>>
  BY DEF SyncTemp, InjectCall
<1>2. CASE Leave("failed") /\ UNCHANGED <<file, disk>>
  BY <1>1, <1>2, InjectFails
<1>3. CASE Goto("persist") /\ tmp' = [tmp EXCEPT !.synced = TRUE]
           /\ UNCHANGED <<file, disk>>
  <2>1. PICK b \in BOOLEAN : tmp = [text |-> All, synced |-> b]
    BY <1>1 DEF DeliverInv, FileInv
  <2>2. tmp' = Whole
    BY <1>3, <2>1 DEF Whole
  <2>3. FileInv'
    BY <1>1, <1>3, <2>2, JobKept DEF DeliverInv, FileInv, Goto
  <2>4. QED
    BY <1>1, <1>3, <2>3, InjectStep
<1>4. QED
  BY <1>2, <1>3 DEF SyncTemp, InjectCall

LEMMA PersistInv ==
    ASSUME DeliverInv, Persist
    PROVE  DeliverInv'
<1>1. at = "persist" /\ UNCHANGED <<job, written, pipe, helper, child, alive>>
  BY DEF Persist, InjectCall
<1>2. CASE Leave("failed") /\ UNCHANGED <<file, disk>>
  BY <1>1, <1>2, InjectFails
<1>3. CASE Goto("dir_sync") /\ file' = tmp /\ tmp' = None /\ UNCHANGED disk
  <2>1. tmp = Whole /\ job.what = "inject"
    BY <1>1 DEF DeliverInv, FileInv, OpenInv, Writing
  <2>2. FileInv'
    BY <1>1, <1>3, <2>1, JobKept DEF DeliverInv, FileInv, Goto
  <2>3. QED
    BY <1>1, <1>3, <2>2, InjectStep
<1>4. QED
  BY <1>2, <1>3 DEF Persist, InjectCall

\* The deliverer ends, with nothing held: what the invariant then says of it.
LEMMA NothingHeld ==
    ASSUME DeliverInv, job' = job, NEW l \in {"done", "killed"}, Leave(l)
    PROVE  OpenInv'
<1>1. at' = l /\ opened' = <<>> /\ rendered' = None
  BY DEF Leave
<1>2. Len(<<>>) = 0 /\ <<>> \in Seq(Secret) /\ N \in Nat
  BY EmptySeq, JobFacts DEF DeliverInv, Types
<1>3. Prefix(opened)' /\ Accepted(Len(opened))'
  BY <1>1, <1>2, JobKept DEF Prefix, Accepted
<1>4. QED
  BY <1>1, <1>3 DEF OpenInv, HandedOver, Writing

LEMMA SyncDirInv ==
    ASSUME DeliverInv, SyncDir
    PROVE  DeliverInv'
<1>1. /\ at = "dir_sync" /\ at' = "done" /\ disk' = file /\ file' = file /\ Leave("done")
      /\ UNCHANGED <<job, written, pipe, helper, child, alive>>
      /\ hat' = hat /\ need' = need /\ got' = got
  BY DEF SyncDir, Leave, helper
<1>2. Types'
  BY <1>1, JobKept DEF DeliverInv, Types
<1>3. OpenInv' /\ PipeInv' /\ HelperInv' /\ ChildInv'
  BY <1>1, NothingHeld, PipeKept, HelperKept, ChildKept DEF DeliverInv
<1>4. hat = "off" /\ file = Whole
  BY <1>1 DEF DeliverInv, HelperLife, FileInv, Writing
<1>5. HelperLife'
  BY <1>1, <1>4 DEF HelperLife, Opening, Writing
<1>6. FileInv'
  BY <1>1, <1>4, JobKept DEF DeliverInv, FileInv
<1>7. QED
  BY <1>2, <1>3, <1>5, <1>6 DEF DeliverInv

\* What was renamed in had been synced, so a power loss tears nothing.
LEMMA PowerLossInv ==
    ASSUME DeliverInv, PowerLoss
    PROVE  DeliverInv'
<1>1. /\ at' = "killed" /\ Leave("killed") /\ alive' = FALSE /\ tmp' = None
      /\ hat' = (IF hat = "off" THEN hat ELSE "killed")
      /\ disk' = file'
      /\ UNCHANGED <<job, written, pipe, need, got, child>>
  BY DEF PowerLoss, Leave
<1>2. file = None \/ file.synced = TRUE
  BY DEF DeliverInv, FileInv, Whole
<1>3. file' \in {disk, file}
  BY <1>2 DEF PowerLoss
<1>4. Types'
  BY <1>1, JobKept DEF DeliverInv, Types
<1>5. OpenInv' /\ PipeInv' /\ ChildInv'
  BY <1>1, NothingHeld, PipeKept, ChildKept DEF DeliverInv
<1>6. HelperInv'
  BY <1>1, JobKept DEF DeliverInv, HelperInv, HasRead, Prefix
<1>7. HelperLife'
  BY <1>1, JobKept DEF DeliverInv, HelperLife, Opening, Writing
<1>8. FileInv'
  BY <1>1, <1>3, JobKept DEF DeliverInv, FileInv
<1>9. QED
  BY <1>4, <1>5, <1>6, <1>7, <1>8 DEF DeliverInv

LEMMA UnseenStep ==
    ASSUME DeliverInv, ChildEnds \/ UNCHANGED dvars
    PROVE  DeliverInv'
<1>1. /\ UNCHANGED <<job, at, opened, rendered, written, pipe, hat, need, got, child,
                     tmp, file, disk>>
      /\ alive' \in BOOLEAN
  BY DEF ChildEnds, dvars, deliverer, helper, files, DeliverInv, Types
<1>2. Types'
  BY <1>1, JobKept DEF DeliverInv, Types
<1>3. OpenInv'
  BY <1>1, JobKept DEF DeliverInv, OpenInv, Prefix
<1>4. PipeInv' /\ HelperInv' /\ ChildInv'
  BY <1>1, PipeKept, HelperKept, ChildKept DEF DeliverInv, helper
<1>5. HelperLife' /\ FileInv'
  BY <1>1, JobKept DEF DeliverInv, HelperLife, FileInv
<1>6. QED
  BY <1>2, <1>3, <1>4, <1>5 DEF DeliverInv

-----------------------------------------------------------------------------
(* The theorems *)

LEMMA NextInv == DeliverInv /\ [DeliverNext]_dvars => DeliverInv'
<1>1. SUFFICES ASSUME DeliverInv, [DeliverNext]_dvars PROVE DeliverInv'
  OBVIOUS
<1>2. CASE Deliverer
  BY <1>1, <1>2, BeginInv, OpenNextInv, OpenedInv, SpawnChildInv, SpawnHelperInv,
     WriteFieldInv, FrameEndInv, KillHelperInv, WaitInv, RenderInv, WriteTempInv,
     SyncTempInv, PersistInv, SyncDirInv, SyncDirFailsInv
  DEF Deliverer
<1>3. CASE Helper
  BY <1>1, <1>3, ReadFieldInv, HelperEndsInv, ExecInv DEF Helper
<1>4. CASE ChildEnds \/ UNCHANGED dvars
  BY <1>1, <1>4, UnseenStep
<1>5. CASE CommandEnds \/ HelperDies
  BY <1>1, <1>5, HelperEndsInv
<1>6. CASE Killed
  BY <1>1, <1>6, FrameEndInv
<1>7. CASE PowerLoss
  BY <1>1, <1>7, PowerLossInv
<1>8. QED
  BY <1>1, <1>2, <1>3, <1>4, <1>5, <1>6, <1>7 DEF DeliverNext

LEMMA Invariance == DeliverSpec => []DeliverInv
<1>1. QED
  BY InitInv, NextInv, PTL DEF DeliverSpec

\* However the request ends, nothing in the clear outlives its use: no opened
\* secret and no rendered file is held outside the steps that need it, and an
\* answered request has left no helper that could still start the command
\* (spawn_agent_run_helper wipes, kills and waits on every path).
THEOREM PlaintextIsWiped == DeliverSpec => []NoPlaintextIsLeft
<1>1. DeliverInv => NoPlaintextIsLeft
  <2>1. SUFFICES ASSUME DeliverInv PROVE NoPlaintextIsLeft
    OBVIOUS
  <2>2. DeliverTypeOK
    BY <2>1 DEF DeliverInv, Types, HelperInv, DeliverTypeOK
  <2>3. opened # <<>> => at \in {"open", "spawn", "helper", "write", "render"}
    BY <2>1 DEF DeliverInv, OpenInv, HandedOver
  <2>4. rendered # None => at \in {"temp", "temp_sync", "persist", "dir_sync"}
    BY <2>1 DEF DeliverInv, OpenInv, Writing
  <2>5. at \in {"done", "failed"} => hat \in {"off", "exited", "killed"}
    BY <2>1 DEF DeliverInv, HelperLife
  <2>6. QED
    BY <2>2, <2>3, <2>4, <2>5 DEF NoPlaintextIsLeft
<1>2. QED
  BY <1>1, Invariance, PTL

\* A command that starts has every secret of its request, none of them twice,
\* whatever the pipe holds when the agent or the helper gives up
\* (write_agent_run_helper_frame, read_agent_run_helper_frame).
THEOREM AllOrNothing == DeliverSpec => []CommandGetsAllOrNothing
<1>1. DeliverInv => CommandGetsAllOrNothing
  <2>1. SUFFICES ASSUME DeliverInv, child # None
                 PROVE  /\ job.what = "run" /\ child = All
                        /\ \A i, j \in DOMAIN child : child[i] = child[j] => i = j
                        /\ \A i \in DOMAIN Secrets :
                            Secrets[i].fault \notin {"tier", "name", "open", "text"}
    BY DEF CommandGetsAllOrNothing
  <2>2. /\ job.what = "run" /\ child = All /\ Accepted(N)
        /\ \A i \in 1..N : Secrets[i].fault # "text"
    BY <2>1 DEF DeliverInv, ChildInv
  <2>3. DOMAIN Secrets = 1..N
    BY <2>1, JobFacts DEF DeliverInv, Types
  <2>4. DOMAIN child = 1..N /\ \A i \in 1..N : child[i] = Secrets[i].target
    BY <2>2, <2>3 DEF All, Targets
  <2>5. QED
    BY <2>2, <2>3, <2>4 DEF Accepted
<1>2. QED
  BY <1>1, Invariance, PTL

\* The target of deliver inject is what it was or the whole rendered file, after
\* any crash or loss of power, and on disk once the command reports success
\* (atomic_write_secret_file).
THEOREM FileWhole == DeliverSpec => []InjectedFileIsWhole
<1>1. DeliverInv => InjectedFileIsWhole
  <2>1. SUFFICES ASSUME DeliverInv PROVE InjectedFileIsWhole
    OBVIOUS
  <2>2. Whole # None /\ Whole.text = All
    BY <2>1, JobFacts DEF DeliverInv, Types, Whole
  <2>3. QED
    BY <2>1, <2>2 DEF DeliverInv, FileInv, InjectedFileIsWhole
<1>2. QED
  BY <1>1, Invariance, PTL
=============================================================================
