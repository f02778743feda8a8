---------------------------- MODULE OneShotProofs ----------------------------
(* Theorems about the one-shot commands that answer a secret's use: sign,     *)
(* deliver inject and deliver fetch, for every input.  Those about key import *)
(* are in ImportProofs.                                                       *)
EXTENDS OneShot, SequenceTheorems, FunctionTheorems, FiniteSetTheorems, WellFoundedInduction, TLAPS

-----------------------------------------------------------------------------
(* Induction and recursive functions *)

\* A set of numbers has a least one.
LEMMA Least ==
    ASSUME NEW T, T \subseteq Nat, T # {}
    PROVE  \E n \in T : \A m \in T : n <= m
<1>1. PICK R : R = OpToRel(<, Nat)
  OBVIOUS
<1>2. IsWellFoundedOn(R, Nat)
  BY <1>1, NatLessThanWellFounded
<1>3. PICK n \in T : \A m \in T : <<m, n>> \notin R
  BY <1>2, WFMin
<1>4. ASSUME NEW m \in T PROVE n <= m
  <2>1. m \in Nat /\ n \in Nat
    OBVIOUS
  <2>2. ~(m < n)
    BY <1>1, <1>3, <2>1 DEF OpToRel
  <2>. QED
    BY <2>1, <2>2
<1>. QED
  BY <1>4

\* Induction on a set of numbers.
LEMMA Induct ==
    ASSUME NEW P, NEW N \in Nat, 0 \in P, \A n \in 0 .. N - 1 : n \in P => n + 1 \in P
    PROVE  \A n \in 0 .. N : n \in P
<1>1. PICK T : T = {n \in 0 .. N : n \notin P}
  OBVIOUS
<1>2. SUFFICES ASSUME T # {} PROVE FALSE
  BY <1>1
<1>3. T \subseteq Nat
  BY <1>1
<1>4. PICK n \in T : \A m \in T : n <= m
  BY <1>2, <1>3, Least
<1>5. n \in 0 .. N /\ n \notin P /\ n # 0
  BY <1>1
<1>6. n - 1 \in 0 .. N - 1 /\ (n - 1) + 1 = n /\ ~(n <= n - 1)
  BY <1>5
<1>7. n - 1 \notin P
  BY <1>5, <1>6
<1>8. n - 1 \in T
  BY <1>1, <1>6, <1>7
<1>. QED
  BY <1>4, <1>6, <1>8

\* How each value of a function on 0 .. N into S is got from the function, looking
\* at the values before it only.
StepsUp(N, S) ==
    {step \in [(0 .. N) \X [0 .. N -> S] -> S] :
        \A i \in 0 .. N : \A g, h \in [0 .. N -> S] :
            (\A j \in 0 .. i - 1 : g[j] = h[j]) => step[<<i, g>>] = step[<<i, h>>]}

Recursive(D, S, step) == \E f \in [D -> S] : \A i \in D : f[i] = step[<<i, f>>]

\* There is a function that is got in this way.
LEMMA Upwards ==
    ASSUME NEW N \in Nat, NEW S, S # {}, NEW step \in StepsUp(N, S)
    PROVE  Recursive(0 .. N, S, step)
<1>0. /\ step \in [(0 .. N) \X [0 .. N -> S] -> S]
      /\ \A i \in 0 .. N : \A g, h \in [0 .. N -> S] :
            (\A j \in 0 .. i - 1 : g[j] = h[j]) => step[<<i, g>>] = step[<<i, h>>]
  BY DEF StepsUp
<1>. DEFINE Upto(n, f) == \A i \in 0 .. N : i < n => f[i] = step[<<i, f>>]
            P == {n \in 0 .. N + 1 : \E f \in [0 .. N -> S] : Upto(n, f)}
<1>1. 0 \in P
  <2>1. PICK s \in S : TRUE
    OBVIOUS
  <2>2. PICK f : f = [i \in 0 .. N |-> s]
    OBVIOUS
  <2>3. f \in [0 .. N -> S] /\ Upto(0, f)
    BY <2>2
  <2>. QED
    BY <2>3
<1>2. ASSUME NEW n \in 0 .. (N + 1) - 1, n \in P PROVE n + 1 \in P
  <2>1. PICK f \in [0 .. N -> S] : Upto(n, f)
    BY <1>2
  <2>2. PICK g : g = [f EXCEPT ![n] = step[<<n, f>>]]
    OBVIOUS
  <2>3. n \in 0 .. N /\ step[<<n, f>>] \in S
    BY <1>0
  <2>4. g \in [0 .. N -> S] /\ \A j \in 0 .. N : g[j] = IF j = n THEN step[<<n, f>>] ELSE f[j]
    BY <2>2, <2>3
  <2>5. ASSUME NEW i \in 0 .. N, i < n + 1 PROVE g[i] = step[<<i, g>>]
    <3>1. \A j \in 0 .. i - 1 : f[j] = g[j]
      BY <2>3, <2>4, <2>5
    <3>2. step[<<i, f>>] = step[<<i, g>>]
      BY <1>0, <2>4, <3>1
    <3>3. CASE i = n
      BY <2>4, <3>2, <3>3
    <3>4. CASE i # n
      <4>1. i < n
        BY <2>3, <2>5, <3>4
      <4>. QED
        BY <2>1, <2>4, <3>2, <3>4, <4>1
    <3>. QED
      BY <3>3, <3>4
  <2>6. Upto(n + 1, g)
    BY <2>5
  <2>. QED
    BY <2>4, <2>6
<1>. HIDE DEF P
<1>3. N + 1 \in P
  <2>1. N + 1 \in Nat /\ N + 1 \in 0 .. N + 1
    OBVIOUS
  <2>. QED
    BY <1>1, <1>2, <2>1, Induct, Zenon
<1>4. PICK f \in [0 .. N -> S] : Upto(N + 1, f)
  BY <1>3 DEF P
<1>. QED
  BY <1>4 DEF Recursive

-----------------------------------------------------------------------------
(* Sequences *)

\* A concatenation of many, one at a time.
LEMMA Flattened ==
    ASSUME NEW S, NEW ss \in Seq(Seq(S))
    PROVE  \E f \in [0 .. Len(ss) -> Seq(S)] :
              /\ f[0] = <<>>
              /\ \A i \in 1 .. Len(ss) : f[i] = f[i - 1] \o ss[i]
              /\ FlattenSeq(ss) = f[Len(ss)]
<1>0. PICK N \in Nat : N = Len(ss) /\ DOMAIN ss = 1 .. N
  OBVIOUS
<1>9. ASSUME NEW i \in 1 .. N PROVE ss[i] \in Seq(S)
  BY <1>0
<1>1. PICK step : step = [p \in (0 .. N) \X [0 .. N -> Seq(S)] |->
                             IF p[1] = 0 THEN <<>> ELSE p[2][p[1] - 1] \o ss[p[1]]]
  OBVIOUS
<1>2. ASSUME NEW i \in 0 .. N, NEW g \in [0 .. N -> Seq(S)]
      PROVE  /\ step[<<i, g>>] = IF i = 0 THEN <<>> ELSE g[i - 1] \o ss[i]
             /\ step[<<i, g>>] \in Seq(S)
  <2>1. step[<<i, g>>] = IF i = 0 THEN <<>> ELSE g[i - 1] \o ss[i]
    BY <1>1
  <2>2. i # 0 => g[i - 1] \in Seq(S) /\ ss[i] \in Seq(S)
    <3>1. i # 0 => i - 1 \in 0 .. N /\ i \in 1 .. N
      OBVIOUS
    <3>. QED
      BY <1>9, <3>1
  <2>3. i # 0 => g[i - 1] \o ss[i] \in Seq(S)
    BY <2>2
  <2>. QED
    BY <2>1, <2>3
<1>3. step \in [(0 .. N) \X [0 .. N -> Seq(S)] -> Seq(S)]
  BY <1>1, <1>2
<1>4. ASSUME NEW i \in 0 .. N, NEW g \in [0 .. N -> Seq(S)], NEW h \in [0 .. N -> Seq(S)],
             \A j \in 0 .. i - 1 : g[j] = h[j]
      PROVE  step[<<i, g>>] = step[<<i, h>>]
  <2>1. i # 0 => g[i - 1] = h[i - 1]
    BY <1>4
  <2>. QED
    BY <1>2, <2>1
<1>5. Seq(S) # {}
  <2>1. <<>> \in Seq(S)
    OBVIOUS
  <2>. QED
    BY <2>1
<1>6. PICK f \in [0 .. N -> Seq(S)] : \A i \in 0 .. N : f[i] = step[<<i, f>>]
  <2>1. step \in StepsUp(N, Seq(S))
    BY <1>3, <1>4 DEF StepsUp
  <2>2. Recursive(0 .. N, Seq(S), step)
    BY <1>5, <2>1, Upwards
  <2>. QED
    BY <2>2 DEF Recursive
<1>7. f[0] = <<>> /\ \A i \in 1 .. N : f[i] = f[i - 1] \o ss[i]
  <2>1. ASSUME NEW i \in 0 .. N PROVE f[i] = IF i = 0 THEN <<>> ELSE f[i - 1] \o ss[i]
    <3>1. f[i] = step[<<i, f>>]
      BY <1>6
    <3>. QED
      BY <1>2, <3>1
  <2>2. ASSUME NEW i \in 1 .. N PROVE f[i] = f[i - 1] \o ss[i]
    <3>1. i \in 0 .. N /\ i # 0
      OBVIOUS
    <3>. QED
      BY <2>1, <3>1
  <2>3. f[0] = <<>>
    BY <2>1
  <2>. QED
    BY <2>2, <2>3
<1>8. FlattenSeq(ss) = f[N]
  <2>1. CASE N = 0
    BY <1>0, <1>7, <2>1 DEF FlattenSeq
  <2>2. CASE N # 0
    <3>. DEFINE Equation(g) == g = [i \in 1 .. N |-> IF i = 1 THEN ss[i] ELSE g[i - 1] \o ss[i]]
                flatten == CHOOSE g : Equation(g)
    <3>1. FlattenSeq(ss) = flatten[N]
      BY <1>0, <2>2 DEF FlattenSeq
    <3>2. PICK g : g = [i \in 1 .. N |-> f[i]]
      OBVIOUS
    <3>3. ASSUME NEW i \in 1 .. N PROVE g[i] = IF i = 1 THEN ss[i] ELSE g[i - 1] \o ss[i]
      <4>1. g[i] = f[i] /\ f[i] = f[i - 1] \o ss[i] /\ ss[i] \in Seq(S)
        BY <1>7, <1>9, <3>2
      <4>2. CASE i = 1
        <5>1. f[i - 1] = <<>>
          BY <1>7, <4>2
        <5>. QED
          BY <4>1, <4>2, <5>1
      <4>3. CASE i # 1
        <5>1. i - 1 \in 1 .. N
          BY <4>3
        <5>. QED
          BY <3>2, <4>1, <4>3, <5>1
      <4>. QED
        BY <4>2, <4>3
    <3>4. Equation(g)
      BY <3>2, <3>3
    <3>5. Equation(flatten)
      BY <3>4
    <3>. HIDE DEF flatten
    <3>6. \A i \in 1 .. N : flatten[i] = IF i = 1 THEN ss[i] ELSE flatten[i - 1] \o ss[i]
      BY <3>5
    <3>7. PICK P : P = {i \in 0 .. N : i = 0 \/ flatten[i] = f[i]}
      OBVIOUS
    <3>8. ASSUME NEW i \in 0 .. N - 1, i \in P PROVE i + 1 \in P
      <4>1. i + 1 \in 1 .. N /\ (i + 1) - 1 = i /\ ss[i + 1] \in Seq(S)
        BY <1>9
      <4>2. f[i + 1] = f[i] \o ss[i + 1]
        BY <1>7, <4>1
      <4>3. CASE i = 0
        <5>1. flatten[i + 1] = ss[i + 1] /\ f[i] = <<>>
          BY <1>7, <3>6, <4>1, <4>3
        <5>2. f[i + 1] = ss[i + 1]
          BY <4>1, <4>2, <5>1
        <5>. QED
          BY <3>7, <4>1, <5>1, <5>2
      <4>4. CASE i # 0
        <5>1. flatten[i] = f[i]
          BY <3>7, <3>8, <4>4
        <5>2. flatten[i + 1] = flatten[i] \o ss[i + 1]
          <6>1. PICK j \in 1 .. N : j = i + 1 /\ j # 1 /\ j - 1 = i
            BY <4>1, <4>4
          <6>2. flatten[j] = flatten[j - 1] \o ss[j]
            BY <3>6, <6>1
          <6>. QED
            BY <6>1, <6>2
        <5>3. flatten[i + 1] = f[i + 1]
          BY <4>1, <4>2, <5>1, <5>2
        <5>. QED
          BY <3>7, <4>1, <5>3
      <4>. QED
        BY <4>3, <4>4
    <3>9. N \in P
      <4>1. 0 \in P
        BY <3>7
      <4>2. \A i \in 0 .. N - 1 : i \in P => i + 1 \in P
        BY <3>8
      <4>3. \A i \in 0 .. N : i \in P
        BY <4>1, <4>2, Induct, Zenon
      <4>. QED
        BY <4>3
    <3>. QED
      BY <2>2, <3>1, <3>7, <3>9
  <2>. QED
    BY <2>1, <2>2
<1>. QED
  BY <1>0, <1>6, <1>7, <1>8

LEMMA FlattenedType ==
    ASSUME NEW S, NEW ss \in Seq(Seq(S))
    PROVE  FlattenSeq(ss) \in Seq(S)
<1>1. PICK f \in [0 .. Len(ss) -> Seq(S)] : FlattenSeq(ss) = f[Len(ss)]
  BY Flattened
<1>2. Len(ss) \in 0 .. Len(ss)
  OBVIOUS
<1>. QED
  BY <1>1, <1>2

-----------------------------------------------------------------------------
(* A command is given its input once and answers it once *)

Ran ==
    /\ input \in Fetches \union Injects \union Documents \union Signs
    /\ answer = Unanswered \/
       CASE input.kind = "fetch" ->
                answer = deliver_fetch(input.request, input.secret, input.response)
         [] input.kind = "inject" -> answer = render_dotenv(input.secrets)
         [] input.kind = "import" ->
                LET text == DocumentText(input)
                IN  answer = [passphrase |-> import_passphrase_from_json(text, <<"p">>),
                              blob |-> import_blob_from_json(text, <<"b">>)]
         [] input.kind = "sign" ->
                answer = sign(input.scheme, input.key, input.digest, input.tweak)

LEMMA RanInvariant == OneShotSpec => []Ran
<1>1. OneShotInit => Ran
  BY DEF OneShotInit, Ran
<1>2. Ran /\ [OneShotNext]_ovars => Ran'
  BY DEF Ran, OneShotNext, DeliverFetch, RenderInject, ReadImport, Sign, Asked, ovars
<1>. QED
  BY <1>1, <1>2, PTL DEF OneShotSpec

\* The input a command was given is one of its kind.
LEMMA KindOfInput ==
    ASSUME Ran
    PROVE  /\ input.kind = "fetch" => input \in Fetches
           /\ input.kind = "inject" => input \in Injects
           /\ input.kind = "import" => input \in Documents
           /\ input.kind = "sign" => input \in Signs
BY SignsAssumption, InjectsAssumption, FetchesAssumption, DocumentsAssumption DEF Ran

-----------------------------------------------------------------------------
(* Signing *)

\* Arithmetic modulo the order of the group.
LEMMA Wrapped ==
    ASSUME NEW n \in Nat, n > 0, NEW a \in 0 .. 2 * n - 1
    PROVE  a % n = IF a < n THEN a ELSE a - n
OBVIOUS

\* The order is odd, so exactly one of a point and its inverse has an even y.
LEMMA EvenPoint ==
    ASSUME NEW k \in 1 .. Order - 1
    PROVE  /\ x(k) = {k, Order - k}
           /\ Normalized(k) \in {k, Order - k} /\ Normalized(k) \in 1 .. Order - 1
           /\ Normalized(k) = CHOOSE p \in x(k) : ~y_is_odd(p)
<1>1. /\ Order \in Nat /\ Order > 2
      /\ Order % 2 # 0
  BY SigningAssumption
<1>2. PICK h : h = Order \div 2
  OBVIOUS
<1>3. h \in Nat /\ Order = 2 * h + 1
  BY <1>1, <1>2
<1>4. Neg(k) = Order - k
  <2>1. Order - k \in 0 .. 2 * Order - 1 /\ Order - k < Order
    BY <1>1
  <2>. QED
    BY <1>1, <2>1, Wrapped DEF Neg
<1>5. x(k) = {k, Order - k}
  BY <1>4 DEF x
<1>6. \A p \in 1 .. Order - 1 : y_is_odd(p) <=> p > h
  BY <1>2 DEF y_is_odd
<1>7. Order - k \in 1 .. Order - 1
  BY <1>1
<1>8. y_is_odd(k) <=> ~y_is_odd(Order - k)
  BY <1>3, <1>6, <1>7
<1>9. Normalized(k) = IF y_is_odd(k) THEN Order - k ELSE k
  BY DEF Normalized, Point
<1>10. (CHOOSE p \in x(k) : ~y_is_odd(p)) = IF y_is_odd(k) THEN Order - k ELSE k
  BY <1>5, <1>8
<1>. QED
  BY <1>5, <1>7, <1>9, <1>10

\* A key-path signature is under the output key, the even point plus the tweak,
\* and there is none when the tweak is no scalar or cancels the point.
OutputKey(key, tweak) == (Normalized(key) + tweak) % Order

LEMMA KeyPath ==
    ASSUME NEW key \in 1 .. Order - 1, NEW digest, NEW tweak \in Nat
    PROVE  sign_schnorr_bip341_keypath_with_aux(key, digest, tweak)
               = IF tweak < Order /\ OutputKey(key, tweak) # 0
                 THEN Signature({OutputKey(key, tweak), Order - OutputKey(key, tweak)}, digest)
                 ELSE Refused
<1>. DEFINE output == OutputKey(key, tweak)
<1>0. output = (Normalized(key) + tweak) % Order
  BY DEF OutputKey
<1>. HIDE DEF output
<1>1. PICK m : m = taproot_keypath_material(key, tweak)
  OBVIOUS
<1>2. m = IF tweak < Order /\ output # 0
          THEN [ok |-> TRUE, secret |-> output, output_x |-> x(output)] ELSE Refused
  BY <1>0, <1>1 DEF taproot_keypath_material, parse_private_scalar, Point
<1>3. CASE tweak < Order /\ output # 0
  <2>1. Normalized(key) \in 1 .. Order - 1 /\ Order \in Nat
    BY EvenPoint, SigningAssumption
  <2>2. output \in 1 .. Order - 1
    BY <1>0, <1>3, <2>1
  <2>3. x(output) = {output, Order - output}
    BY <2>2, EvenPoint
  <2>4. m.ok /\ m.secret = output /\ m.output_x = x(output)
    BY <1>2, <1>3
  <2>5. sign_schnorr_with_aux(m.secret, digest) = Signature(x(output), digest)
    BY <2>2, <2>4 DEF sign_schnorr_with_aux, parse_private_scalar, Point
  <2>6. Signature(x(output), digest).ok /\ Signature(x(output), digest).key = x(output)
    BY DEF Signature
  <2>7. sign_schnorr_bip341_keypath_with_aux(key, digest, tweak) = Signature(x(output), digest)
    BY <1>1, <2>4, <2>5, <2>6 DEF sign_schnorr_bip341_keypath_with_aux
  <2>. QED
    BY <1>3, <2>3, <2>7 DEF output
<1>4. CASE ~(tweak < Order /\ output # 0)
  BY <1>1, <1>2, <1>4 DEF sign_schnorr_bip341_keypath_with_aux, Refused, output
<1>. QED
  BY <1>3, <1>4

\* Whatever the group, the keys, the digests and the tweaks: a valid key signs, the
\* signature verifies under the public key an observer computes, and everything
\* else is refused (sign_digest_with_key, taproot_keypath_material).
THEOREM SignaturesAreValid == OneShotSpec => []SignaturesVerify
<1>1. ASSUME Ran, Answered("sign") PROVE SignaturesVerify
  <2>1. input \in Signs /\ input.key \in Nat /\ input.tweak \in Nat
    BY <1>1, KindOfInput, SignsAssumption DEF Answered
  <2>2. answer = sign(input.scheme, input.key, input.digest, input.tweak)
    BY <1>1 DEF Ran, Answered
  <2>3. ~Refused.ok
    BY DEF Refused
  <2>4. CASE input.digest = "short" \/ input.scheme \notin Schemes \/ input.key \notin Bytes
    <3>1. answer = Refused
      BY <2>2, <2>4 DEF sign
    <3>. QED
      BY <2>3, <2>4, <3>1 DEF SignaturesVerify, Schemes
  <2>5. CASE input.digest # "short" /\ input.scheme \in Schemes /\ input.key \in Bytes
    <3>1. answer = CASE input.scheme \in {"ecdsa-recoverable", "ecdsa-der"} ->
                            sign_ecdsa(input.key, input.digest)
                     [] input.scheme = "schnorr-bip340" ->
                            sign_schnorr_with_aux(input.key, input.digest)
                     [] OTHER ->
                            sign_schnorr_bip341_keypath_with_aux(input.key, input.digest,
                                                                 input.tweak)
      BY <2>2, <2>5 DEF sign
    <3>2. CASE input.key \notin 1 .. Order - 1
      <4>1. answer = Refused
        BY <3>1, <3>2
           DEF sign_ecdsa, sign_schnorr_with_aux, sign_schnorr_bip341_keypath_with_aux,
               taproot_keypath_material, parse_private_scalar, Refused
      <4>. QED
        BY <2>3, <3>2, <4>1 DEF SignaturesVerify
    <3>3. CASE input.key \in 1 .. Order - 1
      <4>1. CASE input.scheme \in {"ecdsa-recoverable", "ecdsa-der"}
        <5>1. answer = Signature({input.key}, input.digest)
          BY <3>1, <3>3, <4>1 DEF sign_ecdsa, parse_private_scalar, Point
        <5>. QED
          BY <2>5, <3>3, <4>1, <5>1 DEF SignaturesVerify
      <4>2. CASE input.scheme = "schnorr-bip340"
        <5>1. answer = Signature({input.key, Order - input.key}, input.digest)
          BY <3>1, <3>3, <4>2, EvenPoint DEF sign_schnorr_with_aux, parse_private_scalar, Point
        <5>. QED
          BY <2>5, <3>3, <4>2, <5>1 DEF SignaturesVerify
      <4>3. CASE input.scheme = "schnorr-bip341"
        <5>1. PICK output : output = OutputKey(input.key, input.tweak)
          OBVIOUS
        <5>2. output = ((CHOOSE p \in x(input.key) : ~y_is_odd(p)) + input.tweak) % Order
          BY <3>3, <5>1, EvenPoint DEF OutputKey
        <5>3. answer = sign_schnorr_bip341_keypath_with_aux(input.key, input.digest, input.tweak)
          BY <3>1, <4>3
        <5>4. answer = IF input.tweak < Order /\ output # 0
                       THEN Signature({output, Order - output}, input.digest) ELSE Refused
          BY <2>1, <3>3, <5>1, <5>3, KeyPath, SigningAssumption
        <5>. QED
          BY <2>3, <2>5, <3>3, <4>3, <5>2, <5>4 DEF SignaturesVerify
      <4>. QED
        BY <2>5, <4>1, <4>2, <4>3 DEF Schemes
    <3>. QED
      BY <3>2, <3>3
  <2>. QED
    BY <2>4, <2>5
<1>2. Ran => SignaturesVerify
  BY <1>1 DEF SignaturesVerify
<1>. QED
  BY <1>2, RanInvariant, PTL

-----------------------------------------------------------------------------
(* Machines that read a text: the shell that sources a dotenv file, and the   *)
(* server that reads a query                                                  *)

MachineStep(m, q, c) == IF m = "shell" THEN ShellStep(q, c) ELSE QueryStep(q, c)

\* The states of machine m from q on as it reads the text.
IsRun(m, q, text, run) ==
    /\ run = [i \in 0 .. Len(text) |-> run[i]]
    /\ run[0] = q
    /\ \A i \in 1 .. Len(text) : run[i] = MachineStep(m, run[i - 1], text[i])

\* Reading the text takes it from q to r.
Reads(m, q, text, r) == \E run : IsRun(m, q, text, run) /\ run[Len(text)] = r

LEMMA ReadsNothing ==
    ASSUME NEW m, NEW q
    PROVE  Reads(m, q, <<>>, q)
<1>1. PICK run : run = [i \in 0 .. 0 |-> q]
  OBVIOUS
<1>2. IsRun(m, q, <<>>, run) /\ run[Len(<<>>)] = q
  BY <1>1 DEF IsRun
<1>. QED
  BY <1>2 DEF Reads

LEMMA ReadsOne ==
    ASSUME NEW m, NEW q, NEW c
    PROVE  Reads(m, q, <<c>>, MachineStep(m, q, c))
<1>1. PICK r : r = MachineStep(m, q, c)
  OBVIOUS
<1>2. PICK run : run = [i \in 0 .. 1 |-> IF i = 0 THEN q ELSE r]
  OBVIOUS
<1>3. Len(<<c>>) = 1 /\ <<c>>[1] = c
  OBVIOUS
<1>4. /\ run = [i \in 0 .. 1 |-> run[i]] /\ run[0] = q /\ run[1] = r
      /\ \A i \in 1 .. 1 : run[i] = MachineStep(m, run[i - 1], <<c>>[i])
  BY <1>1, <1>2, <1>3
<1>. QED
  BY <1>1, <1>3, <1>4 DEF Reads, IsRun

LEMMA ReadsOn ==
    ASSUME NEW m, NEW q, NEW r, NEW u, NEW S, NEW s \in Seq(S), NEW t \in Seq(S),
           Reads(m, q, s, r), Reads(m, r, t, u)
    PROVE  Reads(m, q, s \o t, u)
<1>1. PICK f : IsRun(m, q, s, f) /\ f[Len(s)] = r
  BY DEF Reads
<1>2. PICK g : IsRun(m, r, t, g) /\ g[Len(t)] = u
  BY DEF Reads
<1>3. PICK st : st = s \o t
  OBVIOUS
<1>4. PICK M \in Nat, N \in Nat : M = Len(s) /\ N = Len(t)
  OBVIOUS
<1>5. /\ Len(st) = M + N
      /\ \A i \in 1 .. M : st[i] = s[i]
      /\ \A i \in 1 .. N : st[M + i] = t[i]
  BY <1>3, <1>4
<1>6. PICK h : h = [i \in 0 .. M + N |-> IF i <= M THEN f[i] ELSE g[i - M]]
  OBVIOUS
<1>7. \A i \in 0 .. M : h[i] = f[i]
  BY <1>6
<1>8. ASSUME NEW i \in 0 .. N PROVE h[M + i] = g[i]
  <2>1. CASE i = 0
    BY <1>1, <1>2, <1>4, <1>7, <2>1 DEF IsRun
  <2>2. CASE i # 0
    <3>1. M + i \in 0 .. M + N /\ ~(M + i <= M) /\ (M + i) - M = i
      BY <2>2
    <3>. QED
      BY <1>6, <3>1
  <2>. QED
    BY <2>1, <2>2
<1>9. ASSUME NEW i \in 1 .. M + N PROVE h[i] = MachineStep(m, h[i - 1], st[i])
  <2>1. CASE i <= M
    <3>1. i \in 1 .. M /\ i \in 0 .. M /\ i - 1 \in 0 .. M
      BY <2>1
    <3>. QED
      BY <1>1, <1>4, <1>5, <1>7, <3>1 DEF IsRun
  <2>2. CASE ~(i <= M)
    <3>1. PICK j \in 1 .. N : i = M + j
      <4>1. i - M \in 1 .. N /\ i = M + (i - M)
        BY <2>2
      <4>. QED
        BY <4>1
    <3>2. j \in 0 .. N /\ j - 1 \in 0 .. N /\ i - 1 = M + (j - 1)
      BY <3>1
    <3>3. h[i] = g[j] /\ h[i - 1] = g[j - 1]
      BY <1>8, <3>1, <3>2
    <3>4. g[j] = MachineStep(m, g[j - 1], t[j])
      BY <1>2, <1>4 DEF IsRun
    <3>. QED
      BY <1>5, <3>1, <3>3, <3>4
  <2>. QED
    BY <2>1, <2>2
<1>10. IsRun(m, q, st, h)
  <2>1. h = [i \in 0 .. Len(st) |-> h[i]] /\ h[0] = f[0]
    BY <1>5, <1>6
  <2>. QED
    BY <1>1, <1>5, <1>9, <2>1 DEF IsRun
<1>11. h[Len(st)] = u
  BY <1>2, <1>4, <1>5, <1>8
<1>. QED
  BY <1>3, <1>10, <1>11 DEF Reads

\* A concatenation is read part by part.
LEMMA ReadsParts ==
    ASSUME NEW m, NEW S, NEW ss \in Seq(Seq(S)), NEW q,
           \A i \in 1 .. Len(ss) : Reads(m, q[i - 1], ss[i], q[i])
    PROVE  Reads(m, q[0], FlattenSeq(ss), q[Len(ss)])
<1>1. PICK N \in Nat : N = Len(ss)
  OBVIOUS
<1>2. PICK f \in [0 .. N -> Seq(S)] :
              /\ f[0] = <<>>
              /\ \A i \in 1 .. N : f[i] = f[i - 1] \o ss[i]
              /\ FlattenSeq(ss) = f[N]
  BY <1>1, Flattened
<1>3. PICK P : P = {i \in 0 .. N : Reads(m, q[0], f[i], q[i])}
  OBVIOUS
<1>4. 0 \in P
  BY <1>2, <1>3, ReadsNothing
<1>5. ASSUME NEW i \in 0 .. N - 1, i \in P PROVE i + 1 \in P
  <2>1. PICK j \in 1 .. N : j = i + 1 /\ j - 1 = i
    OBVIOUS
  <2>2. Reads(m, q[0], f[i], q[i]) /\ Reads(m, q[i], ss[j], q[j])
    BY <1>1, <1>3, <1>5, <2>1
  <2>3. f[i] \in Seq(S) /\ f[j] = f[i] \o ss[j]
    <3>1. f[j] = f[j - 1] \o ss[j]
      BY <1>2, Zenon
    <3>2. i \in 0 .. N
      OBVIOUS
    <3>3. f[i] \in Seq(S)
      BY <3>2
    <3>. QED
      BY <2>1, <3>1, <3>3
  <2>5. ss[j] \in Seq(S)
    BY <1>1
  <2>4. Reads(m, q[0], f[j], q[j])
    BY <2>2, <2>3, <2>5, ReadsOn
  <2>. QED
    BY <1>3, <2>1, <2>4
<1>6. \A i \in 0 .. N : i \in P
  BY <1>4, <1>5, Induct, Zenon
<1>. QED
  BY <1>1, <1>2, <1>3, <1>6

\* Two runs over the same text from the same state are the same.
LEMMA RunIsUnique ==
    ASSUME NEW m, NEW q, NEW S, NEW text \in Seq(S), NEW f, NEW g,
           IsRun(m, q, text, f), IsRun(m, q, text, g)
    PROVE  f[Len(text)] = g[Len(text)]
<1>1. PICK N \in Nat : N = Len(text)
  OBVIOUS
<1>2. PICK P : P = {i \in 0 .. N : f[i] = g[i]}
  OBVIOUS
<1>3. 0 \in P
  BY <1>2 DEF IsRun
<1>4. ASSUME NEW i \in 0 .. N - 1, i \in P PROVE i + 1 \in P
  <2>1. PICK j \in 1 .. N : j = i + 1 /\ j - 1 = i
    OBVIOUS
  <2>2. f[j] = MachineStep(m, f[i], text[j]) /\ g[j] = MachineStep(m, g[i], text[j])
    BY <1>1, <2>1 DEF IsRun
  <2>. QED
    BY <1>2, <1>4, <2>1, <2>2
<1>5. \A i \in 0 .. N : i \in P
  BY <1>3, <1>4, Induct, Zenon
<1>. QED
  BY <1>1, <1>2, <1>5

-----------------------------------------------------------------------------
(* Characters: the provers do not know which constants are strings *)

Char == STRING \union {"'", "\\", "=", "LF", "%", "+", "&", "?", "#", " "}
            \union Octet \union HexDigits

LEMMA CharsOfText ==
    /\ \A s : s \in Seq(STRING) => s \in Seq(Char)
    /\ \A c : c \in STRING => c \in Char
<1>1. PICK S : S = STRING
  OBVIOUS
<1>2. S \subseteq Char
  BY <1>1 DEF Char
<1>3. \A s : s \in Seq(S) => s \in Seq(Char)
  BY <1>2
<1>. QED
  BY <1>1, <1>2, <1>3

LEMMA Literals ==
    /\ Quote \in Char /\ "\\" \in Char /\ "=" \in Char /\ "LF" \in Char /\ "%" \in Char
    /\ "+" \in Char /\ "&" \in Char /\ "?" \in Char /\ "#" \in Char /\ " " \in Char
<1>1. {"'", "\\", "=", "LF", "%", "+", "&", "?", "#", " "} \subseteq Char
  BY DEF Char
<1>. HIDE DEF Char
<1>. QED
  BY <1>1 DEF Quote

LEMMA OctetsAreChars ==
    /\ Octet \subseteq Char /\ HexDigits \subseteq Char
    /\ \A s : s \in Seq(Octet) => s \in Seq(Char)
<1>1. Octet \subseteq Char /\ HexDigits \subseteq Char
  BY DEF Char
<1>2. PICK S : S = Octet
  OBVIOUS
<1>3. \A s : s \in Seq(S) => s \in Seq(Char)
  BY <1>1, <1>2
<1>. QED
  BY <1>1, <1>2, <1>3

LEMMA SameSeq ==
    ASSUME NEW S, NEW s \in Seq(S), NEW t \in Seq(S), NEW n \in Nat, Len(s) = n, Len(t) = n,
           \A i \in 1 .. n : s[i] = t[i]
    PROVE  s = t
OBVIOUS

LEMMA CharTexts == \A c, d \in Char : <<c>> \in Seq(Char) /\ <<c, d>> \in Seq(Char)
OBVIOUS

-----------------------------------------------------------------------------
(* Dotenv *)

\* What the shell has read of a text is where a run over it ends.
LEMMA Sourced ==
    ASSUME NEW S, NEW text \in Seq(S), NEW r, Reads("shell", LineStart(<<>>), text, r)
    PROVE  Sourcing(text)[Len(text)] = r
<1>. DEFINE Equation(sh) == sh = [i \in 0 .. Len(text) |->
                IF i = 0 THEN LineStart(<<>>) ELSE ShellStep(sh[i - 1], text[i])]
            run == CHOOSE sh : Equation(sh)
<1>1. PICK f : IsRun("shell", LineStart(<<>>), text, f) /\ f[Len(text)] = r
  BY DEF Reads
<1>2. Equation(f)
  <2>1. \A q, c : MachineStep("shell", q, c) = ShellStep(q, c)
    BY DEF MachineStep
  <2>2. /\ f = [i \in 0 .. Len(text) |-> f[i]] /\ f[0] = LineStart(<<>>)
        /\ \A i \in 1 .. Len(text) : f[i] = ShellStep(f[i - 1], text[i])
    BY <1>1, <2>1 DEF IsRun
  <2>3. \A i \in 0 .. Len(text) : i = 0 \/ i \in 1 .. Len(text)
    OBVIOUS
  <2>. QED
    BY <2>2, <2>3
<1>3. Equation(run)
  BY <1>2
<1>4. Sourcing(text) = run
  BY DEF Sourcing
<1>. HIDE DEF run
<1>5. IsRun("shell", LineStart(<<>>), text, run)
  BY <1>3 DEF IsRun, MachineStep
<1>. QED
  BY <1>1, <1>4, <1>5, RunIsUnique

ShellAt(at, name, value, read) == [at |-> at, name |-> name, value |-> value, read |-> read]

\* What it does with each character.
LEMMA ShellSteps ==
    /\ \A read, c : MachineStep("shell", LineStart(read), c) = ShellAt("=", c, <<>>, read)
    /\ \A name, value, read :
        /\ MachineStep("shell", ShellAt("=", name, value, read), "=")
                = ShellAt("bare", name, value, read)
        /\ MachineStep("shell", ShellAt("bare", name, value, read), Quote)
                = ShellAt("quoted", name, value, read)
        /\ MachineStep("shell", ShellAt("bare", name, value, read), "\\")
                = ShellAt("escaped", name, value, read)
        /\ MachineStep("shell", ShellAt("bare", name, value, read), "LF")
                = LineStart(Append(read, [name |-> name, value |-> value]))
        /\ MachineStep("shell", ShellAt("quoted", name, value, read), Quote)
                = ShellAt("bare", name, value, read)
        /\ MachineStep("shell", ShellAt("escaped", name, value, read), Quote)
                = ShellAt("bare", name, Append(value, Quote), read)
        /\ \A c : c # Quote => MachineStep("shell", ShellAt("quoted", name, value, read), c)
                = ShellAt("quoted", name, Append(value, c), read)
<1>. DEFINE Step(sh, c) == MachineStep("shell", sh, c)
<1>1. ASSUME NEW sh, NEW c PROVE Step(sh, c) = ShellStep(sh, c)
  BY DEF MachineStep
<1>. HIDE DEF Step
<1>2. ASSUME NEW read, NEW c PROVE Step(LineStart(read), c) = ShellAt("=", c, <<>>, read)
  BY <1>1 DEF ShellStep, ShellAt, LineStart
<1>3. ASSUME NEW name, NEW value, NEW read
      PROVE  /\ Step(ShellAt("=", name, value, read), "=") = ShellAt("bare", name, value, read)
             /\ Step(ShellAt("bare", name, value, read), Quote)
                    = ShellAt("quoted", name, value, read)
             /\ Step(ShellAt("bare", name, value, read), "\\")
                    = ShellAt("escaped", name, value, read)
             /\ Step(ShellAt("bare", name, value, read), "LF")
                    = LineStart(Append(read, [name |-> name, value |-> value]))
             /\ Step(ShellAt("quoted", name, value, read), Quote)
                    = ShellAt("bare", name, value, read)
             /\ Step(ShellAt("escaped", name, value, read), Quote)
                    = ShellAt("bare", name, Append(value, Quote), read)
  BY <1>1 DEF ShellStep, ShellAt, LineStart, Quote
<1>4. ASSUME NEW name, NEW value, NEW read, NEW c, c # Quote
      PROVE  Step(ShellAt("quoted", name, value, read), c)
                 = ShellAt("quoted", name, Append(value, c), read)
  BY <1>1, <1>4 DEF ShellStep, ShellAt, Quote
<1>. QED
  BY <1>2, <1>3, <1>4 DEF Step

\* Several characters.
LEMMA ReadsTwo ==
    ASSUME NEW m, NEW q, NEW r, NEW u, NEW c, NEW d,
           r = MachineStep(m, q, c), u = MachineStep(m, r, d)
    PROVE  Reads(m, q, <<c, d>>, u)
<1>1. PICK run : run = [i \in 0 .. 2 |-> IF i = 0 THEN q ELSE IF i = 1 THEN r ELSE u]
  OBVIOUS
<1>2. Len(<<c, d>>) = 2 /\ <<c, d>>[1] = c /\ <<c, d>>[2] = d
  OBVIOUS
<1>3. run[0] = q /\ run[1] = r /\ run[2] = u /\ run = [i \in 0 .. 2 |-> run[i]]
  BY <1>1
<1>4. \A i \in 1 .. 2 : run[i] = MachineStep(m, run[i - 1], <<c, d>>[i])
  BY <1>2, <1>3
<1>. QED
  BY <1>2, <1>3, <1>4 DEF Reads, IsRun

LEMMA ReadsFour ==
    ASSUME NEW m, NEW q, NEW r, NEW s, NEW t, NEW u, NEW c, NEW d, NEW e, NEW f,
           r = MachineStep(m, q, c), s = MachineStep(m, r, d),
           t = MachineStep(m, s, e), u = MachineStep(m, t, f)
    PROVE  Reads(m, q, <<c, d, e, f>>, u)
<1>0. PICK text : text = <<c, d, e, f>>
  OBVIOUS
<1>1. PICK run : run = [i \in 0 .. 4 |-> IF i = 0 THEN q ELSE IF i = 1 THEN r
                                         ELSE IF i = 2 THEN s ELSE IF i = 3 THEN t ELSE u]
  OBVIOUS
<1>2. Len(text) = 4 /\ text[1] = c /\ text[2] = d /\ text[3] = e /\ text[4] = f
  BY <1>0
<1>3. /\ run[0] = q /\ run[1] = r /\ run[2] = s /\ run[3] = t /\ run[4] = u
      /\ run = [i \in 0 .. 4 |-> run[i]]
  BY <1>1
<1>4. \A i \in 1 .. 4 : run[i] = MachineStep(m, run[i - 1], text[i])
  BY <1>2, <1>3
<1>. QED
  BY <1>0, <1>2, <1>3, <1>4 DEF Reads, IsRun

\* The text so far, and one more character of it.
LEMMA OneMore ==
    ASSUME NEW S, NEW s \in Seq(S), NEW i \in 1 .. Len(s)
    PROVE  Append(SubSeq(s, 1, i - 1), s[i]) = SubSeq(s, 1, i)
<1>1. /\ SubSeq(s, 1, i - 1) \in Seq(S) /\ Len(SubSeq(s, 1, i - 1)) = i - 1
      /\ SubSeq(s, 1, i) \in Seq(S) /\ Len(SubSeq(s, 1, i)) = i
      /\ s[i] \in S
  OBVIOUS
<1>2. PICK t : t = Append(SubSeq(s, 1, i - 1), s[i])
  OBVIOUS
<1>5. t \in Seq(S)
  BY <1>1, <1>2
<1>3. Len(t) = i /\ \A j \in 1 .. i : t[j] = s[j]
  BY <1>1, <1>2
<1>4. \A j \in 1 .. i : SubSeq(s, 1, i)[j] = s[j]
  OBVIOUS
<1>. QED
  BY <1>1, <1>2, <1>3, <1>4, <1>5

LEMMA NoneAndAll ==
    ASSUME NEW S, NEW s \in Seq(S)
    PROVE  SubSeq(s, 1, 0) = <<>> /\ SubSeq(s, 1, Len(s)) = s
OBVIOUS

\* A quoted value is read as it is, whatever is in it.
LEMMA QuotedIsRead ==
    ASSUME NEW value \in Seq(Char), NEW name, NEW read
    PROVE  /\ write_shell_quoted(value) \in Seq(Char)
           /\ Reads("shell", ShellAt("bare", name, <<>>, read), write_shell_quoted(value),
                    ShellAt("bare", name, value, read))
<1>1. PICK N \in Nat : N = Len(value) /\ DOMAIN value = 1 .. N
  OBVIOUS
<1>2. PICK ss : ss = [i \in DOMAIN value |->
                    IF value[i] = Quote THEN <<Quote, "\\", Quote, Quote>> ELSE <<value[i]>>]
  OBVIOUS
<1>3. PICK q : q = [i \in 0 .. N |-> ShellAt("quoted", name, SubSeq(value, 1, i), read)]
  OBVIOUS
<1>4. Quote \in Char /\ "\\" \in Char
  BY Literals
<1>5. ASSUME NEW i \in 1 .. N
      PROVE  ss[i] \in Seq(Char) /\ Reads("shell", q[i - 1], ss[i], q[i])
  <2>1. PICK c : c = value[i] /\ c \in Char
    BY <1>1
  <2>2. PICK v : v = SubSeq(value, 1, i - 1)
    OBVIOUS
  <2>3. Append(v, c) = SubSeq(value, 1, i)
    BY <1>1, <2>1, <2>2, OneMore
  <2>4. /\ q[i - 1] = ShellAt("quoted", name, v, read)
        /\ q[i] = ShellAt("quoted", name, Append(v, c), read)
    BY <1>3, <2>2, <2>3
  <2>5. CASE c # Quote
    <3>1. ss[i] = <<c>>
      BY <1>1, <1>2, <2>1, <2>5
    <3>2. MachineStep("shell", q[i - 1], c) = q[i]
      BY <2>4, <2>5, ShellSteps
    <3>3. Reads("shell", q[i - 1], <<c>>, q[i])
      BY <3>2, ReadsOne
    <3>. QED
      BY <2>1, <3>1, <3>3
  <2>6. CASE c = Quote
    <3>1. ss[i] = <<Quote, "\\", Quote, Quote>>
      BY <1>1, <1>2, <2>1, <2>6
    <3>2. PICK r, s, t : /\ r = ShellAt("bare", name, v, read)
                         /\ s = ShellAt("escaped", name, v, read)
                         /\ t = ShellAt("bare", name, Append(v, c), read)
      OBVIOUS
    <3>3. /\ r = MachineStep("shell", q[i - 1], Quote)
          /\ s = MachineStep("shell", r, "\\")
          /\ t = MachineStep("shell", s, Quote)
          /\ q[i] = MachineStep("shell", t, Quote)
      BY <2>4, <2>6, <3>2, ShellSteps
    <3>4. Reads("shell", q[i - 1], <<Quote, "\\", Quote, Quote>>, q[i])
      BY <3>3, ReadsFour
    <3>. QED
      BY <1>4, <3>1, <3>4
  <2>. QED
    BY <2>5, <2>6
<1>6. ss \in Seq(Seq(Char)) /\ Len(ss) = N
  <2>1. ss \in [1 .. N -> Seq(Char)]
    BY <1>1, <1>2, <1>5
  <2>. QED
    BY <2>1
<1>7. /\ FlattenSeq(ss) \in Seq(Char)
      /\ Reads("shell", q[0], FlattenSeq(ss), q[N])
  <2>1. FlattenSeq(ss) \in Seq(Char)
    BY <1>6, FlattenedType
  <2>2. \A i \in 1 .. Len(ss) : Reads("shell", q[i - 1], ss[i], q[i])
    BY <1>5, <1>6
  <2>3. Reads("shell", q[0], FlattenSeq(ss), q[Len(ss)])
    BY <1>6, <2>2, ReadsParts
  <2>. QED
    BY <1>6, <2>1, <2>3
<1>8. /\ q[0] = ShellAt("quoted", name, <<>>, read)
      /\ q[N] = ShellAt("quoted", name, value, read)
  BY <1>1, <1>3, NoneAndAll
<1>9. Reads("shell", ShellAt("bare", name, <<>>, read), <<Quote>>, q[0])
  <2>1. MachineStep("shell", ShellAt("bare", name, <<>>, read), Quote) = q[0]
    BY <1>8, ShellSteps
  <2>. QED
    BY <2>1, ReadsOne
<1>10. Reads("shell", q[N], <<Quote>>, ShellAt("bare", name, value, read))
  <2>1. MachineStep("shell", q[N], Quote) = ShellAt("bare", name, value, read)
    BY <1>8, ShellSteps
  <2>. QED
    BY <2>1, ReadsOne
<1>11. PICK o, f : o = <<Quote>> /\ f = FlattenSeq(ss)
  OBVIOUS
<1>12. o \in Seq(Char) /\ f \in Seq(Char) /\ o \o f \in Seq(Char)
       /\ (o \o f) \o o \in Seq(Char)
  BY <1>4, <1>7, <1>11
<1>13. Reads("shell", ShellAt("bare", name, <<>>, read), o \o f, q[N])
  BY <1>7, <1>9, <1>11, <1>12, ReadsOn
<1>14. Reads("shell", ShellAt("bare", name, <<>>, read), (o \o f) \o o,
             ShellAt("bare", name, value, read))
  BY <1>10, <1>11, <1>12, <1>13, ReadsOn
<1>15. write_shell_quoted(value) = (o \o f) \o o
  BY <1>2, <1>11 DEF write_shell_quoted
<1>. QED
  BY <1>12, <1>14, <1>15

\* One line of the file is one assignment.
LineOf(secret) == <<secret.name, "=">> \o write_shell_quoted(secret.value) \o <<"LF">>

LEMMA LineIsRead ==
    ASSUME NEW secret, secret.name \in Char, secret.value \in Seq(Char), NEW read
    PROVE  /\ LineOf(secret) \in Seq(Char)
           /\ Reads("shell", LineStart(read), LineOf(secret),
                    LineStart(Append(read, [name |-> secret.name, value |-> secret.value])))
<1>1. PICK name, value : name = secret.name /\ value = secret.value
  OBVIOUS
<1>2. PICK a, b, c : a = <<name, "=">> /\ b = write_shell_quoted(value) /\ c = <<"LF">>
  OBVIOUS
<1>3. PICK q, r : /\ q = ShellAt("bare", name, <<>>, read)
                  /\ r = ShellAt("bare", name, value, read)
  OBVIOUS
<1>4. name \in Char /\ value \in Seq(Char)
  BY <1>1
<1>5. a \in Seq(Char) /\ b \in Seq(Char) /\ c \in Seq(Char)
  <2>1. a \in Seq(Char)
    BY <1>2, <1>4, Literals, CharTexts
  <2>2. b \in Seq(Char)
    BY <1>2, <1>4, QuotedIsRead
  <2>3. c \in Seq(Char)
    BY <1>2, Literals, CharTexts
  <2>. QED
    BY <2>1, <2>2, <2>3
<1>6. Reads("shell", LineStart(read), a, q)
  <2>1. PICK s : s = ShellAt("=", name, <<>>, read)
    OBVIOUS
  <2>2. s = MachineStep("shell", LineStart(read), name) /\ q = MachineStep("shell", s, "=")
    BY <1>3, <2>1, ShellSteps
  <2>. QED
    BY <1>2, <2>2, ReadsTwo
<1>7. Reads("shell", q, b, r)
  BY <1>2, <1>3, <1>4, QuotedIsRead
<1>8. Reads("shell", r, c, LineStart(Append(read, [name |-> name, value |-> value])))
  <2>1. MachineStep("shell", r, "LF") = LineStart(Append(read, [name |-> name, value |-> value]))
    BY <1>3, ShellSteps
  <2>. QED
    BY <1>2, <2>1, ReadsOne
<1>9. a \o b \in Seq(Char) /\ (a \o b) \o c \in Seq(Char)
  BY <1>5
<1>10. Reads("shell", LineStart(read), a \o b, r)
  BY <1>5, <1>6, <1>7, ReadsOn
<1>11. Reads("shell", LineStart(read), (a \o b) \o c,
             LineStart(Append(read, [name |-> name, value |-> value])))
  BY <1>5, <1>8, <1>9, <1>10, ReadsOn
<1>12. LineOf(secret) = (a \o b) \o c
  BY <1>1, <1>2 DEF LineOf
<1>. QED
  BY <1>1, <1>9, <1>11, <1>12

\* And the whole file is all of them.
LEMMA FileIsRead ==
    ASSUME NEW secrets \in Seq([name: STRING, value: Seq(STRING)]), render_dotenv(secrets).ok
    PROVE  SourcedBy(render_dotenv(secrets).text) = [ok |-> TRUE, secrets |-> secrets]
<1>1. PICK N \in Nat : N = Len(secrets) /\ DOMAIN secrets = 1 .. N
  OBVIOUS
<1>2. PICK ss : ss = [i \in DOMAIN secrets |-> LineOf(secrets[i])]
  OBVIOUS
<1>3. PICK q : q = [i \in 0 .. N |-> LineStart(SubSeq(secrets, 1, i))]
  OBVIOUS
<1>4. PICK T : T = [name: STRING, value: Seq(STRING)]
  OBVIOUS
<1>0. secrets \in Seq(T)
  BY <1>4
<1>5. ASSUME NEW i \in 1 .. N
      PROVE  ss[i] \in Seq(Char) /\ Reads("shell", q[i - 1], ss[i], q[i])
  <2>1. PICK secret : secret = secrets[i]
    OBVIOUS
  <2>2. secret \in T
    BY <1>0, <1>1, <2>1
  <2>3. /\ secret.name \in STRING /\ secret.value \in Seq(STRING)
        /\ [name |-> secret.name, value |-> secret.value] = secret
    BY <1>4, <2>2
  <2>4. secret.name \in Char /\ secret.value \in Seq(Char)
    BY <2>3, CharsOfText
  <2>5. Append(SubSeq(secrets, 1, i - 1), secret) = SubSeq(secrets, 1, i)
    BY <1>0, <1>1, <2>1, OneMore
  <2>6. /\ q[i - 1] = LineStart(SubSeq(secrets, 1, i - 1))
        /\ q[i] = LineStart(Append(SubSeq(secrets, 1, i - 1), secret))
    <3>1. i - 1 \in 0 .. N /\ i \in 0 .. N
      OBVIOUS
    <3>. QED
      BY <1>3, <2>5, <3>1
  <2>7. ss[i] = LineOf(secret)
    BY <1>1, <1>2, <2>1
  <2>. QED
    BY <2>3, <2>4, <2>6, <2>7, LineIsRead
<1>6. ss \in Seq(Seq(Char)) /\ Len(ss) = N
  <2>1. ss \in [1 .. N -> Seq(Char)]
    BY <1>1, <1>2, <1>5
  <2>. QED
    BY <2>1
<1>7. PICK text : text = FlattenSeq(ss)
  OBVIOUS
<1>8. text \in Seq(Char) /\ Reads("shell", q[0], text, q[N])
  <2>1. \A i \in 1 .. Len(ss) : Reads("shell", q[i - 1], ss[i], q[i])
    BY <1>5, <1>6
  <2>2. Reads("shell", q[0], FlattenSeq(ss), q[Len(ss)])
    BY <1>6, <2>1, ReadsParts
  <2>. QED
    BY <1>6, <1>7, <2>2, FlattenedType
<1>9. q[0] = LineStart(<<>>) /\ q[N] = LineStart(secrets)
  <2>1. SubSeq(secrets, 1, 0) = <<>>
    BY <1>0, NoneAndAll
  <2>2. SubSeq(secrets, 1, N) = secrets
    BY <1>0, <1>1, NoneAndAll
  <2>3. q[0] = LineStart(SubSeq(secrets, 1, 0)) /\ q[N] = LineStart(SubSeq(secrets, 1, N))
    <3>1. 0 \in 0 .. N /\ N \in 0 .. N
      OBVIOUS
    <3>. QED
      BY <1>3, <3>1
  <2>. QED
    BY <2>1, <2>2, <2>3
<1>10. Sourcing(text)[Len(text)] = LineStart(secrets)
  BY <1>8, <1>9, Sourced
<1>11. SourcedBy(text) = [ok |-> TRUE, secrets |-> secrets]
  <2>1. LineStart(secrets).at = "name" /\ LineStart(secrets).read = secrets
    BY DEF LineStart
  <2>. QED
    BY <1>10, <2>1 DEF SourcedBy
<1>12. render_dotenv(secrets).text = text
  <2>1. render_dotenv(secrets) = NoFile \/ render_dotenv(secrets) = [ok |-> TRUE, text |-> text]
    BY <1>2, <1>7 DEF render_dotenv, LineOf
  <2>. QED
    BY <2>1 DEF NoFile
<1>. QED
  BY <1>11, <1>12

\* Whatever the secrets are made of, quotes, backslashes, dollars and line ends
\* included, a shell that sources the file gets every one of them as it is, and
\* nothing else (render_dotenv, write_shell_quoted).
THEOREM DotenvRoundTrip == OneShotSpec => []DotenvReadsBack
<1>1. ASSUME Ran, Answered("inject"), answer.ok
      PROVE  SourcedBy(answer.text) = [ok |-> TRUE, secrets |-> input.secrets]
  <2>1. input \in Injects /\ answer = render_dotenv(input.secrets)
    BY <1>1, KindOfInput DEF Ran, Answered
  <2>2. PICK secrets : secrets = input.secrets
    OBVIOUS
  <2>3. secrets \in Seq([name: STRING, value: Seq(STRING)])
    BY <2>1, <2>2, InjectsAssumption
  <2>. QED
    BY <1>1, <2>1, <2>2, <2>3, FileIsRead
<1>2. Ran => DotenvReadsBack
  BY <1>1 DEF DotenvReadsBack
<1>. QED
  BY <1>2, RanInvariant, PTL

-----------------------------------------------------------------------------
(* Positions in a text *)

\* Where the first of a character is.
LEMMA FirstFound ==
    ASSUME NEW S, NEW s \in Seq(S), NEW c
    PROVE  /\ Find(s, c) \in 1 .. Len(s) + 1
           /\ \A j \in 1 .. Find(s, c) - 1 : s[j] # c
           /\ Find(s, c) <= Len(s) => s[Find(s, c)] = c
           /\ Find(s, c) <= Len(s) <=> Contains(s, c)
<1>1. PICK N \in Nat : N = Len(s) /\ DOMAIN s = 1 .. N
  OBVIOUS
<1>2. Contains(s, c) <=> \E i \in 1 .. N : s[i] = c
  BY <1>1 DEF Contains
<1>3. CASE ~Contains(s, c)
  BY <1>1, <1>2, <1>3 DEF Find
<1>4. CASE Contains(s, c)
  <2>. DEFINE First(i) == s[i] = c /\ \A j \in 1 .. i - 1 : s[j] # c
  <2>1. PICK P : P = {n \in 0 .. N : \A i \in 1 .. n : s[i] # c}
    OBVIOUS
  <2>2. SUFFICES \E i \in 1 .. N : First(i)
    <3>1. Find(s, c) = CHOOSE i \in 1 .. N : First(i)
      BY <1>1, <1>4 DEF Find
    <3>2. Find(s, c) \in 1 .. N /\ First(Find(s, c))
      BY <2>2, <3>1
    <3>. QED
      BY <1>1, <1>4, <3>2
  <2>3. SUFFICES ASSUME \A i \in 1 .. N : ~First(i) PROVE FALSE
    OBVIOUS
  <2>4. 0 \in P
    BY <2>1
  <2>5. ASSUME NEW n \in 0 .. N - 1, n \in P PROVE n + 1 \in P
    BY <2>1, <2>3, <2>5
  <2>6. \A n \in 0 .. N : n \in P
    BY <2>4, <2>5, Induct, Zenon
  <2>. QED
    BY <1>2, <1>4, <2>1, <2>6
<1>. QED
  BY <1>3, <1>4

\* Text without a fragment, a fragment, and how a URL is made of the two.
Plain == Char \ {"#"}
IsFragment(t) == t \in Seq(Char) /\ (t = <<>> \/ t[1] = "#")

LEMMA Parts ==
    ASSUME NEW url \in Seq(Char)
    PROVE  /\ Before(url, "#") \in Seq(Plain)
           /\ IsFragment(SubSeq(url, Find(url, "#"), Len(url)))
           /\ url = Before(url, "#") \o SubSeq(url, Find(url, "#"), Len(url))
<1>1. PICK f \in 1 .. Len(url) + 1 : f = Find(url, "#")
  BY FirstFound
<1>2. /\ \A j \in 1 .. f - 1 : url[j] # "#"
      /\ f <= Len(url) => url[f] = "#"
  BY <1>1, FirstFound
<1>3. PICK b, t : b = SubSeq(url, 1, f - 1) /\ t = SubSeq(url, f, Len(url))
  OBVIOUS
<1>4. /\ b \in Seq(Char) /\ Len(b) = f - 1
      /\ \A j \in 1 .. f - 1 : b[j] = url[j]
  BY <1>3
<1>9. Len(url) \in Nat /\ f \in Nat /\ f >= 1 /\ f <= Len(url) + 1
  OBVIOUS
<1>5. b \in Seq(Plain)
  <2>1. \A j \in 1 .. Len(b) : b[j] \in Plain
    BY <1>2, <1>4 DEF Plain
  <2>. QED
    BY <1>4, <2>1
<1>6. /\ t \in Seq(Char) /\ Len(t) = Len(url) + 1 - f
      /\ \A j \in 1 .. Len(t) : t[j] = url[f + j - 1]
  BY <1>3
<1>7. IsFragment(t)
  <2>1. CASE f = Len(url) + 1
    BY <1>6, <2>1 DEF IsFragment
  <2>2. CASE f <= Len(url)
    BY <1>2, <1>6, <2>2 DEF IsFragment
  <2>. QED
    BY <2>1, <2>2
<1>8. url = b \o t
  <2>1. PICK n \in Nat : n = Len(url)
    OBVIOUS
  <2>2. PICK w : w = b \o t
    OBVIOUS
  <2>3. /\ w \in Seq(Char) /\ Len(w) = Len(b) + Len(t)
        /\ \A j \in 1 .. Len(b) : w[j] = b[j]
        /\ \A j \in 1 .. Len(t) : w[Len(b) + j] = t[j]
    <3>1. b \in Seq(Char) /\ t \in Seq(Char)
      BY <1>4, <1>6
    <3>. QED
      BY <2>2, <3>1
  <2>4. Len(w) = n
    BY <1>4, <1>6, <1>9, <2>1, <2>3
  <2>5. ASSUME NEW j \in 1 .. n PROVE w[j] = url[j]
    <3>1. CASE j <= f - 1
      BY <1>4, <2>3, <3>1
    <3>2. CASE j > f - 1
      <4>1. PICK i \in 1 .. Len(t) : i = j - (f - 1) /\ Len(b) + i = j /\ f + i - 1 = j
        <5>1. j - (f - 1) \in 1 .. Len(t)
          BY <1>6, <1>9, <2>1, <3>2
        <5>2. Len(b) + (j - (f - 1)) = j /\ f + (j - (f - 1)) - 1 = j
          BY <1>4, <1>9
        <5>. QED
          BY <5>1, <5>2
      <4>2. w[j] = t[i]
        BY <2>3, <4>1
      <4>3. t[i] = url[j]
        BY <1>6, <4>1
      <4>. QED
        BY <4>2, <4>3
    <3>. QED
      BY <3>1, <3>2
  <2>6. w = url
    BY <2>1, <2>3, <2>4, <2>5, SameSeq
  <2>. QED
    BY <2>2, <2>6
<1>. QED
  BY <1>1, <1>3, <1>5, <1>7, <1>8 DEF Before

LEMMA AfterFragment ==
    ASSUME NEW b \in Seq(Plain), NEW t, IsFragment(t)
    PROVE  After(b \o t, "#") = SubSeq(t, 2, Len(t))
<1>1. PICK url : url = b \o t
  OBVIOUS
<1>2. b \in Seq(Char) /\ t \in Seq(Char)
  BY DEF Plain, IsFragment
<1>3. /\ url \in Seq(Char) /\ Len(url) = Len(b) + Len(t)
      /\ \A j \in 1 .. Len(b) : url[j] = b[j]
      /\ \A j \in 1 .. Len(t) : url[Len(b) + j] = t[j]
  BY <1>1, <1>2
<1>4. \A j \in 1 .. Len(b) : url[j] # "#"
  BY <1>3 DEF Plain
<1>5. PICK f \in 1 .. Len(url) + 1 : f = Find(url, "#")
  BY <1>3, FirstFound
<1>6. /\ \A j \in 1 .. f - 1 : url[j] # "#"
      /\ f <= Len(url) => url[f] = "#"
  BY <1>3, <1>5, FirstFound
<1>7. f = Len(b) + 1
  <2>1. ~(f <= Len(b))
    BY <1>3, <1>4, <1>6
  <2>2. ~(f > Len(b) + 1)
    <3>1. SUFFICES ASSUME f > Len(b) + 1 PROVE FALSE
      OBVIOUS
    <3>2. Len(t) >= 1
      BY <1>3, <3>1
    <3>3. t[1] = "#" /\ url[Len(b) + 1] = t[1]
      BY <1>3, <3>2 DEF IsFragment
    <3>. QED
      BY <1>2, <1>6, <3>1, <3>3
  <2>. QED
    BY <1>2, <2>1, <2>2
<1>8. SubSeq(url, f + 1, Len(url)) = SubSeq(t, 2, Len(t))
  <2>1. PICK u, v : u = SubSeq(url, f + 1, Len(url)) /\ v = SubSeq(t, 2, Len(t))
    OBVIOUS
  <2>2. u \in Seq(Char) /\ v \in Seq(Char)
    BY <1>2, <1>3, <2>1
  <2>3. PICK n \in Nat : n = Len(u)
    BY <2>2
  <2>4. n = Len(v) /\ (n = 0 \/ n = Len(t) - 1)
    BY <1>2, <1>3, <1>7, <2>1, <2>3
  <2>5. ASSUME NEW j \in 1 .. n PROVE u[j] = v[j]
    <3>1. u[j] = url[(Len(b) + 2) + j - 1] /\ v[j] = t[j + 1]
      <4>1. u[j] = url[(f + 1) + j - 1]
        BY <1>3, <2>1, <2>3
      <4>2. v[j] = t[2 + j - 1]
        BY <1>2, <2>1, <2>4
      <4>3. (f + 1) + j - 1 = (Len(b) + 2) + j - 1 /\ 2 + j - 1 = j + 1
        BY <1>2, <1>7
      <4>. QED
        BY <4>1, <4>2, <4>3
    <3>2. PICK k \in 1 .. Len(t) : k = j + 1
      BY <2>4
    <3>. QED
      BY <1>2, <1>3, <3>1, <3>2
  <2>6. n \in Nat /\ Len(u) = n /\ Len(v) = n /\ \A j \in 1 .. n : u[j] = v[j]
    BY <2>3, <2>4, <2>5
  <2>7. u = v
    BY <2>2, <2>6, SameSeq
  <2>. QED
    BY <2>1, <2>7
<1>. QED
  BY <1>1, <1>5, <1>8 DEF After

-----------------------------------------------------------------------------
(* The server that reads a query *)

QueryAt(at, pairs, name, value, escape) ==
    [at |-> at, pairs |-> pairs, name |-> name, value |-> value, escape |-> escape]

QueryStates == [at: {"path", "name", "value", "past"}, pairs: Seq(Seq(Char) \X Seq(Char)),
                name: Seq(Char), value: Seq(Char), escape: Seq(Char)]

\* The pairs there are once the one under way has ended.
PairsAfter(q) == EndPair(q, "past").pairs

LEMMA ReadType ==
    ASSUME NEW q \in QueryStates, NEW text \in Seq(Char)
    PROVE  /\ Read(q, text) \in QueryStates
           /\ Read(q, text).at = q.at /\ Read(q, text).escape = <<>>
<1>1. q.name \o text \in Seq(Char) /\ q.value \o text \in Seq(Char) /\ <<>> \in Seq(Char)
  BY DEF QueryStates
<1>. QED
  BY <1>1 DEF Read, QueryStates

LEMMA EndPairType ==
    ASSUME NEW q \in QueryStates, NEW next \in {"path", "name", "value", "past"}
    PROVE  /\ EndPair(q, next) \in QueryStates
           /\ EndPair(q, next) = QueryAt(next, PairsAfter(q), <<>>, <<>>, <<>>)
           /\ PairsAfter(q) \in Seq(Seq(Char) \X Seq(Char))
<1>1. PICK last : last = Read(q, q.escape)
  OBVIOUS
<1>2. last \in QueryStates
  <2>1. q.escape \in Seq(Char)
    BY DEF QueryStates
  <2>. QED
    BY <1>1, <2>1, ReadType
<1>3. PICK pair : pair = <<last.name, last.value>>
  OBVIOUS
<1>4. pair \in Seq(Char) \X Seq(Char)
  BY <1>2, <1>3 DEF QueryStates
<1>5. PICK Pair : Pair = Seq(Char) \X Seq(Char)
  OBVIOUS
<1>6. q.pairs \in Seq(Pair)
  BY <1>5 DEF QueryStates
<1>7. PICK pairs : pairs = IF q.at = "path" \/ (q.at = "name" /\ last.name = <<>>) THEN q.pairs
                           ELSE Append(q.pairs, pair)
  OBVIOUS
<1>8. pairs \in Seq(Pair)
  <2>1. Append(q.pairs, pair) \in Seq(Pair)
    BY <1>4, <1>5, <1>6
  <2>. QED
    BY <1>6, <1>7, <2>1
<1>9. \A n : EndPair(q, n) = QueryAt(n, pairs, <<>>, <<>>, <<>>)
  BY <1>1, <1>3, <1>7 DEF EndPair, QueryAt
<1>10. PairsAfter(q) = pairs
  BY <1>9 DEF PairsAfter, QueryAt
<1>11. <<>> \in Seq(Char)
  OBVIOUS
<1>12. QueryAt(next, pairs, <<>>, <<>>, <<>>) \in QueryStates
  BY <1>5, <1>8, <1>11 DEF QueryAt, QueryStates
<1>. QED
  BY <1>5, <1>8, <1>9, <1>10, <1>12

LEMMA QueryStepType ==
    ASSUME NEW q \in QueryStates, NEW c \in Char
    PROVE  QueryStep(q, c) \in QueryStates
<1>1. <<c>> \in Seq(Char) /\ Append(q.escape, c) \in Seq(Char) /\ q.escape \in Seq(Char)
  BY DEF QueryStates
<1>2. EndPair(q, "past") \in QueryStates /\ EndPair(q, "name") \in QueryStates
  BY EndPairType
<1>3. [Read(q, q.escape) EXCEPT !.at = "value"] \in QueryStates
  <2>1. Read(q, q.escape) \in QueryStates
    BY <1>1, ReadType
  <2>. QED
    BY <2>1 DEF QueryStates
<1>4. \A e \in Seq(Char) : Unescaped(e) \in Seq(Char)
  <2>. TAKE e \in Seq(Char)
  <2>1. PICK P : P = {d \in Octet : Hex[d] = <<Digit(e[2]), Digit(e[3])>>}
    OBVIOUS
  <2>2. Unescaped(e) = e \/ \E d \in Octet : Unescaped(e) = <<d>>
    BY DEF Unescaped
  <2>. QED
    BY <2>2, OctetsAreChars, CharTexts
<1>5. Read(q, Unescaped(Append(q.escape, c))) \in QueryStates
  BY <1>1, <1>4, ReadType
<1>6. [q EXCEPT !.escape = Append(@, c)] \in QueryStates
  BY <1>1 DEF QueryStates
<1>7. Read(q, Append(q.escape, IF c = "+" THEN " " ELSE c)) \in QueryStates
  <2>1. PICK d : d = IF c = "+" THEN " " ELSE c
    OBVIOUS
  <2>2. Append(q.escape, d) \in Seq(Char)
    <3>1. d \in Char
      BY <2>1, Literals
    <3>. QED
      BY <1>1, <3>1
  <2>. QED
    BY <2>1, <2>2, ReadType
<1>8. [Read(q, q.escape) EXCEPT !.escape = <<c>>] \in QueryStates
  <2>1. Read(q, q.escape) \in QueryStates
    BY <1>1, ReadType
  <2>. QED
    BY <1>1, <2>1 DEF QueryStates
<1>. QED
  BY <1>2, <1>3, <1>5, <1>6, <1>7, <1>8 DEF QueryStep

\* The part before the fragment does not take it past the query, and to the
\* query only if there is one.
LEMMA BaseIsRead ==
    ASSUME NEW base \in Seq(Plain)
    PROVE  \E q \in QueryStates :
              /\ Reads("query", QueryStart, base, q)
              /\ q.at # "past"
              /\ q.at = "path" <=> ~Contains(base, "?")
<1>1. PICK N \in Nat : N = Len(base)
  OBVIOUS
<1>. DEFINE Fine(i, q) == /\ Reads("query", QueryStart, SubSeq(base, 1, i), q)
                          /\ q.at # "past"
                          /\ q.at = "path" <=> \A j \in 1 .. i : base[j] # "?"
<1>2. PICK P : P = {i \in 0 .. N : \E q \in QueryStates : Fine(i, q)}
  OBVIOUS
<1>3. 0 \in P
  <2>1. SubSeq(base, 1, 0) = <<>>
    BY NoneAndAll
  <2>2. Reads("query", QueryStart, SubSeq(base, 1, 0), QueryStart)
    BY <2>1, ReadsNothing
  <2>3. QueryStart.at = "path"
    BY DEF QueryStart
  <2>4. QueryStart \in QueryStates
    BY DEF QueryStart, QueryStates
  <2>. QED
    BY <1>2, <2>2, <2>3, <2>4
<1>4. ASSUME NEW i \in 0 .. N - 1, i \in P PROVE i + 1 \in P
  <2>1. PICK j \in 1 .. N : j = i + 1 /\ j - 1 = i
    OBVIOUS
  <2>2. PICK q \in QueryStates : Fine(i, q)
    BY <1>2, <1>4
  <2>3. PICK c : c = base[j]
    OBVIOUS
  <2>4. c \in Char /\ c # "#"
    BY <1>1, <2>3 DEF Plain
  <2>5. PICK r : r = QueryStep(q, c)
    OBVIOUS
  <2>6. r \in QueryStates
    BY <2>4, <2>5, QueryStepType
  <2>7. Reads("query", QueryStart, SubSeq(base, 1, j), r)
    <3>1. PICK t : t = SubSeq(base, 1, i)
      OBVIOUS
    <3>2. t \in Seq(Plain) /\ <<c>> \in Seq(Plain)
      BY <1>1, <2>3, <3>1
    <3>3. t \o <<c>> = SubSeq(base, 1, j)
      <4>1. Append(SubSeq(base, 1, j - 1), base[j]) = SubSeq(base, 1, j)
        BY <1>1, OneMore
      <4>. QED
        BY <2>1, <2>3, <3>1, <3>2, <4>1
    <3>4. Reads("query", q, <<c>>, r)
      <4>1. MachineStep("query", q, c) = r
        BY <2>5 DEF MachineStep
      <4>. QED
        BY <4>1, ReadsOne
    <3>. QED
      BY <2>2, <3>1, <3>2, <3>3, <3>4, ReadsOn
  <2>8. r.at # "past" /\ (r.at = "path" <=> q.at = "path" /\ c # "?")
    <3>1. /\ Read(q, q.escape).at = q.at
          /\ Read(q, Unescaped(Append(q.escape, c))).at = q.at
          /\ Read(q, Append(q.escape, IF c = "+" THEN " " ELSE c)).at = q.at
      BY DEF Read, QueryStates
    <3>5. [Read(q, q.escape) EXCEPT !.escape = <<c>>].at = q.at
      BY DEF Read, QueryStates
    <3>6. c = "?" => c \notin Dropped
      BY DEF Dropped
    <3>2. EndPair(q, "name").at = "name"
      BY EndPairType DEF QueryAt
    <3>3. [q EXCEPT !.escape = Append(@, c)].at = q.at
      BY DEF QueryStates
    <3>4. [Read(q, q.escape) EXCEPT !.at = "value"].at = "value"
      BY DEF Read, QueryStates
    <3>. QED
      BY <2>2, <2>4, <2>5, <3>1, <3>2, <3>3, <3>4, <3>5, <3>6 DEF QueryStep
  <2>9. Fine(j, r)
    BY <2>1, <2>2, <2>3, <2>7, <2>8
  <2>. QED
    BY <1>2, <2>1, <2>6, <2>9
<1>5. N \in P
  <2>1. \A i \in 0 .. N : i \in P
    BY <1>3, <1>4, Induct, Zenon
  <2>. QED
    BY <2>1
<1>6. PICK q \in QueryStates : Fine(N, q)
  BY <1>2, <1>5
<1>7. SubSeq(base, 1, N) = base /\ (Contains(base, "?") <=> \E j \in 1 .. N : base[j] = "?")
  BY <1>1 DEF Contains
<1>. QED
  BY <1>6, <1>7

\* What a query is made of is escaped, the escapes of different octets differ, and a
\* digit of one has no meaning but that.
LEMMA Escapes ==
    /\ Blank \union {"#", "&", "=", "%", "+", "[", "]"} \subseteq Octet \ Unreserved
    /\ \A c \in Octet :
          Hex[c] = <<Hex[c][1], Hex[c][2]>> /\ Hex[c][1] \in HexDigits /\ Hex[c][2] \in HexDigits
    /\ \A c, d \in Octet : Hex[c] = Hex[d] => c = d
    /\ \A h \in HexDigits : /\ Digit(h) = h
                            /\ h \notin {"#", "&", "=", "%", "[", "]"} /\ h \notin Blank
<1>1. Blank \union {"#", "&", "=", "%", "+", "[", "]"} \subseteq Octet \ Unreserved
  BY HexAssumption
<1>2. \A c \in Octet :
          Hex[c] = <<Hex[c][1], Hex[c][2]>> /\ Hex[c][1] \in HexDigits /\ Hex[c][2] \in HexDigits
  <2>1. \A c \in Octet : Hex[c] \in HexDigits \X HexDigits
    BY HexAssumption
  <2>. QED
    BY <2>1
<1>3. \A c, d \in Octet : Hex[c] = Hex[d] => c = d
  BY HexAssumption
<1>4. \A h \in HexDigits : h \notin {"#", "&", "=", "%", "[", "]"} /\ h \notin Blank
  BY <1>1, HexAssumption
<1>5. \A h \in HexDigits : Digit(h) = h
  BY DEF HexDigits, Digit
<1>. QED
  BY <1>1, <1>2, <1>3, <1>4, <1>5

LEMMA DroppedIsBlank == Dropped \subseteq Blank
BY DEF Dropped, Blank, Controls

LEMMA Tuples ==
    /\ \A a : Len(<<a>>) = 1 /\ <<a>> # <<>>
    /\ \A a, b : Append(<<a>>, b) = <<a, b>> /\ Len(<<a, b>>) = 2
    /\ \A a, b, c : /\ Append(<<a, b>>, c) = <<a, b, c>>
                    /\ <<a>> \o <<b, c>> = <<a, b, c>>
                    /\ Tail(<<a, b, c>>) = <<b, c>>
<1>1. \A a : Len(<<a>>) = 1 /\ <<a>> # <<>>
  OBVIOUS
<1>2. ASSUME NEW a, NEW b PROVE Append(<<a>>, b) = <<a, b>> /\ Len(<<a, b>>) = 2
  <2>1. PICK S, s, t : S = {a, b} /\ s = <<a>> /\ t = <<a, b>>
    OBVIOUS
  <2>2. s \in Seq(S) /\ t \in Seq(S) /\ b \in S /\ a \in S
    BY <2>1
  <2>3. Len(s) = 1 /\ s[1] = a /\ Len(t) = 2 /\ t[1] = a /\ t[2] = b
    BY <2>1
  <2>4. PICK w : w = Append(s, b)
    OBVIOUS
  <2>5. w \in Seq(S) /\ Len(w) = 2 /\ \A i \in 1 .. 2 : w[i] = t[i]
    <3>1. /\ w \in Seq(S) /\ Len(w) = Len(s) + 1 /\ w[Len(s) + 1] = b
          /\ \A i \in 1 .. Len(s) : w[i] = s[i]
      BY <2>2, <2>4
    <3>2. w[1] = t[1] /\ w[2] = t[2]
      BY <2>3, <3>1
    <3>3. \A i \in 1 .. 2 : i = 1 \/ i = 2
      OBVIOUS
    <3>. QED
      BY <2>3, <3>1, <3>2, <3>3
  <2>6. w = t
    BY <2>2, <2>3, <2>5, SameSeq
  <2>. QED
    BY <2>1, <2>3, <2>4, <2>6
<1>3. ASSUME NEW a, NEW b, NEW c
      PROVE  /\ Append(<<a, b>>, c) = <<a, b, c>>
             /\ <<a>> \o <<b, c>> = <<a, b, c>>
             /\ Tail(<<a, b, c>>) = <<b, c>>
  <2>1. PICK S, s, t, u, v : /\ S = {a, b, c} /\ s = <<a>> /\ t = <<a, b>> /\ u = <<b, c>>
                             /\ v = <<a, b, c>>
    OBVIOUS
  <2>2. /\ s \in Seq(S) /\ t \in Seq(S) /\ u \in Seq(S) /\ v \in Seq(S)
        /\ a \in S /\ b \in S /\ c \in S
    BY <2>1
  <2>3. /\ Len(s) = 1 /\ s[1] = a /\ Len(t) = 2 /\ t[1] = a /\ t[2] = b
        /\ Len(u) = 2 /\ u[1] = b /\ u[2] = c
        /\ Len(v) = 3 /\ v[1] = a /\ v[2] = b /\ v[3] = c
    BY <2>1
  <2>4. PICK w, y, z : w = Append(t, c) /\ y = s \o u /\ z = Tail(v)
    OBVIOUS
  <2>5. w \in Seq(S) /\ Len(w) = 3 /\ \A i \in 1 .. 3 : w[i] = v[i]
    <3>1. /\ w \in Seq(S) /\ Len(w) = Len(t) + 1 /\ w[Len(t) + 1] = c
          /\ \A i \in 1 .. Len(t) : w[i] = t[i]
      BY <2>2, <2>4
    <3>2. w[1] = v[1] /\ w[2] = v[2] /\ w[3] = v[3]
      BY <2>3, <3>1
    <3>3. \A i \in 1 .. 3 : i = 1 \/ i = 2 \/ i = 3
      OBVIOUS
    <3>. QED
      BY <2>3, <3>1, <3>2, <3>3
  <2>6. y \in Seq(S) /\ Len(y) = 3 /\ \A i \in 1 .. 3 : y[i] = v[i]
    <3>1. y \in Seq(S) /\ Len(y) = Len(s) + Len(u)
      BY <2>2, <2>4
    <3>2. /\ \A i \in 1 .. Len(s) : y[i] = s[i]
          /\ \A i \in 1 .. Len(u) : y[Len(s) + i] = u[i]
      BY <2>2, <2>4
    <3>3. y[1] = s[1] /\ y[2] = u[1] /\ y[3] = u[2]
      BY <2>3, <3>2
    <3>4. \A i \in 1 .. 3 : i = 1 \/ i = 2 \/ i = 3
      OBVIOUS
    <3>. QED
      BY <2>3, <3>1, <3>3, <3>4
  <2>7. z \in Seq(S) /\ Len(z) = 2 /\ \A i \in 1 .. 2 : z[i] = u[i]
    BY <2>2, <2>3, <2>4
  <2>8. w = v /\ y = v
    BY <2>2, <2>3, <2>5, <2>6, SameSeq
  <2>9. z = u
    BY <2>2, <2>3, <2>7, SameSeq
  <2>. QED
    BY <2>1, <2>4, <2>8, <2>9
<1>. QED
  BY <1>1, <1>2, <1>3

LEMMA ReadsThree ==
    ASSUME NEW m, NEW q, NEW r, NEW s, NEW t, NEW c, NEW d, NEW e,
           r = MachineStep(m, q, c), s = MachineStep(m, r, d), t = MachineStep(m, s, e)
    PROVE  Reads(m, q, <<c, d, e>>, t)
<1>0. PICK text : text = <<c, d, e>>
  OBVIOUS
<1>1. PICK run : run = [i \in 0 .. 3 |-> IF i = 0 THEN q ELSE IF i = 1 THEN r
                                         ELSE IF i = 2 THEN s ELSE t]
  OBVIOUS
<1>2. Len(text) = 3 /\ text[1] = c /\ text[2] = d /\ text[3] = e
  BY <1>0
<1>3. run[0] = q /\ run[1] = r /\ run[2] = s /\ run[3] = t /\ run = [i \in 0 .. 3 |-> run[i]]
  BY <1>1
<1>4. \A i \in 1 .. 3 : run[i] = MachineStep(m, run[i - 1], text[i])
  BY <1>2, <1>3
<1>. QED
  BY <1>0, <1>2, <1>3, <1>4 DEF Reads, IsRun

\* With some text of a name, or of a value, and nothing escaped under way.
Texts == {"name", "value"}
Separators == {"#", "&", "="}
Meant(c) == IF c = "+" THEN " " ELSE c

AtText(at, pairs, name, text, escape) ==
    IF at = "name" THEN QueryAt("name", pairs, text, <<>>, escape)
    ELSE QueryAt("value", pairs, name, text, escape)

Encoded(c) == CASE c = " " -> <<"+">>
                [] c \in Unreserved -> <<c>>
                [] OTHER -> <<"%">> \o Hex[c]

\* One character more.
LEMMA ReadsAChar ==
    ASSUME NEW at \in Texts, NEW pairs, NEW name, NEW text \in Seq(Char), NEW c, NEW escape,
           NEW t, t = <<c>>
    PROVE  Read(AtText(at, pairs, name, text, escape), t)
               = AtText(at, pairs, name, Append(text, c), <<>>)
<1>1. text \o <<c>> = Append(text, c)
  OBVIOUS
<1>2. at = "name" \/ at = "value"
  BY DEF Texts
<1>3. CASE at = "name"
  <2>1. QueryAt("name", pairs, text \o <<c>>, <<>>, <<>>)
            = Read(QueryAt("name", pairs, text, <<>>, escape), <<c>>)
    BY DEF Read, QueryAt
  <2>. QED
    BY <1>1, <1>3, <2>1 DEF AtText, QueryAt
<1>4. CASE at = "value"
  <2>1. QueryAt("value", pairs, name, text \o <<c>>, <<>>)
            = Read(QueryAt("value", pairs, name, text, escape), <<c>>)
    BY DEF Read, QueryAt
  <2>. QED
    BY <1>1, <1>4, <2>1 DEF AtText, QueryAt
<1>. QED
  BY <1>2, <1>3, <1>4

LEMMA ReadsNoMore ==
    ASSUME NEW at \in Texts, NEW pairs, NEW name, NEW text \in Seq(Char), NEW e, e = <<>>
    PROVE  Read(AtText(at, pairs, name, text, e), e) = AtText(at, pairs, name, text, e)
<1>1. text \o e = text
  OBVIOUS
<1>2. at = "name" \/ at = "value"
  BY DEF Texts
<1>3. CASE at = "name"
  <2>1. QueryAt("name", pairs, text \o e, <<>>, <<>>) = Read(QueryAt("name", pairs, text, <<>>, e), e)
    BY DEF Read, QueryAt
  <2>. QED
    BY <1>1, <1>3, <2>1 DEF AtText, QueryAt
<1>4. CASE at = "value"
  <2>1. QueryAt("value", pairs, name, text \o e, <<>>) = Read(QueryAt("value", pairs, name, text, e), e)
    BY DEF Read, QueryAt
  <2>. QED
    BY <1>1, <1>4, <2>1 DEF AtText, QueryAt
<1>. QED
  BY <1>2, <1>3, <1>4

LEMMA WhereItIs ==
    ASSUME NEW at \in Texts, NEW pairs, NEW name, NEW text, NEW escape
    PROVE  /\ AtText(at, pairs, name, text, escape).at \in {"name", "value"}
           /\ AtText(at, pairs, name, text, escape).escape = escape
BY DEF AtText, QueryAt, Texts

LEMMA MoreEscape ==
    ASSUME NEW at, NEW pairs, NEW name, NEW text, NEW escape, NEW e
    PROVE  [AtText(at, pairs, name, text, escape) EXCEPT !.escape = e]
               = AtText(at, pairs, name, text, e)
BY DEF AtText, QueryAt

\* What it does with each character of an encoded text: one that stands for itself,
\* "+", and the three of an escape.
LEMMA OtherStep ==
    ASSUME NEW at \in Texts, NEW pairs, NEW name, NEW text \in Seq(Char), NEW c,
           c \notin Separators, c \notin {"%"}, c \notin Dropped, NEW d, d = Meant(c)
    PROVE  QueryStep(AtText(at, pairs, name, text, <<>>), c)
               = AtText(at, pairs, name, Append(text, d), <<>>)
<1>1. PICK q : q = AtText(at, pairs, name, text, <<>>)
  OBVIOUS
<1>2. q.at \in {"name", "value"} /\ q.escape = <<>>
  BY <1>1, WhereItIs
<1>3. PICK t : t = <<d>>
  OBVIOUS
<1>4. Append(q.escape, d) = t
  BY <1>2, <1>3
<1>5. QueryStep(q, c) = Read(q, t)
  BY <1>2, <1>4 DEF QueryStep, Separators, Meant
<1>6. Read(q, t) = AtText(at, pairs, name, Append(text, d), <<>>)
  BY <1>1, <1>3, ReadsAChar
<1>. QED
  BY <1>1, <1>5, <1>6

LEMMA PercentStep ==
    ASSUME NEW at \in Texts, NEW pairs, NEW name, NEW text \in Seq(Char), NEW e, e = <<"%">>
    PROVE  QueryStep(AtText(at, pairs, name, text, <<>>), "%")
               = AtText(at, pairs, name, text, e)
<1>1. PICK q : q = AtText(at, pairs, name, text, <<>>)
  OBVIOUS
<1>2. q.at \in {"name", "value"} /\ q.escape = <<>>
  BY <1>1, WhereItIs
<1>3. Read(q, q.escape) = q
  BY <1>1, <1>2, ReadsNoMore
<1>4. QueryStep(q, "%") = [q EXCEPT !.escape = <<"%">>]
  BY <1>2, <1>3 DEF QueryStep, Dropped
<1>. QED
  BY <1>1, <1>4, MoreEscape

LEMMA FirstDigitStep ==
    ASSUME NEW at \in Texts, NEW pairs, NEW name, NEW text \in Seq(Char), NEW c \in HexDigits,
           NEW e, e = <<"%">>, NEW f, f = <<"%", c>>
    PROVE  QueryStep(AtText(at, pairs, name, text, e), c) = AtText(at, pairs, name, text, f)
<1>1. PICK q : q = AtText(at, pairs, name, text, e)
  OBVIOUS
<1>2. q.at \in {"name", "value"} /\ q.escape = <<"%">>
  BY <1>1, WhereItIs
<1>3. Len(q.escape) = 1 /\ Append(q.escape, c) = <<"%", c>> /\ q.escape # <<>>
  BY <1>2, Tuples
<1>4. c \notin {"#", "&", "="} /\ c \notin Dropped /\ Digit(c) \in HexDigits
  BY Escapes, DroppedIsBlank
<1>5. QueryStep(q, c) = [q EXCEPT !.escape = Append(@, c)]
  BY <1>2, <1>3, <1>4 DEF QueryStep
<1>6. QueryStep(q, c) = [q EXCEPT !.escape = f]
  BY <1>3, <1>5
<1>. QED
  BY <1>1, <1>6, MoreEscape

LEMMA SecondDigitStep ==
    ASSUME NEW at \in Texts, NEW pairs, NEW name, NEW text \in Seq(Char), NEW c \in Octet,
           NEW f, f = <<"%", Hex[c][1]>>
    PROVE  QueryStep(AtText(at, pairs, name, text, f), Hex[c][2])
               = AtText(at, pairs, name, Append(text, c), <<>>)
<1>1. PICK h, k : h = Hex[c][1] /\ k = Hex[c][2]
  OBVIOUS
<1>2. PICK q : q = AtText(at, pairs, name, text, f)
  OBVIOUS
<1>3. q.at \in {"name", "value"} /\ q.escape = <<"%", h>>
  BY <1>1, <1>2, WhereItIs
<1>4. Len(q.escape) = 2 /\ Append(q.escape, k) = <<"%", h, k>> /\ q.escape # <<>>
  <2>1. \A a, b : <<a, b>> # <<>>
    OBVIOUS
  <2>. QED
    BY <1>3, <2>1, Tuples
<1>5. /\ h \in HexDigits /\ k \in HexDigits /\ Digit(h) = h /\ Digit(k) = k
      /\ k \notin {"#", "&", "="} /\ k \notin Dropped
  BY <1>1, Escapes, DroppedIsBlank
<1>6. QueryStep(q, k) = Read(q, Unescaped(<<"%", h, k>>))
  BY <1>3, <1>4, <1>5 DEF QueryStep
<1>9. PICK t : t = <<c>>
  OBVIOUS
<1>7. Unescaped(<<"%", h, k>>) = <<c>>
  <2>1. Hex[c] = <<h, k>>
    BY <1>1, Escapes
  <2>2. \A d \in Octet : Hex[d] = <<h, k>> => d = c
    BY <2>1, Escapes
  <2>3. (CHOOSE d \in Octet : Hex[d] = <<h, k>>) = c
    BY <2>1, <2>2
  <2>4. PICK e : e = <<"%", h, k>>
    OBVIOUS
  <2>5. e[2] = h /\ e[3] = k
    BY <2>4
  <2>6. <<Digit(e[2]), Digit(e[3])>> = <<h, k>>
    BY <1>5, <2>5
  <2>7. Unescaped(e) = <<c>>
    BY <2>1, <2>3, <2>6 DEF Unescaped
  <2>. QED
    BY <2>4, <2>7
<1>8. Read(q, t) = AtText(at, pairs, name, Append(text, c), <<>>)
  BY <1>2, <1>9, ReadsAChar
<1>. QED
  BY <1>1, <1>2, <1>6, <1>7, <1>8, <1>9

\* What an encoded text is made of.
Bare == Plain \ Blank

\* An encoded character is read as the character.
LEMMA EncodedCharIsRead ==
    ASSUME NEW at \in Texts, NEW pairs, NEW name, NEW text \in Seq(Char),
           NEW c \in Octet
    PROVE  /\ Encoded(c) \in Seq(Bare)
           /\ Reads("query", AtText(at, pairs, name, text, <<>>), Encoded(c),
                    AtText(at, pairs, name, Append(text, c), <<>>))
<1>1. PICK q, r : /\ q = AtText(at, pairs, name, text, <<>>)
                  /\ r = AtText(at, pairs, name, Append(text, c), <<>>)
  OBVIOUS
<1>2. \A p, d : MachineStep("query", p, d) = QueryStep(p, d)
  BY DEF MachineStep
<1>6. c \in Char
  BY OctetsAreChars
<1>3. CASE c = " "
  <2>1. Encoded(c) = <<"+">>
    <3>1. " " \notin Unreserved
      BY Escapes DEF Blank
    <3>. QED
      BY <1>3, <3>1 DEF Encoded
  <2>2. QueryStep(q, "+") = r
    <3>1. PICK p : p = "+"
      OBVIOUS
    <3>2. p \notin Separators /\ p \notin {"%"} /\ p \notin Dropped /\ Meant(p) = c
      BY <1>3, <3>1 DEF Separators, Dropped, Meant
    <3>3. QueryStep(q, p) = r
      BY <1>1, <3>2, OtherStep
    <3>. QED
      BY <3>1, <3>3
  <2>3. "+" \in Bare
    BY Literals DEF Plain, Bare, Blank, Controls
  <2>4. Encoded(c) \in Seq(Bare)
    BY <2>1, <2>3
  <2>5. Reads("query", q, <<"+">>, r)
    BY <1>2, <2>2, ReadsOne
  <2>. QED
    BY <1>1, <2>1, <2>4, <2>5
<1>4. CASE c # " " /\ c \notin Unreserved
  <2>1. PICK h, k : h = Hex[c][1] /\ k = Hex[c][2]
    OBVIOUS
  <2>2. Hex[c] = <<h, k>> /\ h \in HexDigits /\ k \in HexDigits
    BY <2>1, Escapes
  <2>4. Encoded(c) = <<"%", h, k>>
    <3>1. <<"%">> \o <<h, k>> = <<"%", h, k>>
      BY Tuples
    <3>. QED
      BY <1>4, <2>2, <3>1 DEF Encoded
  <2>5. "%" \in Bare /\ h \in Bare /\ k \in Bare
    <3>1. "%" \in Bare
      BY Literals DEF Plain, Bare, Blank, Controls
    <3>2. HexDigits \subseteq Bare
      BY OctetsAreChars, Escapes DEF Plain, Bare
    <3>. QED
      BY <2>2, <3>1, <3>2
  <2>6. Encoded(c) \in Seq(Bare)
    <3>1. PICK e : e = "%"
      OBVIOUS
    <3>. QED
      BY <2>4, <2>5, <3>1
  <2>7. PICK e, f, s, t : /\ e = <<"%">> /\ f = <<"%", h>>
                          /\ s = AtText(at, pairs, name, text, e)
                          /\ t = AtText(at, pairs, name, text, f)
    OBVIOUS
  <2>8. s = QueryStep(q, "%") /\ t = QueryStep(s, h) /\ r = QueryStep(t, k)
    <3>1. s = QueryStep(q, "%")
      BY <1>1, <2>7, PercentStep
    <3>2. t = QueryStep(s, h)
      BY <2>2, <2>7, FirstDigitStep
    <3>3. r = QueryStep(t, k)
      BY <1>1, <2>1, <2>7, SecondDigitStep
    <3>. QED
      BY <3>1, <3>2, <3>3
  <2>9. Reads("query", q, <<"%", h, k>>, r)
    BY <1>2, <2>8, ReadsThree
  <2>. QED
    BY <1>1, <2>4, <2>6, <2>9
<1>5. CASE c # " " /\ c \in Unreserved
  <2>1. Encoded(c) = <<c>>
    BY <1>5 DEF Encoded
  <2>2. c \notin {"#", "&", "=", "%", "+"} /\ c \notin Blank /\ c \notin Dropped
    BY <1>5, Escapes, DroppedIsBlank
  <2>7. c \notin Separators /\ c \notin {"%"} /\ Meant(c) = c
    BY <2>2 DEF Separators, Meant
  <2>3. QueryStep(q, c) = r
    BY <1>1, <2>2, <2>7, OtherStep
  <2>4. c \in Bare
    BY <1>6, <2>2 DEF Plain, Bare
  <2>5. Encoded(c) \in Seq(Bare)
    BY <2>1, <2>4
  <2>6. Reads("query", q, <<c>>, r)
    BY <1>2, <2>3, ReadsOne
  <2>. QED
    BY <1>1, <2>1, <2>5, <2>6
<1>. QED
  BY <1>3, <1>4, <1>5

\* And an encoded text as the text.
LEMMA EncodedIsRead ==
    ASSUME NEW at \in Texts, NEW pairs, NEW name, NEW text \in Seq(Octet)
    PROVE  /\ push_query_encoded(text) \in Seq(Bare)
           /\ Reads("query", AtText(at, pairs, name, <<>>, <<>>), push_query_encoded(text),
                    AtText(at, pairs, name, text, <<>>))
<1>1. PICK N \in Nat : N = Len(text) /\ DOMAIN text = 1 .. N
  OBVIOUS
<1>2. PICK ss : ss = [i \in DOMAIN text |-> Encoded(text[i])]
  OBVIOUS
<1>3. PICK q : q = [i \in 0 .. N |-> AtText(at, pairs, name, SubSeq(text, 1, i), <<>>)]
  OBVIOUS
<1>4. push_query_encoded(text) = FlattenSeq(ss)
  BY <1>2 DEF push_query_encoded, Encoded
<1>5. ASSUME NEW i \in 1 .. N
      PROVE  ss[i] \in Seq(Bare) /\ Reads("query", q[i - 1], ss[i], q[i])
  <2>1. PICK c, t : c = text[i] /\ t = SubSeq(text, 1, i - 1)
    OBVIOUS
  <2>2. c \in Octet /\ t \in Seq(Char)
    <3>1. c \in Octet /\ t \in Seq(Octet)
      BY <1>1, <2>1
    <3>. QED
      BY <3>1, OctetsAreChars
  <2>3. Append(t, c) = SubSeq(text, 1, i)
    BY <1>1, <2>1, OneMore
  <2>4. i - 1 \in 0 .. N /\ i \in 0 .. N
    OBVIOUS
  <2>5. /\ q[i - 1] = AtText(at, pairs, name, t, <<>>)
        /\ q[i] = AtText(at, pairs, name, Append(t, c), <<>>)
    BY <1>3, <2>1, <2>3, <2>4
  <2>6. ss[i] = Encoded(c)
    BY <1>1, <1>2, <2>1
  <2>. QED
    BY <2>2, <2>5, <2>6, EncodedCharIsRead
<1>6. ss \in Seq(Seq(Bare)) /\ Len(ss) = N
  <2>1. ss \in [1 .. N -> Seq(Bare)]
    BY <1>1, <1>2, <1>5
  <2>. QED
    BY <2>1
<1>7. FlattenSeq(ss) \in Seq(Bare)
  BY <1>6, FlattenedType
<1>8. Reads("query", q[0], FlattenSeq(ss), q[N])
  <2>1. \A i \in 1 .. Len(ss) : Reads("query", q[i - 1], ss[i], q[i])
    BY <1>5, <1>6
  <2>. QED
    BY <1>6, <2>1, ReadsParts
<1>9. /\ q[0] = AtText(at, pairs, name, <<>>, <<>>)
      /\ q[N] = AtText(at, pairs, name, text, <<>>)
  <2>1. SubSeq(text, 1, 0) = <<>> /\ SubSeq(text, 1, N) = text
    BY <1>1, NoneAndAll
  <2>2. 0 \in 0 .. N /\ N \in 0 .. N
    OBVIOUS
  <2>. QED
    BY <1>3, <2>1, <2>2
<1>. QED
  BY <1>4, <1>7, <1>8, <1>9

\* What the server has read of a URL is where a run over it ends.
LEMMA Queried ==
    ASSUME NEW S, NEW url \in Seq(S), NEW r, Reads("query", QueryStart, url, r)
    PROVE  ReadingQuery(url)[Len(url)] = r
<1>. DEFINE Equation(q) == q = [i \in 0 .. Len(url) |->
                IF i = 0 THEN QueryStart ELSE QueryStep(q[i - 1], url[i])]
            run == CHOOSE q : Equation(q)
<1>1. PICK f : IsRun("query", QueryStart, url, f) /\ f[Len(url)] = r
  BY DEF Reads
<1>2. Equation(f)
  <2>1. \A q, c : MachineStep("query", q, c) = QueryStep(q, c)
    BY DEF MachineStep
  <2>2. /\ f = [i \in 0 .. Len(url) |-> f[i]] /\ f[0] = QueryStart
        /\ \A i \in 1 .. Len(url) : f[i] = QueryStep(f[i - 1], url[i])
    BY <1>1, <2>1 DEF IsRun
  <2>3. \A i \in 0 .. Len(url) : i = 0 \/ i \in 1 .. Len(url)
    OBVIOUS
  <2>. QED
    BY <2>2, <2>3
<1>3. Equation(run)
  BY <1>2
<1>4. ReadingQuery(url) = run
  BY DEF ReadingQuery
<1>. HIDE DEF run
<1>5. IsRun("query", QueryStart, url, run)
  BY <1>3 DEF IsRun, MachineStep
<1>. QED
  BY <1>1, <1>4, <1>5, RunIsUnique

\* A fragment ends the query, and nothing after it is read.
LEMMA FragmentIsRead ==
    ASSUME NEW q \in QueryStates, q.at # "past", NEW t, IsFragment(t)
    PROVE  \E r : /\ Reads("query", q, t, r)
                  /\ (IF r.at = "past" THEN r.pairs ELSE PairsAfter(r)) = PairsAfter(q)
<1>1. PICK N \in Nat : N = Len(t)
  BY DEF IsFragment
<1>2. CASE N = 0
  <2>1. t = <<>>
    <3>1. t \in Seq(Char)
      BY DEF IsFragment
    <3>. QED
      BY <1>1, <1>2, <3>1, EmptySeq
  <2>. QED
    BY <2>1, ReadsNothing
<1>3. CASE N # 0
  <2>1. PICK r : r = EndPair(q, "past")
    OBVIOUS
  <2>2. r.at = "past" /\ r.pairs = PairsAfter(q)
    BY <2>1, EndPairType DEF QueryAt, PairsAfter
  <2>3. QueryStep(q, "#") = r
    BY <2>1 DEF QueryStep, Dropped
  <2>4. \A c : QueryStep(r, c) = r
    BY <2>2 DEF QueryStep
  <2>5. t[1] = "#"
    BY <1>1, <1>3 DEF IsFragment
  <2>6. PICK run : run = [i \in 0 .. N |-> IF i = 0 THEN q ELSE r]
    OBVIOUS
  <2>7. ASSUME NEW i \in 1 .. N PROVE run[i] = MachineStep("query", run[i - 1], t[i])
    <3>1. run[i] = r
      BY <2>6
    <3>2. MachineStep("query", run[i - 1], t[i]) = QueryStep(run[i - 1], t[i])
      BY DEF MachineStep
    <3>3. CASE i = 1
      <4>1. run[i - 1] = q
        BY <2>6, <3>3
      <4>. QED
        BY <2>3, <2>5, <3>1, <3>2, <3>3, <4>1
    <3>4. CASE i # 1
      <4>1. run[i - 1] = r
        BY <2>6, <3>4
      <4>. QED
        BY <2>4, <3>1, <3>2, <4>1
    <3>. QED
      BY <3>3, <3>4
  <2>8. IsRun("query", q, t, run) /\ run[N] = r
    <3>1. run[0] = q /\ run[N] = r /\ run = [i \in 0 .. N |-> run[i]]
      BY <1>3, <2>6
    <3>. QED
      BY <1>1, <2>7, <3>1 DEF IsRun
  <2>9. Reads("query", q, t, r)
    BY <1>1, <2>8 DEF Reads
  <2>. QED
    BY <2>2, <2>9
<1>. QED
  BY <1>2, <1>3

\* A text without the blanks at its end keeps all up to a character that is none.
LEMMA ParsedTo ==
    ASSUME NEW S, NEW s \in Seq(S), NEW p \in 1 .. Len(s), s[p] \notin Blank
    PROVE  \E n \in p .. Len(s) : Parsed(s) = SubSeq(s, 1, n)
<1>. DEFINE Ends(n, i) == /\ n > 0 => s[n] \notin Blank
                          /\ \A j \in (n + 1) .. i : s[j] \in Blank
<1>1. PICK N \in Nat : N = Len(s)
  OBVIOUS
<1>2. PICK P : P = {i \in 0 .. N : \E n \in 0 .. i : Ends(n, i)}
  OBVIOUS
<1>3. 0 \in P
  BY <1>2
<1>4. ASSUME NEW i \in 0 .. N - 1, i \in P PROVE i + 1 \in P
  <2>1. PICK n \in 0 .. i : Ends(n, i)
    BY <1>2, <1>4
  <2>2. CASE s[i + 1] \in Blank
    <3>1. Ends(n, i + 1)
      BY <2>1, <2>2
    <3>. QED
      BY <1>2, <3>1
  <2>3. CASE s[i + 1] \notin Blank
    <3>1. Ends(i + 1, i + 1)
      BY <2>3
    <3>. QED
      BY <1>2, <3>1
  <2>. QED
    BY <2>2, <2>3
<1>5. N \in P
  <2>1. \A i \in 0 .. N : i \in P
    BY <1>3, <1>4, Induct, Zenon
  <2>. QED
    BY <2>1
<1>6. PICK n : n = CHOOSE m \in 0 .. N : Ends(m, N)
  OBVIOUS
<1>7. n \in 0 .. N /\ Ends(n, N)
  <2>1. \E m \in 0 .. N : Ends(m, N)
    BY <1>2, <1>5
  <2>. QED
    BY <1>6, <2>1
<1>8. n >= p
  BY <1>1, <1>7
<1>9. Parsed(s) = SubSeq(s, 1, n)
  BY <1>1, <1>6 DEF Parsed
<1>. QED
  BY <1>1, <1>7, <1>8, <1>9

\* Whether a text ends in no blank.
EndsInText(s) == s # <<>> /\ s[Len(s)] \notin Blank

\* What of a URL that ends in no blank, or has a fragment, is parsed: all of it that
\* is in front of the fragment.
LEMMA ParsedUrl ==
    ASSUME NEW s \in Seq(Char), NEW t, IsFragment(t), t # <<>> \/ EndsInText(s)
    PROVE  \E u : IsFragment(u) /\ Parsed(s \o t) = s \o u
<1>1. PICK w : w = s \o t
  OBVIOUS
<1>2. t \in Seq(Char)
  BY DEF IsFragment
<1>3. /\ w \in Seq(Char) /\ Len(w) = Len(s) + Len(t)
      /\ \A j \in 1 .. Len(s) : w[j] = s[j]
      /\ \A j \in 1 .. Len(t) : w[Len(s) + j] = t[j]
  BY <1>1, <1>2
<1>4. \E p \in 1 .. Len(w) : p >= Len(s) /\ w[p] \notin Blank
  <2>1. CASE t # <<>>
    <3>1. Len(t) >= 1 /\ t[1] = "#"
      BY <1>2, <2>1 DEF IsFragment
    <3>2. "#" \notin Blank
      BY DEF Blank, Controls
    <3>3. w[Len(s) + 1] \notin Blank
      BY <1>2, <1>3, <3>1, <3>2
    <3>4. Len(s) \in Nat /\ Len(t) \in Nat
      BY <1>2
    <3>5. Len(s) + 1 \in 1 .. Len(w) /\ Len(s) + 1 >= Len(s)
      BY <1>3, <3>1, <3>4
    <3>. QED
      BY <3>3, <3>5
  <2>2. CASE EndsInText(s)
    <3>1. Len(s) >= 1
      BY <2>2 DEF EndsInText
    <3>2. w[Len(s)] \notin Blank
      BY <1>3, <2>2, <3>1 DEF EndsInText
    <3>. QED
      BY <1>2, <1>3, <3>1, <3>2
  <2>. QED
    BY <2>1, <2>2
<1>5. PICK n \in Len(s) .. Len(w) : Parsed(w) = SubSeq(w, 1, n)
  <2>1. PICK p \in 1 .. Len(w) : p >= Len(s) /\ w[p] \notin Blank
    BY <1>4
  <2>2. PICK n \in p .. Len(w) : Parsed(w) = SubSeq(w, 1, n)
    BY <1>3, <2>1, ParsedTo
  <2>. QED
    BY <1>3, <2>1, <2>2
<1>6. PICK k \in 0 .. Len(t) : n = Len(s) + k
  <2>1. n - Len(s) \in 0 .. Len(t) /\ n = Len(s) + (n - Len(s))
    BY <1>2, <1>3
  <2>. QED
    BY <2>1
<1>7. PICK u : u = SubSeq(t, 1, k)
  OBVIOUS
<1>8. u \in Seq(Char) /\ Len(u) = k /\ \A j \in 1 .. k : u[j] = t[j]
  BY <1>2, <1>6, <1>7
<1>9. IsFragment(u)
  <2>1. CASE k = 0
    BY <1>8, <2>1 DEF IsFragment
  <2>2. CASE k > 0
    <3>1. t # <<>>
      BY <1>6, <2>2
    <3>. QED
      BY <1>8, <2>2, <3>1 DEF IsFragment
  <2>. QED
    BY <1>8, <2>1, <2>2
<1>10. SubSeq(w, 1, n) = s \o u
  <2>1. PICK a, b : a = SubSeq(w, 1, n) /\ b = s \o u
    OBVIOUS
  <2>2. a \in Seq(Char) /\ Len(a) = n /\ \A j \in 1 .. n : a[j] = w[j]
    BY <1>3, <2>1
  <2>3. /\ b \in Seq(Char) /\ Len(b) = n
        /\ \A j \in 1 .. Len(s) : b[j] = s[j]
        /\ \A j \in 1 .. k : b[Len(s) + j] = u[j]
    <3>1. u \in Seq(Char)
      BY <1>8
    <3>2. /\ b \in Seq(Char) /\ Len(b) = Len(s) + Len(u)
          /\ \A j \in 1 .. Len(s) : b[j] = s[j]
          /\ \A j \in 1 .. Len(u) : b[Len(s) + j] = u[j]
      BY <2>1, <3>1
    <3>3. Len(u) = k
      BY <1>8
    <3>4. Len(b) = n
      BY <1>6, <3>2, <3>3
    <3>. QED
      BY <3>2, <3>3, <3>4
  <2>4. ASSUME NEW j \in 1 .. n PROVE a[j] = b[j]
    <3>1. CASE j <= Len(s)
      BY <1>3, <2>2, <2>3, <3>1
    <3>2. CASE j > Len(s)
      <4>1. PICK i \in 1 .. k : j = Len(s) + i
        <5>1. j - Len(s) \in 1 .. k /\ j = Len(s) + (j - Len(s))
          BY <1>6, <3>2
        <5>. QED
          BY <5>1
      <4>2. a[j] = t[i] /\ b[j] = u[i]
        <5>1. i \in 1 .. Len(t) /\ a[j] = w[j]
          BY <1>2, <1>6, <2>2, <4>1
        <5>2. w[j] = t[i]
          BY <1>3, <4>1, <5>1
        <5>3. b[j] = u[i]
          BY <2>3, <4>1
        <5>. QED
          BY <5>1, <5>2, <5>3
      <4>. QED
        BY <1>8, <4>2
    <3>. QED
      BY <3>1, <3>2
  <2>5. a = b
    <3>1. n \in Nat
      BY <1>3
    <3>. QED
      BY <2>2, <2>3, <2>4, <3>1, SameSeq
  <2>. QED
    BY <2>1, <2>5
<1>. QED
  BY <1>1, <1>5, <1>9, <1>10

\* The pairs of a URL are those it has read where the fragment starts.
LEMMA PairsOfUrl ==
    ASSUME NEW s \in Seq(Char), NEW t, IsFragment(t), t # <<>> \/ EndsInText(s),
           NEW q \in QueryStates, q.at # "past", Reads("query", QueryStart, s, q)
    PROVE  query_pairs(s \o t) = PairsAfter(q)
<1>1. PICK u : IsFragment(u) /\ Parsed(s \o t) = s \o u
  BY ParsedUrl
<1>2. PICK r : /\ Reads("query", q, u, r)
               /\ (IF r.at = "past" THEN r.pairs ELSE PairsAfter(r)) = PairsAfter(q)
  BY <1>1, FragmentIsRead
<1>3. u \in Seq(Char) /\ s \o u \in Seq(Char)
  BY <1>1 DEF IsFragment
<1>4. Reads("query", QueryStart, s \o u, r)
  BY <1>2, <1>3, ReadsOn
<1>5. ReadingQuery(s \o u)[Len(s \o u)] = r
  BY <1>3, <1>4, Queried
<1>6. query_pairs(s \o t) = IF r.at = "past" THEN r.pairs ELSE PairsAfter(r)
  BY <1>1, <1>5 DEF query_pairs, PairsAfter
<1>. QED
  BY <1>2, <1>6

IsHeaderText(r, secret, text) ==
    /\ fetch_header_credential_bytes(secret) = [ok |-> TRUE, text |-> text]
    /\ Inject(r, secret).needles = IF text = <<>> THEN <<>> ELSE <<text>>

\* What goes out.
LEMMA Sent ==
    ASSUME NEW r, NEW secret, Inject(r, secret).ok, r.inject \in {"bearer", "header", "query"}
    PROVE  /\ r.inject = "query" =>
                 Inject(r, secret).url = build_secret_query_url(r.url, r.name, secret)
           /\ r.inject # "query" => Inject(r, secret).url = r.url
           /\ r.inject = "bearer" => Inject(r, secret).header[1] = "Authorization"
           /\ r.inject = "header" => Inject(r, secret).header[1] = r.header_name
           /\ r.inject = "query" =>
                 Inject(r, secret).needles
                     = IF secret = <<>> THEN <<>> ELSE <<secret, push_query_encoded(secret)>>
           /\ r.inject # "query" => \E text : IsHeaderText(r, secret, text)
<1>1. ~Failed.ok
  BY DEF Failed
<1>2. CASE r.inject = "query"
  <2>1. ~(Contains(secret, "nul") \/ Contains(secret, "bad"))
    BY <1>1, <1>2 DEF Inject
  <2>. QED
    BY <1>2, <2>1 DEF Inject
<1>3. CASE r.inject # "query"
  <2>1. PICK credential : credential = fetch_header_credential_bytes(secret)
    OBVIOUS
  <2>2. credential.ok
    BY <1>1, <1>3, <2>1 DEF Inject
  <2>3. PICK text : credential = [ok |-> TRUE, text |-> text]
    BY <1>1, <2>1, <2>2 DEF fetch_header_credential_bytes
  <2>7. credential.ok = TRUE /\ credential.text = text
    BY <2>3
  <2>4. PICK header : header = CASE r.inject = "bearer" -> <<"Authorization", <<"Bearer ">> \o text>>
                                 [] r.inject = "header" -> <<r.header_name, text>>
                                 [] OTHER -> <<>>
    OBVIOUS
  <2>5. Inject(r, secret) = [ok |-> TRUE, url |-> r.url, header |-> header,
                             needles |-> IF text = <<>> THEN <<>> ELSE <<text>>]
    BY <1>3, <2>1, <2>4, <2>7 DEF Inject
  <2>6. /\ r.inject = "bearer" => header[1] = "Authorization"
        /\ r.inject = "header" => header[1] = r.header_name
    BY <2>4
  <2>8. /\ Inject(r, secret).url = r.url /\ Inject(r, secret).header = header
        /\ Inject(r, secret).needles = IF text = <<>> THEN <<>> ELSE <<text>>
    BY <2>5
  <2>9. fetch_header_credential_bytes(secret) = [ok |-> TRUE, text |-> text]
    BY <2>1, <2>3
  <2>10. IsHeaderText(r, secret, text)
    BY <2>8, <2>9 DEF IsHeaderText
  <2>. QED
    BY <1>3, <2>6, <2>8, <2>10
<1>. QED
  BY <1>2, <1>3

\* The pairs of a URL whose end is kept are those in front of its fragment.
LEMMA Untrimmed ==
    ASSUME NEW base \in Seq(Char), NEW t, IsFragment(t), NEW url, url = base \o t,
           NEW q \in QueryStates, q.at # "past", Reads("query", QueryStart, base, q)
    PROVE  query_pairs(Append(url, "#")) = PairsAfter(q)
<1>1. PICK c : c = "#"
  OBVIOUS
<1>2. t \in Seq(Char) /\ c \in Char
  BY <1>1, Literals DEF IsFragment
<1>3. PICK u : u = Append(t, c)
  OBVIOUS
<1>4. /\ u \in Seq(Char) /\ Len(u) = Len(t) + 1 /\ u[Len(t) + 1] = c
      /\ \A j \in 1 .. Len(t) : u[j] = t[j]
  BY <1>2, <1>3
<1>5. u # <<>>
  BY <1>2, <1>4
<1>6. u[1] = "#"
  <2>1. CASE Len(t) = 0
    BY <1>1, <1>4, <2>1
  <2>2. CASE Len(t) > 0
    <3>1. t # <<>>
      BY <2>2
    <3>2. t[1] = "#"
      BY <3>1 DEF IsFragment
    <3>. QED
      BY <1>2, <1>4, <2>2, <3>2
  <2>. QED
    BY <1>2, <2>1, <2>2
<1>7. IsFragment(u)
  BY <1>4, <1>6 DEF IsFragment
<1>8. Append(url, c) = base \o u
  BY <1>2, <1>3
<1>9. query_pairs(base \o u) = PairsAfter(q)
  BY <1>5, <1>7, PairsOfUrl
<1>. QED
  BY <1>1, <1>8, <1>9

\* The URL that carries the credential has the pairs it had with its end kept, and
\* one pair more; no other pair has its name if none of them has it; the fragment
\* is the same.
LEMMA SentUrl ==
    ASSUME NEW url \in Seq(Char), NEW name \in Seq(Octet), NEW value \in Seq(Octet),
           NEW sent, sent = build_secret_query_url(url, name, value),
           NEW pair, pair = <<name, value>>,
           NEW untrimmed, untrimmed = query_pairs(Append(url, "#"))
    PROVE  /\ query_pairs(sent) = Append(untrimmed, pair)
           /\ After(sent, "#") = After(url, "#")
           /\ (\A i \in DOMAIN untrimmed : untrimmed[i][1] # name) => TimesNamed(sent, name) = 1
<1>1. PICK base, t : base = Before(url, "#") /\ t = SubSeq(url, Find(url, "#"), Len(url))
  OBVIOUS
<1>2. base \in Seq(Plain) /\ IsFragment(t) /\ url = base \o t
  BY <1>1, Parts
<1>3. PICK q0 \in QueryStates : /\ Reads("query", QueryStart, base, q0)
                                /\ q0.at # "past"
                                /\ q0.at = "path" <=> ~Contains(base, "?")
  BY <1>2, BaseIsRead
<1>4. PICK pairs : pairs = PairsAfter(q0)
  OBVIOUS
<1>5. PICK Pair : Pair = Seq(Char) \X Seq(Char)
  OBVIOUS
<1>6. pairs \in Seq(Pair)
  BY <1>4, <1>5, EndPairType
<1>7. \A S : S \subseteq Char => Seq(S) \subseteq Seq(Char)
  OBVIOUS
<1>8. Seq(Plain) \subseteq Seq(Char)
  BY <1>7 DEF Plain
<1>9. untrimmed = pairs
  BY <1>2, <1>3, <1>4, <1>8, Untrimmed
<1>28. name \in Seq(Char) /\ value \in Seq(Char)
  BY OctetsAreChars
<1>10. PICK sep, eq : sep = (IF Contains(base, "?") THEN "&" ELSE "?") /\ eq = "="
  OBVIOUS
<1>11. PICK sp, es, n, v : /\ sp = <<sep>> /\ es = <<eq>>
                           /\ n = push_query_encoded(name) /\ v = push_query_encoded(value)
  OBVIOUS
<1>12. PICK q1, q2, q3, q4 : /\ q1 = AtText("name", pairs, <<>>, <<>>, <<>>)
                             /\ q2 = AtText("name", pairs, <<>>, name, <<>>)
                             /\ q3 = AtText("value", pairs, name, <<>>, <<>>)
                             /\ q4 = AtText("value", pairs, name, value, <<>>)
  OBVIOUS
<1>13. "name" \in Texts /\ "value" \in Texts /\ <<>> \in Seq(Char)
  BY DEF Texts
<1>14. sep \in Plain /\ eq \in Plain
  BY <1>10, Literals DEF Plain
<1>15. sp \in Seq(Plain) /\ es \in Seq(Plain)
  BY <1>11, <1>14
<1>29. \A x0 : x0 \in Seq(Bare) => x0 \in Seq(Plain)
  <2>1. Bare \subseteq Plain
    BY DEF Bare
  <2>. QED
    BY <2>1
<1>16. n \in Seq(Plain) /\ Reads("query", q1, n, q2)
  BY <1>11, <1>12, <1>13, <1>29, EncodedIsRead
<1>17. v \in Seq(Bare) /\ v \in Seq(Plain) /\ Reads("query", q3, v, q4)
  BY <1>11, <1>12, <1>13, <1>28, <1>29, EncodedIsRead
<1>18. Reads("query", q0, sp, q1)
  <2>1. q1 = EndPair(q0, "name")
    BY <1>4, <1>12, EndPairType DEF AtText, QueryAt
  <2>2. CASE Contains(base, "?")
    <3>1. sep = "&" /\ q0.at # "path"
      BY <1>3, <1>10, <2>2
    <3>2. QueryStep(q0, sep) = q1
      BY <1>3, <2>1, <3>1 DEF QueryStep, Dropped
    <3>. QED
      BY <1>11, <3>2, ReadsOne DEF MachineStep
  <2>3. CASE ~Contains(base, "?")
    <3>1. sep = "?" /\ q0.at = "path"
      BY <1>3, <1>10, <2>3
    <3>2. QueryStep(q0, sep) = q1
      BY <1>3, <2>1, <3>1 DEF QueryStep, Dropped
    <3>. QED
      BY <1>11, <3>2, ReadsOne DEF MachineStep
  <2>. QED
    BY <2>2, <2>3
<1>19. Reads("query", q2, es, q3)
  <2>1. q2 = QueryAt("name", pairs, name, <<>>, <<>>) /\ q3 = QueryAt("value", pairs, name, <<>>, <<>>)
    BY <1>12 DEF AtText
  <2>2. q2.escape = <<>>
    BY <2>1 DEF QueryAt
  <2>3. Read(q2, q2.escape) = q2
    BY <1>12, <1>13, <1>28, <2>2, ReadsNoMore
  <2>4. QueryStep(q2, "=") = [q2 EXCEPT !.at = "value"]
    BY <2>1, <2>3 DEF QueryStep, QueryAt, Dropped
  <2>5. QueryStep(q2, eq) = q3
    BY <1>10, <2>1, <2>4 DEF QueryAt
  <2>. QED
    BY <1>11, <2>5, ReadsOne DEF MachineStep
<1>20. PICK a, b, c, d : a = base \o sp /\ b = a \o n /\ c = b \o es /\ d = c \o v
  OBVIOUS
<1>21. a \in Seq(Plain) /\ b \in Seq(Plain) /\ c \in Seq(Plain) /\ d \in Seq(Plain)
  <2>1. a \in Seq(Plain)
    BY <1>2, <1>15, <1>20
  <2>2. b \in Seq(Plain)
    BY <1>16, <1>20, <2>1
  <2>3. c \in Seq(Plain)
    BY <1>15, <1>20, <2>2
  <2>4. d \in Seq(Plain)
    BY <1>17, <1>20, <2>3
  <2>. QED
    BY <2>1, <2>2, <2>3, <2>4
<1>22. sent = d \o t
  BY <1>1, <1>10, <1>11, <1>20 DEF build_secret_query_url
<1>23. Reads("query", QueryStart, d, q4)
  <2>1. Reads("query", QueryStart, a, q1)
    BY <1>2, <1>3, <1>15, <1>18, <1>20, ReadsOn
  <2>2. Reads("query", QueryStart, b, q2)
    BY <1>16, <1>20, <1>21, <2>1, ReadsOn
  <2>3. Reads("query", QueryStart, c, q3)
    BY <1>15, <1>19, <1>20, <1>21, <2>2, ReadsOn
  <2>. QED
    BY <1>17, <1>20, <1>21, <2>3, ReadsOn
<1>24. q4 \in QueryStates /\ q4.at # "past" /\ PairsAfter(q4) = Append(pairs, pair)
  <2>1. q4 = QueryAt("value", pairs, name, value, <<>>)
    BY <1>12 DEF AtText
  <2>2. q4 \in QueryStates
    BY <1>5, <1>6, <1>13, <1>28, <2>1 DEF QueryAt, QueryStates
  <2>3. q4.escape = <<>>
    BY <2>1 DEF QueryAt
  <2>4. Read(q4, q4.escape) = q4
    BY <1>12, <1>13, <1>28, <2>3, ReadsNoMore
  <2>5. q4.at = "value" /\ q4.pairs = pairs /\ <<q4.name, q4.value>> = pair
    BY <2>1 DEF QueryAt
  <2>6. PairsAfter(q4) = Append(pairs, pair)
    BY <2>4, <2>5 DEF PairsAfter, EndPair
  <2>. QED
    BY <2>2, <2>5, <2>6
<1>30. EndsInText(d)
  <2>1. /\ Len(c) = Len(b) + 1 /\ c[Len(c)] = eq
        /\ Len(d) = Len(c) + Len(v) /\ \A i \in 1 .. Len(v) : d[Len(c) + i] = v[i]
        /\ \A i \in 1 .. Len(c) : d[i] = c[i]
    <3>1. Len(c) = Len(b) + 1 /\ c[Len(c)] = eq
      BY <1>11, <1>14, <1>20, <1>21
    <3>2. /\ Len(d) = Len(c) + Len(v) /\ \A i \in 1 .. Len(v) : d[Len(c) + i] = v[i]
          /\ \A i \in 1 .. Len(c) : d[i] = c[i]
      BY <1>17, <1>20, <1>21
    <3>. QED
      BY <3>1, <3>2
  <2>2. eq \notin Blank
    BY <1>10 DEF Blank, Controls
  <2>3. d[Len(d)] \notin Blank
    <3>1. CASE Len(v) = 0
      BY <1>21, <2>1, <2>2, <3>1
    <3>2. CASE Len(v) > 0
      <4>1. v[Len(v)] \in Bare /\ d[Len(d)] = v[Len(v)]
        BY <1>17, <2>1, <3>2
      <4>. QED
        BY <4>1 DEF Bare
    <3>. QED
      BY <1>17, <3>1, <3>2
  <2>4. Len(d) >= 1
    BY <1>17, <1>21, <2>1
  <2>. QED
    BY <1>21, <2>3, <2>4 DEF EndsInText
<1>25. query_pairs(sent) = Append(pairs, pair)
  <2>1. d \in Seq(Char)
    BY <1>8, <1>21
  <2>. QED
    BY <1>2, <1>22, <1>23, <1>24, <1>30, <2>1, PairsOfUrl
<1>26. After(sent, "#") = After(url, "#")
  BY <1>2, <1>21, <1>22, AfterFragment
<1>27. ASSUME \A i \in DOMAIN pairs : pairs[i][1] # name PROVE TimesNamed(sent, name) = 1
  <2>1. PICK N \in Nat : N = Len(pairs) /\ DOMAIN pairs = 1 .. N
    BY <1>6
  <2>2. PICK more : more = Append(pairs, pair)
    OBVIOUS
  <2>3. pair \in Pair /\ pair[1] = name
    BY <1>5, <1>28
  <2>4. /\ DOMAIN more = 1 .. N + 1
        /\ more[N + 1] = pair
        /\ \A i \in 1 .. N : more[i] = pairs[i]
    BY <1>6, <2>1, <2>2, <2>3
  <2>5. \A i \in 1 .. N : pairs[i][1] # name
    BY <1>27, <2>1
  <2>6. {i \in DOMAIN more : more[i][1] = name} = {N + 1}
    <3>1. ASSUME NEW i \in 1 .. N + 1 PROVE more[i][1] = name <=> i = N + 1
      <4>1. CASE i = N + 1
        BY <2>3, <2>4, <4>1
      <4>2. CASE i \in 1 .. N
        <5>1. more[i] = pairs[i] /\ pairs[i][1] # name
          BY <2>4, <2>5, <4>2
        <5>2. i # N + 1
          BY <4>2
        <5>. QED
          BY <5>1, <5>2
      <4>. QED
        BY <4>1, <4>2
    <3>2. N + 1 \in 1 .. N + 1
      OBVIOUS
    <3>. QED
      BY <2>4, <3>1, <3>2
  <2>7. Cardinality({N + 1}) = 1
    BY FS_Singleton
  <2>. QED
    BY <1>25, <2>2, <2>6, <2>7 DEF TimesNamed
<1>. QED
  BY <1>9, <1>25, <1>26, <1>27

\* Whatever the request, the credential and the alphabet, what the server reads of a
\* sent query is the pairs of the URL as it was written, blanks at its end included,
\* and one more, the name and the credential as it is; that name is there once
\* unless those blanks made another pair of the last one; the fragment is the same.
\* A sent header has a name no other header has in any spelling
\* (build_secret_query_url, push_query_encoded, validate_fetch_input).
THEOREM CredentialIsSentAsItIs == OneShotSpec => []CredentialIsSentOnceAndWhole
<1>1. ASSUME Ran, Answered("fetch"), answer.sent.ok PROVE CredentialIsSentOnceAndWhole
  <2>1. PICK r, secret : r = input.request /\ secret = input.secret
    OBVIOUS
  <2>2. input \in Fetches /\ answer = deliver_fetch(input.request, input.secret, input.response)
    BY <1>1, KindOfInput DEF Ran, Answered
  <2>3. /\ secret \in Seq(Octet) /\ r.url \in Seq(Octet)
        /\ r.inject \in {"bearer", "header", "query"}
        /\ r.inject = "query" => r.name \in Seq(Octet)
    BY <2>1, <2>2, FetchesAssumption
  <2>4. answer.sent = IF validate_fetch_input(r) THEN Inject(r, secret) ELSE Failed
    BY <2>1, <2>2 DEF deliver_fetch
  <2>5. ~Failed.ok
    BY DEF Failed
  <2>6. validate_fetch_input(r) /\ answer.sent = Inject(r, secret)
    BY <1>1, <2>4, <2>5
  <2>9. Inject(r, secret).ok /\ r.inject \in {"bearer", "header", "query"}
    BY <1>1, <2>3, <2>6
  <2>10. /\ r.inject = "query" =>
               Inject(r, secret).url = build_secret_query_url(r.url, r.name, secret)
         /\ r.inject # "query" => Inject(r, secret).url = r.url
         /\ r.inject = "bearer" => Inject(r, secret).header[1] = "Authorization"
         /\ r.inject = "header" => Inject(r, secret).header[1] = r.header_name
    BY <2>9, Sent, Zenon
  <2>7. CASE r.inject = "query"
    <3>1. reject_query_conflict(r.url, r.name)
      BY <2>6, <2>7 DEF validate_fetch_input
    <3>2. PICK sent : sent = build_secret_query_url(r.url, r.name, secret)
      OBVIOUS
    <3>3. answer.sent.url = sent
      BY <2>6, <2>7, <2>10, <3>2
    <3>4. r.url \in Seq(Char) /\ r.name \in Seq(Octet)
      BY <2>3, <2>7, OctetsAreChars
    <3>5. PICK pair, untrimmed : /\ pair = <<r.name, secret>>
                                 /\ untrimmed = query_pairs(Append(r.url, "#"))
      OBVIOUS
    <3>6. /\ query_pairs(sent) = Append(untrimmed, pair)
          /\ After(sent, "#") = After(r.url, "#")
          /\ (\A i \in DOMAIN untrimmed : untrimmed[i][1] # r.name)
                => TimesNamed(sent, r.name) = 1
      BY <2>3, <3>2, <3>4, <3>5, SentUrl
    <3>7. untrimmed = query_pairs(r.url) => \A i \in DOMAIN untrimmed : untrimmed[i][1] # r.name
      BY <3>1 DEF reject_query_conflict
    <3>. QED
      BY <2>1, <2>7, <3>3, <3>5, <3>6, <3>7 DEF CredentialIsSentOnceAndWhole
  <2>8. CASE r.inject # "query"
    <3>1. answer.sent.url = r.url
      BY <2>6, <2>8, <2>10
    <3>2. \A h \in DOMAIN r.headers : Lower(h) # Lower(answer.sent.header[1])
      <4>1. CASE r.inject = "bearer"
        <5>1. reject_header_conflict(r.headers, "Authorization")
          BY <2>6, <4>1 DEF validate_fetch_input
        <5>2. answer.sent.header[1] = "Authorization"
          BY <2>6, <2>10, <4>1
        <5>. QED
          BY <5>1, <5>2 DEF reject_header_conflict
      <4>2. CASE r.inject = "header"
        <5>1. reject_header_conflict(r.headers, r.header_name)
          BY <2>6, <4>2 DEF validate_fetch_input
        <5>2. answer.sent.header[1] = r.header_name
          BY <2>6, <2>10, <4>2
        <5>. QED
          BY <5>1, <5>2 DEF reject_header_conflict
      <4>. QED
        BY <2>3, <2>8, <4>1, <4>2
    <3>. QED
      BY <2>1, <2>8, <3>1, <3>2 DEF CredentialIsSentOnceAndWhole
  <2>. QED
    BY <2>7, <2>8
<1>2. Ran => CredentialIsSentOnceAndWhole
  BY <1>1 DEF CredentialIsSentOnceAndWhole
<1>. QED
  BY <1>2, RanInvariant, PTL

-----------------------------------------------------------------------------
(* Redaction: where a credential is found *)

Byte == [c: Char, at: Nat]

\* Where the bytes spell the needle.
Occurs(bytes, needle) ==
    IF needle = <<>> THEN {} ELSE {i \in 1 .. Len(bytes) : Spells(bytes, i, needle)}

NextIndex(found, needle) == IF found = <<>> THEN 1 ELSE Last(found) + Len(needle)

\* The matches so far: each spells the needle, none overlaps the one before, and
\* there is none that starts before the next index but inside one of them.
Greedy(bytes, needle, found) ==
    /\ found \in Seq(1 .. Len(bytes))
    /\ \A k \in 1 .. Len(found) : found[k] >= k /\ Spells(bytes, found[k], needle)
    /\ \A k \in 1 .. Len(found) - 1 : found[k + 1] >= found[k] + Len(needle)
    /\ \A r \in 1 .. Len(bytes) :
          Spells(bytes, r, needle) /\ r < NextIndex(found, needle) =>
             \E k \in 1 .. Len(found) : found[k] <= r /\ r < found[k] + Len(needle)

LEMMA NextIndexType ==
    ASSUME NEW N \in Nat, NEW found \in Seq(1 .. N), NEW needle \in Seq(Char), needle # <<>>
    PROVE  /\ Len(needle) \in Nat /\ Len(needle) >= 1
           /\ NextIndex(found, needle) \in Nat /\ NextIndex(found, needle) >= 1
           /\ found # <<>> => /\ Len(found) \in 1 .. Len(found)
                              /\ NextIndex(found, needle) = found[Len(found)] + Len(needle)
           /\ found = <<>> => NextIndex(found, needle) = 1
<1>1. Len(needle) \in Nat /\ Len(needle) >= 1
  BY EmptySeq
<1>2. CASE found = <<>>
  BY <1>1, <1>2 DEF NextIndex
<1>3. CASE found # <<>>
  <2>1. Len(found) \in 1 .. Len(found)
    BY <1>3, EmptySeq
  <2>2. found[Len(found)] \in 1 .. N
    BY <2>1
  <2>3. NextIndex(found, needle) = found[Len(found)] + Len(needle)
    BY <1>3 DEF NextIndex, Last
  <2>. QED
    BY <1>1, <1>3, <2>1, <2>2, <2>3
<1>. QED
  BY <1>2, <1>3

\* The next match is the first there is.
LEMMA NextMatchIsFirst ==
    ASSUME NEW bytes \in Seq(Byte), NEW needle \in Seq(Char), needle # <<>>,
           NEW found \in Seq(1 .. Len(bytes))
    PROVE  LET next == NextMatch(bytes, needle, found)
               index == NextIndex(found, needle)
           IN  /\ next = {} => \A r \in 1 .. Len(bytes) : Spells(bytes, r, needle) => r < index
               /\ next # {} => \E f \in 1 .. Len(bytes) :
                     /\ (CHOOSE i \in next : TRUE) = f
                     /\ f >= index /\ Spells(bytes, f, needle)
                     /\ \A r \in 1 .. Len(bytes) :
                           Spells(bytes, r, needle) /\ r < f => r < index
<1>1. PICK N \in Nat : N = Len(bytes)
  OBVIOUS
<1>2. PICK index, next : /\ index = NextIndex(found, needle)
                         /\ next = NextMatch(bytes, needle, found)
  OBVIOUS
<1>3. index \in Nat /\ index >= 1
  BY <1>1, <1>2, NextIndexType
<1>4. next = {i \in index .. N : Spells(bytes, i, needle) /\
                                 \A j \in index .. (i - 1) : ~Spells(bytes, j, needle)}
  BY <1>1, <1>2 DEF NextMatch, find_subslice, NextIndex
<1>5. ASSUME next = {}, NEW r \in 1 .. N, Spells(bytes, r, needle), ~(r < index)
      PROVE  FALSE
  <2>1. PICK T : T = {i \in index .. N : Spells(bytes, i, needle)}
    OBVIOUS
  <2>2. r \in T
    BY <1>3, <1>5, <2>1
  <2>3. T \subseteq Nat
    BY <1>3, <2>1
  <2>4. PICK n \in T : \A m \in T : n <= m
    BY <2>2, <2>3, Least
  <2>5. n \in index .. N /\ Spells(bytes, n, needle)
    BY <2>1
  <2>6. ASSUME NEW j \in index .. (n - 1), Spells(bytes, j, needle) PROVE FALSE
    <3>1. j \in index .. N /\ ~(n <= j)
      BY <1>3, <2>5
    <3>2. j \in T
      BY <2>1, <2>6, <3>1
    <3>. QED
      BY <2>4, <3>1, <3>2
  <2>7. n \in next
    BY <1>4, <2>5, <2>6
  <2>. QED
    BY <1>5, <2>7
<1>6. ASSUME next # {}
      PROVE  \E f \in 1 .. N :
                /\ (CHOOSE i \in next : TRUE) = f
                /\ f >= index /\ Spells(bytes, f, needle)
                /\ \A r \in 1 .. N : Spells(bytes, r, needle) /\ r < f => r < index
  <2>1. PICK f : f = CHOOSE i \in next : TRUE
    OBVIOUS
  <2>2. f \in next
    BY <1>6, <2>1
  <2>3. f \in index .. N /\ Spells(bytes, f, needle)
        /\ \A j \in index .. (f - 1) : ~Spells(bytes, j, needle)
    BY <1>4, <2>2
  <2>4. f \in 1 .. N /\ f >= index
    BY <1>3, <2>3
  <2>5. ASSUME NEW r \in 1 .. N, Spells(bytes, r, needle), r < f PROVE r < index
    <3>1. ~(r \in index .. (f - 1))
      BY <2>3, <2>5
    <3>. QED
      BY <1>3, <2>4, <2>5, <3>1
  <2>. QED
    BY <2>1, <2>3, <2>4, <2>5
<1>. QED
  BY <1>1, <1>2, <1>5, <1>6

NextRound(bytes, needle, before) ==
    IF NextMatch(bytes, needle, before) = {} THEN before
    ELSE Append(before, CHOOSE i \in NextMatch(bytes, needle, before) : TRUE)

\* A round keeps them so.
LEMMA RoundIsGreedy ==
    ASSUME NEW bytes \in Seq(Byte), NEW needle \in Seq(Char), needle # <<>>,
           NEW found, Greedy(bytes, needle, found)
    PROVE  LET next == NextRound(bytes, needle, found)
           IN  /\ Greedy(bytes, needle, next)
               /\ \/ Len(next) = Len(found) + 1
                  \/ next = found /\ NextMatch(bytes, needle, found) = {}
<1>1. PICK N \in Nat, L \in Nat : N = Len(bytes) /\ L = Len(needle)
  OBVIOUS
<1>2. PICK next : next = NextRound(bytes, needle, found)
  OBVIOUS
<1>3. CASE NextMatch(bytes, needle, found) = {}
  BY <1>2, <1>3 DEF NextRound
<1>4. CASE NextMatch(bytes, needle, found) # {}
  <2>1. found \in Seq(1 .. N)
    BY <1>1 DEF Greedy
  <2>2. PICK f \in 1 .. N :
            /\ (CHOOSE i \in NextMatch(bytes, needle, found) : TRUE) = f
            /\ f >= NextIndex(found, needle) /\ Spells(bytes, f, needle)
            /\ \A r \in 1 .. N : Spells(bytes, r, needle) /\ r < f => r < NextIndex(found, needle)
    BY <1>1, <1>4, <2>1, NextMatchIsFirst
  <2>3. next = Append(found, f)
    BY <1>2, <1>4, <2>2 DEF NextRound
  <2>4. PICK n \in Nat : n = Len(found)
    BY <2>1
  <2>5. /\ next \in Seq(1 .. N) /\ Len(next) = n + 1
        /\ next[n + 1] = f
        /\ \A k \in 1 .. n : next[k] = found[k]
    BY <2>1, <2>3, <2>4
  <2>6. \A k \in 1 .. n : found[k] \in 1 .. N /\ found[k] >= k /\ Spells(bytes, found[k], needle)
    BY <1>1, <2>1, <2>4 DEF Greedy
  <2>7. L >= 1 /\ NextIndex(found, needle) \in Nat /\ NextIndex(found, needle) >= 1
    BY <1>1, <2>1, NextIndexType
  <2>8. /\ n # 0 => NextIndex(found, needle) = found[n] + L
        /\ n = 0 => NextIndex(found, needle) = 1
    BY <1>1, <2>1, <2>4, NextIndexType, EmptySeq
  <2>9. next # <<>> /\ NextIndex(next, needle) = f + L
    <3>1. next # <<>>
      BY <2>4, <2>5, EmptySeq
    <3>. QED
      BY <1>1, <2>5, <3>1 DEF NextIndex, Last
  <2>10. f >= n + 1
    <3>1. CASE n = 0
      BY <3>1
    <3>2. CASE n # 0
      <4>1. n \in 1 .. n
        BY <3>2
      <4>2. found[n] \in 1 .. N /\ found[n] >= n
        BY <2>6, <4>1
      <4>. QED
        BY <2>2, <2>7, <2>8, <3>2, <4>2
    <3>. QED
      BY <3>1, <3>2
  <2>11. ASSUME NEW k \in 1 .. n + 1 PROVE next[k] >= k /\ Spells(bytes, next[k], needle)
    <3>1. CASE k = n + 1
      BY <2>2, <2>5, <2>10, <3>1
    <3>2. CASE k # n + 1
      <4>1. k \in 1 .. n
        BY <3>2
      <4>. QED
        BY <2>5, <2>6, <4>1
    <3>. QED
      BY <3>1, <3>2
  <2>12. ASSUME NEW k \in 1 .. n PROVE next[k + 1] >= next[k] + L
    <3>1. CASE k = n
      <4>1. n # 0 /\ next[k + 1] = f /\ next[k] = found[n]
        BY <2>5, <3>1
      <4>. QED
        BY <2>2, <2>8, <4>1
    <3>2. CASE k # n
      <4>1. k \in 1 .. n - 1 /\ k + 1 \in 1 .. n
        BY <3>2
      <4>2. found[k + 1] >= found[k] + L
        BY <1>1, <2>4, <4>1 DEF Greedy
      <4>. QED
        BY <2>5, <4>1, <4>2
    <3>. QED
      BY <3>1, <3>2
  <2>13. ASSUME NEW r \in 1 .. N, Spells(bytes, r, needle), r < f + L
         PROVE  \E k \in 1 .. n + 1 : next[k] <= r /\ r < next[k] + L
    <3>1. CASE r < f
      <4>1. r < NextIndex(found, needle)
        BY <2>2, <2>13, <3>1
      <4>2. PICK k \in 1 .. n : found[k] <= r /\ r < found[k] + L
        BY <1>1, <2>4, <2>13, <4>1 DEF Greedy
      <4>3. k \in 1 .. n + 1 /\ next[k] = found[k]
        BY <2>5
      <4>. QED
        BY <4>2, <4>3
    <3>2. CASE ~(r < f)
      <4>1. n + 1 \in 1 .. n + 1 /\ next[n + 1] = f
        BY <2>5
      <4>2. f <= r
        BY <3>2
      <4>. QED
        BY <2>13, <4>1, <4>2
    <3>. QED
      BY <3>1, <3>2
  <2>14. Greedy(bytes, needle, next)
    BY <1>1, <2>5, <2>9, <2>11, <2>12, <2>13 DEF Greedy
  <2>. QED
    BY <1>2, <2>4, <2>5, <2>14
<1>. QED
  BY <1>3, <1>4

\* What the loop finds: matches that do not overlap, and every place that spells
\* the needle starts inside one of them.
Found(bytes, needle, found) ==
    /\ found \in Seq(1 .. Len(bytes))
    /\ \A k \in 1 .. Len(found) : Spells(bytes, found[k], needle)
    /\ \A k \in 1 .. Len(found) - 1 : found[k + 1] >= found[k] + Len(needle)
    /\ \A r \in 1 .. Len(bytes) : Spells(bytes, r, needle) =>
          \E k \in 1 .. Len(found) : found[k] <= r /\ r < found[k] + Len(needle)

\* The rounds are those of the recursive definition.
LEMMA RoundByRound ==
    ASSUME NEW bytes \in Seq(Byte), NEW needle \in Seq(Char), needle # <<>>
    PROVE  /\ Rounds(bytes, needle)[0] = <<>>
           /\ \A n \in 1 .. Len(bytes) :
                 Rounds(bytes, needle)[n] = NextRound(bytes, needle, Rounds(bytes, needle)[n - 1])
<1>1. PICK N \in Nat : N = Len(bytes)
  OBVIOUS
<1>2. PICK S : S = Seq(1 .. N)
  OBVIOUS
<1>3. <<>> \in S
  BY <1>2
<1>4. ASSUME NEW before \in S PROVE NextRound(bytes, needle, before) \in S
  <2>1. CASE NextMatch(bytes, needle, before) = {}
    BY <2>1 DEF NextRound
  <2>2. CASE NextMatch(bytes, needle, before) # {}
    <3>1. PICK f \in 1 .. N : (CHOOSE i \in NextMatch(bytes, needle, before) : TRUE) = f
      BY <1>1, <1>2, <2>2, NextMatchIsFirst
    <3>2. NextRound(bytes, needle, before) = Append(before, f)
      BY <2>2, <3>1 DEF NextRound
    <3>. QED
      BY <1>2, <3>2
  <2>. QED
    BY <2>1, <2>2
<1>5. PICK step : step = [p \in (0 .. N) \X [0 .. N -> S] |->
                             IF p[1] = 0 THEN <<>> ELSE NextRound(bytes, needle, p[2][p[1] - 1])]
  OBVIOUS
<1>6. ASSUME NEW i \in 0 .. N, NEW g \in [0 .. N -> S]
      PROVE  /\ step[<<i, g>>] = IF i = 0 THEN <<>> ELSE NextRound(bytes, needle, g[i - 1])
             /\ step[<<i, g>>] \in S
  <2>1. step[<<i, g>>] = IF i = 0 THEN <<>> ELSE NextRound(bytes, needle, g[i - 1])
    BY <1>5
  <2>2. i # 0 => g[i - 1] \in S
    <3>1. i # 0 => i - 1 \in 0 .. N
      OBVIOUS
    <3>. QED
      BY <3>1
  <2>. QED
    BY <1>3, <1>4, <2>1, <2>2
<1>7. step \in StepsUp(N, S)
  <2>1. step \in [(0 .. N) \X [0 .. N -> S] -> S]
    BY <1>5, <1>6
  <2>2. ASSUME NEW i \in 0 .. N, NEW g \in [0 .. N -> S], NEW h \in [0 .. N -> S],
               \A j \in 0 .. i - 1 : g[j] = h[j]
        PROVE  step[<<i, g>>] = step[<<i, h>>]
    <3>1. i # 0 => g[i - 1] = h[i - 1]
      BY <2>2
    <3>. QED
      BY <1>6, <3>1
  <2>. QED
    BY <2>1, <2>2 DEF StepsUp
<1>8. PICK f \in [0 .. N -> S] : \A i \in 0 .. N : f[i] = step[<<i, f>>]
  <2>1. Recursive(0 .. N, S, step)
    BY <1>3, <1>7, Upwards
  <2>. QED
    BY <2>1 DEF Recursive
<1>. DEFINE Equation(g) == g = [n \in 0 .. Len(bytes) |->
                IF n = 0 THEN <<>>
                ELSE LET before == g[n - 1]
                         next == NextMatch(bytes, needle, before)
                     IN  IF next = {} THEN before ELSE Append(before, CHOOSE i \in next : TRUE)]
            rounds == CHOOSE g : Equation(g)
<1>9. ASSUME NEW n \in 0 .. N
      PROVE  f[n] = IF n = 0 THEN <<>> ELSE NextRound(bytes, needle, f[n - 1])
  <2>1. f[n] = step[<<n, f>>]
    BY <1>8
  <2>. QED
    BY <1>6, <2>1
<1>10. Equation(f)
  <2>1. f = [n \in 0 .. N |-> f[n]]
    OBVIOUS
  <2>. QED
    BY <1>1, <1>9, <2>1 DEF NextRound
<1>11. Equation(rounds)
  BY <1>10
<1>12. Rounds(bytes, needle) = rounds
  BY DEF Rounds
<1>. HIDE DEF rounds
<1>13. ASSUME NEW n \in 0 .. N
       PROVE  rounds[n] = IF n = 0 THEN <<>> ELSE NextRound(bytes, needle, rounds[n - 1])
  BY <1>1, <1>11 DEF NextRound
<1>14. ASSUME NEW n \in 1 .. N PROVE rounds[n] = NextRound(bytes, needle, rounds[n - 1])
  <2>1. n \in 0 .. N /\ n # 0
    OBVIOUS
  <2>. QED
    BY <1>13, <2>1
<1>15. rounds[0] = <<>>
  BY <1>13
<1>. QED
  BY <1>1, <1>12, <1>14, <1>15

LEMMA MatchesAreFound ==
    ASSUME NEW bytes \in Seq(Byte), NEW needle \in Seq(Char), needle # <<>>
    PROVE  Found(bytes, needle, Matches(bytes, needle))
<1>1. PICK N \in Nat : N = Len(bytes)
  OBVIOUS
<1>2. PICK rounds : rounds = Rounds(bytes, needle)
  OBVIOUS
<1>3. PICK P : P = {n \in 0 .. N :
                 /\ Greedy(bytes, needle, rounds[n])
                 /\ Len(rounds[n]) = n \/ NextMatch(bytes, needle, rounds[n]) = {}}
  OBVIOUS
<1>4. 0 \in P
  <2>1. rounds[0] = <<>>
    BY <1>2, RoundByRound
  <2>2. NextIndex(<<>>, needle) = 1
    BY DEF NextIndex
  <2>3. Greedy(bytes, needle, <<>>)
    BY <2>2 DEF Greedy
  <2>. QED
    BY <1>3, <2>1, <2>3
<1>5. ASSUME NEW n \in 0 .. N - 1, n \in P PROVE n + 1 \in P
  <2>1. PICK m \in 1 .. N : m = n + 1 /\ m - 1 = n
    OBVIOUS
  <2>2. rounds[m] = NextRound(bytes, needle, rounds[n])
    <3>1. rounds[m] = NextRound(bytes, needle, rounds[m - 1])
      BY <1>1, <1>2, RoundByRound
    <3>. QED
      BY <2>1, <3>1
  <2>3. Greedy(bytes, needle, rounds[n])
    BY <1>3, <1>5
  <2>4. /\ Greedy(bytes, needle, rounds[m])
        /\ \/ Len(rounds[m]) = Len(rounds[n]) + 1
           \/ rounds[m] = rounds[n] /\ NextMatch(bytes, needle, rounds[n]) = {}
    BY <2>2, <2>3, RoundIsGreedy
  <2>5. CASE NextMatch(bytes, needle, rounds[n]) = {}
    <3>1. rounds[m] = rounds[n]
      BY <2>2, <2>5 DEF NextRound
    <3>. QED
      BY <1>3, <2>1, <2>4, <2>5, <3>1
  <2>6. CASE NextMatch(bytes, needle, rounds[n]) # {}
    <3>1. Len(rounds[n]) = n /\ Len(rounds[m]) = Len(rounds[n]) + 1
      BY <1>3, <1>5, <2>4, <2>6
    <3>. QED
      BY <1>3, <2>1, <2>4, <3>1
  <2>. QED
    BY <2>5, <2>6
<1>6. N \in P
  <2>1. \A n \in 0 .. N : n \in P
    BY <1>4, <1>5, Induct, Zenon
  <2>. QED
    BY <2>1
<1>7. PICK found : found = rounds[N]
  OBVIOUS
<1>8. Greedy(bytes, needle, found)
      /\ (Len(found) = N \/ NextMatch(bytes, needle, found) = {})
  BY <1>3, <1>6, <1>7
<1>9. found \in Seq(1 .. N)
  BY <1>1, <1>8 DEF Greedy
<1>10. ASSUME NEW r \in 1 .. N, Spells(bytes, r, needle) PROVE r < NextIndex(found, needle)
  <2>1. CASE NextMatch(bytes, needle, found) = {}
    BY <1>1, <1>9, <1>10, <2>1, NextMatchIsFirst
  <2>2. CASE Len(found) = N
    <3>1. /\ Len(needle) \in Nat /\ Len(needle) >= 1
          /\ found # <<>> => /\ Len(found) \in 1 .. Len(found)
                             /\ NextIndex(found, needle) = found[Len(found)] + Len(needle)
      BY <1>9, NextIndexType
    <3>2. found # <<>>
      BY <2>2
    <3>3. found[N] >= N /\ found[N] \in 1 .. N
      BY <1>1, <1>8, <1>9, <2>2, <3>1, <3>2 DEF Greedy
    <3>. QED
      BY <2>2, <3>1, <3>2, <3>3
  <2>. QED
    BY <1>8, <2>1, <2>2
<1>11. Found(bytes, needle, found)
  <2>1. \A r \in 1 .. N : Spells(bytes, r, needle) =>
            \E k \in 1 .. Len(found) : found[k] <= r /\ r < found[k] + Len(needle)
    BY <1>1, <1>8, <1>10 DEF Greedy
  <2>2. \A k \in 1 .. Len(found) : Spells(bytes, found[k], needle)
    BY <1>8 DEF Greedy
  <2>3. \A k \in 1 .. Len(found) - 1 : found[k + 1] >= found[k] + Len(needle)
    BY <1>8 DEF Greedy
  <2>. QED
    BY <1>1, <1>9, <2>1, <2>2, <2>3 DEF Found
<1>. QED
  BY <1>1, <1>2, <1>7, <1>11 DEF Matches

\* The places are the same, however they are described.
LEMMA RunsAreOccurrences ==
    ASSUME NEW bytes \in Seq(Byte), NEW needle \in Seq(Char)
    PROVE  /\ Text(bytes) \in Seq(Char) /\ Len(Text(bytes)) = Len(bytes)
           /\ Runs(Text(bytes), needle) = Occurs(bytes, needle)
<1>1. PICK N \in Nat : N = Len(bytes) /\ DOMAIN bytes = 1 .. N
  OBVIOUS
<1>2. PICK L \in Nat : L = Len(needle) /\ DOMAIN needle = 1 .. L
  OBVIOUS
<1>3. PICK text : text = Text(bytes)
  OBVIOUS
<1>4. ASSUME NEW i \in 1 .. N PROVE text[i] = bytes[i].c /\ bytes[i].c \in Char
  <2>1. bytes[i] \in Byte
    BY <1>1
  <2>2. text[i] = bytes[i].c
    BY <1>1, <1>3 DEF Text
  <2>. QED
    BY <2>1, <2>2 DEF Byte
<1>5. text \in Seq(Char) /\ Len(text) = N
  <2>1. text \in [1 .. N -> Char]
    BY <1>1, <1>3, <1>4 DEF Text
  <2>. QED
    BY <2>1
<1>6. CASE needle = <<>>
  BY <1>1, <1>3, <1>5, <1>6 DEF Runs, Occurs
<1>7. CASE needle # <<>>
  <2>1. L >= 1
    BY <1>2, <1>7, EmptySeq
  <2>2. ASSUME NEW i \in 1 .. N, i + L - 1 <= N
        PROVE  SubSeq(text, i, i + L - 1) = needle <=>
                   \A k \in 1 .. L : bytes[i + k - 1].c = needle[k]
    <3>1. PICK sub : sub = SubSeq(text, i, i + L - 1)
      OBVIOUS
    <3>2. /\ sub \in Seq(Char) /\ Len(sub) = L
          /\ \A k \in 1 .. L : sub[k] = text[i + k - 1]
      BY <1>5, <2>2, <3>1
    <3>3. \A k \in 1 .. L : i + k - 1 \in 1 .. N
      BY <2>2
    <3>4. \A k \in 1 .. L : sub[k] = bytes[i + k - 1].c
      BY <1>4, <3>2, <3>3
    <3>5. ASSUME \A k \in 1 .. L : sub[k] = needle[k] PROVE sub = needle
      BY <1>2, <3>2, <3>5, SameSeq
    <3>. QED
      BY <3>1, <3>4, <3>5
  <2>3. Runs(text, needle) = {i \in 1 .. (N - L + 1) : SubSeq(text, i, i + L - 1) = needle}
    BY <1>2, <1>5, <1>7 DEF Runs
  <2>4. Occurs(bytes, needle) = {i \in 1 .. N : i + L - 1 <= N /\
                                    \A k \in 1 .. L : bytes[i + k - 1].c = needle[k]}
    BY <1>1, <1>2, <1>7 DEF Occurs, Spells
  <2>5. \A i : i \in 1 .. (N - L + 1) <=> i \in 1 .. N /\ i + L - 1 <= N
    BY <2>1
  <2>. QED
    BY <1>1, <1>3, <1>5, <2>2, <2>3, <2>4, <2>5
<1>. QED
  BY <1>6, <1>7

LEMMA TaggedText ==
    ASSUME NEW text \in Seq(Char)
    PROVE  /\ Tagged(text) \in Seq(Byte) /\ Len(Tagged(text)) = Len(text)
           /\ \A i \in 1 .. Len(text) : Tagged(text)[i].c = text[i] /\ Tagged(text)[i].at = i
           /\ Text(Tagged(text)) = text
<1>1. PICK N \in Nat : N = Len(text) /\ DOMAIN text = 1 .. N
  OBVIOUS
<1>2. PICK b : b = Tagged(text)
  OBVIOUS
<1>3. ASSUME NEW i \in 1 .. N PROVE b[i].c = text[i] /\ b[i].at = i /\ b[i] \in Byte
  <2>1. b[i] = [c |-> text[i], at |-> i] /\ text[i] \in Char /\ i \in Nat
    BY <1>1, <1>2 DEF Tagged
  <2>. QED
    BY <2>1 DEF Byte
<1>4. b \in Seq(Byte) /\ Len(b) = N
  <2>1. b \in [1 .. N -> Byte]
    BY <1>1, <1>2, <1>3 DEF Tagged
  <2>. QED
    BY <2>1
<1>5. Text(b) = text
  <2>1. DOMAIN b = 1 .. N
    BY <1>4
  <2>2. Text(b) = [i \in 1 .. N |-> text[i]]
    BY <1>3, <2>1 DEF Text
  <2>. QED
    BY <1>1, <2>2
<1>. QED
  BY <1>1, <1>2, <1>3, <1>4, <1>5

\* Matches that do not overlap the one before overlap none.
LEMMA Apart ==
    ASSUME NEW bytes \in Seq(Byte), NEW needle \in Seq(Char), NEW found,
           Found(bytes, needle, found), NEW k \in 1 .. Len(found), NEW l \in 1 .. Len(found),
           k < l
    PROVE  found[l] >= found[k] + Len(needle)
<1>1. PICK n \in Nat, L \in Nat : n = Len(found) /\ L = Len(needle)
  BY DEF Found
<1>2. \A i \in 1 .. n : found[i] \in Nat
  BY <1>1 DEF Found
<1>3. \A i \in 1 .. n - 1 : found[i + 1] >= found[i] + L
  BY <1>1 DEF Found
<1>4. PICK P : P = {d \in 0 .. n : k + 1 + d <= n => found[k + 1 + d] >= found[k] + L}
  OBVIOUS
<1>5. 0 \in P
  BY <1>1, <1>3, <1>4
<1>6. ASSUME NEW d \in 0 .. n - 1, d \in P PROVE d + 1 \in P
  <2>1. CASE k + 1 + (d + 1) <= n
    <3>1. PICK i \in 1 .. n - 1 : i = k + 1 + d /\ i + 1 = k + 1 + (d + 1)
      BY <1>1, <2>1
    <3>2. found[i] >= found[k] + L
      BY <1>4, <1>6, <3>1
    <3>3. found[i + 1] >= found[i] + L
      BY <1>3
    <3>4. found[i + 1] \in Nat /\ found[i] \in Nat /\ found[k] \in Nat
      BY <1>1, <1>2
    <3>5. found[i + 1] >= found[k] + L
      BY <3>2, <3>3, <3>4
    <3>. QED
      BY <1>4, <3>1, <3>5
  <2>2. CASE ~(k + 1 + (d + 1) <= n)
    BY <1>4, <2>2
  <2>. QED
    BY <2>1, <2>2
<1>7. \A d \in 0 .. n : d \in P
  BY <1>5, <1>6, Induct, Zenon
<1>8. PICK d \in 0 .. n : l = k + 1 + d
  <2>1. l - k - 1 \in 0 .. n /\ l = k + 1 + (l - k - 1)
    BY <1>1
  <2>. QED
    BY <2>1
<1>9. d \in P
  BY <1>7
<1>. QED
  BY <1>1, <1>4, <1>8, <1>9

\* Sets of places that do not overlap.
Separate(text, needle) ==
    {S \in SUBSET Runs(text, needle) :
        \A i, j \in S : i = j \/ i - j >= Len(needle) \/ j - i >= Len(needle)}

\* The loop finds as many as there can be.
LEMMA MostFound ==
    ASSUME NEW bytes \in Seq(Byte), NEW needle \in Seq(Char), needle # <<>>, NEW found,
           Found(bytes, needle, found)
    PROVE  Disjoint(Text(bytes), needle) = Len(found)
<1>1. PICK n \in Nat, L \in Nat : n = Len(found) /\ L = Len(needle)
  BY DEF Found
<1>2. PICK R : R = Runs(Text(bytes), needle)
  OBVIOUS
<1>3. R = {i \in 1 .. Len(bytes) : Spells(bytes, i, needle)}
  BY <1>2, RunsAreOccurrences DEF Occurs
<1>4. L >= 1
  BY <1>1, EmptySeq
<1>5. \A k \in 1 .. n : found[k] \in R /\ found[k] \in Nat
  BY <1>1, <1>3 DEF Found
<1>6. \A r \in R : r \in Nat /\ \E k \in 1 .. n : found[k] <= r /\ r < found[k] + L
  BY <1>1, <1>3 DEF Found
<1>7. PICK C : C = {Cardinality(S) : S \in Separate(Text(bytes), needle)}
  OBVIOUS
<1>8. n \in C
  <2>1. PICK S : S = {found[k] : k \in 1 .. n}
    OBVIOUS
  <2>2. S \subseteq R
    BY <1>5, <2>1
  <2>3. \A k, l \in 1 .. n : k < l => found[l] >= found[k] + L
    BY <1>1, Apart
  <2>4. ASSUME NEW k \in 1 .. n, NEW l \in 1 .. n
        PROVE  k = l \/ found[k] - found[l] >= L \/ found[l] - found[k] >= L
    <3>1. found[k] \in Nat /\ found[l] \in Nat
      BY <1>5
    <3>2. k < l => found[l] >= found[k] + L
      BY <2>3
    <3>3. l < k => found[k] >= found[l] + L
      BY <2>3
    <3>. QED
      BY <3>1, <3>2, <3>3
  <2>5. ASSUME NEW i \in S, NEW j \in S PROVE i = j \/ i - j >= L \/ j - i >= L
    <3>1. PICK k \in 1 .. n, l \in 1 .. n : i = found[k] /\ j = found[l]
      BY <2>1
    <3>. QED
      BY <2>4, <3>1
  <2>6. S \in Separate(Text(bytes), needle)
    BY <1>1, <1>2, <2>2, <2>5 DEF Separate
  <2>7. Cardinality(S) = n
    <3>1. PICK f : f = [k \in 1 .. n |-> found[k]]
      OBVIOUS
    <3>2. f \in [1 .. n -> S]
      BY <2>1, <3>1
    <3>3. \A k, l \in 1 .. n : f[k] = f[l] => k = l
      BY <1>4, <1>5, <2>4, <3>1
    <3>4. \A i \in S : \E k \in 1 .. n : f[k] = i
      BY <2>1, <3>1
    <3>5. f \in Bijection(1 .. n, S)
      BY <3>2, <3>3, <3>4, Fun_IsBij
    <3>. QED
      BY <3>5, FS_CountingElements DEF ExistsBijection
  <2>. QED
    BY <1>7, <2>6, <2>7
<1>9. ASSUME NEW c \in C PROVE c \in Nat /\ n >= c
  <2>1. PICK S \in Separate(Text(bytes), needle) : c = Cardinality(S)
    BY <1>7
  <2>2. S \subseteq R /\ \A i, j \in S : i = j \/ i - j >= L \/ j - i >= L
    BY <1>1, <1>2 DEF Separate
  <2>3. PICK f : f = [r \in S |-> CHOOSE k \in 1 .. n : found[k] <= r /\ r < found[k] + L]
    OBVIOUS
  <2>4. ASSUME NEW r \in S PROVE f[r] \in 1 .. n /\ found[f[r]] <= r /\ r < found[f[r]] + L
    BY <1>6, <2>2, <2>3
  <2>5. f \in [S -> 1 .. n]
    BY <2>3, <2>4
  <2>6. ASSUME NEW i \in S, NEW j \in S, f[i] = f[j] PROVE i = j
    <3>1. PICK m \in Nat : m = found[f[i]] /\ m = found[f[j]]
      BY <1>5, <2>4, <2>6
    <3>2. m <= i /\ i < m + L /\ m <= j /\ j < m + L
      BY <2>4, <3>1
    <3>3. i \in Nat /\ j \in Nat
      BY <1>6, <2>2
    <3>. QED
      BY <2>2, <3>2, <3>3
  <2>7. f \in Injection(S, 1 .. n)
    BY <2>5, <2>6, Fun_IsInj
  <2>8. IsFiniteSet(1 .. n) /\ Cardinality(1 .. n) = n
    BY FS_Interval
  <2>9. IsFiniteSet(S) /\ Cardinality(S) <= n
    BY <2>7, <2>8, FS_Injection
  <2>. QED
    BY <2>1, <2>9, FS_CardinalityType
<1>10. Max(C) = n
  <2>1. \A y \in C : n >= y
    BY <1>9
  <2>2. \A c \in C : (\A y \in C : c >= y) => c = n
    BY <1>8, <1>9
  <2>. QED
    BY <1>8, <2>1, <2>2 DEF Max
<1>. QED
  BY <1>1, <1>7, <1>10 DEF Disjoint, Separate

\* With nothing to find there is nothing to count.
LEMMA NothingFound ==
    ASSUME NEW bytes \in Seq(Byte), NEW needle \in Seq(Char), Occurs(bytes, needle) = {}
    PROVE  Disjoint(Text(bytes), needle) = 0
<1>1. Runs(Text(bytes), needle) = {}
  BY RunsAreOccurrences
<1>2. Separate(Text(bytes), needle) = {{}}
  BY <1>1 DEF Separate
<1>3. {Cardinality(S) : S \in Separate(Text(bytes), needle)} = {0}
  BY <1>2, FS_EmptySet
<1>4. Max({0}) = 0
  BY DEF Max
<1>. QED
  BY <1>3, <1>4 DEF Disjoint, Separate

-----------------------------------------------------------------------------
(* Redaction: what is left of the bytes *)

\* Of the first n bytes, those not gone are copied in order; src is where each byte
\* of the copy comes from, 0 if it is of a marker.  What is copied side by side was
\* side by side, and a marker stands whole.
Copied(bytes, copy, src, n, gone) ==
    /\ copy \in Seq(Byte) /\ n \in 0 .. Len(bytes) /\ gone \subseteq 1 .. n
    /\ \A i \in 1 .. Len(copy) : src[i] \in 0 .. n /\ src[i] \notin gone
    /\ \A i \in 1 .. Len(copy) : src[i] = 0 => copy[i].at = 0
    /\ \A i \in 1 .. Len(copy) : src[i] # 0 => copy[i] = bytes[src[i]]
    /\ \A i, j \in 1 .. Len(copy) : i < j /\ src[i] # 0 /\ src[j] # 0 => src[i] < src[j]
    /\ \A i \in 1 .. Len(copy) - 1 : src[i] # 0 /\ src[i + 1] # 0 => src[i + 1] = src[i] + 1
    /\ \A p \in 1 .. n : p \notin gone => \E i \in 1 .. Len(copy) : src[i] = p
    /\ \A i \in 1 .. Len(copy) : src[i] = 0 /\ (i = 1 \/ src[i - 1] # 0) => copy[i].c = "["
    /\ \A i \in 1 .. Len(copy) : src[i] = 0 /\ (i = Len(copy) \/ src[i + 1] # 0) => copy[i].c = "]"

LEMMA MarkerBytes ==
    /\ Marker \in Seq(Byte) /\ Len(Marker) = Len(Redaction) /\ Len(Redaction) >= 1
    /\ \A i \in 1 .. Len(Marker) : Marker[i].at = 0
    /\ Marker[1].c = "[" /\ Marker[Len(Marker)].c = "]"
<1>1. Redaction \in Seq(STRING) /\ Redaction # <<>>
  BY FetchAssumption
<1>2. Redaction \in Seq(Char)
  BY <1>1, CharsOfText
<1>3. PICK N \in Nat : N = Len(Redaction) /\ DOMAIN Redaction = 1 .. N
  BY <1>2
<1>4. N >= 1
  BY <1>1, <1>2, <1>3, EmptySeq
<1>5. Redaction[1] = "[" /\ Redaction[N] = "]"
  <2>1. Head(Redaction) = Redaction[1]
    BY <1>2, <1>3, <1>4
  <2>2. Last(Redaction) = Redaction[N]
    BY <1>3 DEF Last
  <2>. QED
    BY <2>1, <2>2, FetchAssumption
<1>6. PICK m : m = Marker
  OBVIOUS
<1>7. ASSUME NEW i \in 1 .. N PROVE m[i].c = Redaction[i] /\ m[i].at = 0 /\ m[i] \in Byte
  <2>1. m[i] = [c |-> Redaction[i], at |-> 0] /\ Redaction[i] \in Char
    BY <1>2, <1>3, <1>6 DEF Marker
  <2>. QED
    BY <2>1 DEF Byte
<1>8. m \in Seq(Byte) /\ Len(m) = N
  <2>1. m \in [1 .. N -> Byte]
    BY <1>3, <1>6, <1>7 DEF Marker
  <2>. QED
    BY <2>1
<1>9. 1 \in 1 .. N /\ N \in 1 .. N
  BY <1>4
<1>. QED
  BY <1>3, <1>4, <1>5, <1>6, <1>7, <1>8, <1>9

\* A marker goes behind what was copied.
LEMMA CopiesMarker ==
    ASSUME NEW bytes \in Seq(Byte), NEW copy, NEW src, NEW n, NEW gone,
           Copied(bytes, copy, src, n, gone)
    PROVE  \E s : /\ Copied(bytes, copy \o Marker, s, n, gone)
                  /\ Len(copy \o Marker) # 0 /\ s[Len(copy \o Marker)] = 0
<1>1. PICK l \in Nat : l = Len(copy)
  BY DEF Copied
<1>2. PICK m : m = Marker
  OBVIOUS
<1>3. PICK R \in Nat : R = Len(m)
  BY <1>2, MarkerBytes
<1>4. /\ m \in Seq(Byte) /\ R >= 1 /\ \A i \in 1 .. R : m[i].at = 0
      /\ m[1].c = "[" /\ m[R].c = "]"
  BY <1>2, <1>3, MarkerBytes
<1>5. copy \in Seq(Byte)
  BY DEF Copied
<1>6. PICK o : o = copy \o m
  OBVIOUS
<1>7. /\ o \in Seq(Byte) /\ Len(o) = l + R
      /\ \A i \in 1 .. l : o[i] = copy[i]
      /\ \A i \in 1 .. R : o[l + i] = m[i]
  BY <1>1, <1>3, <1>4, <1>5, <1>6
<1>8. PICK s : s = [i \in 1 .. l + R |-> IF i <= l THEN src[i] ELSE 0]
  OBVIOUS
<1>9. \A i \in 1 .. l : s[i] = src[i]
  BY <1>8
<1>10. ASSUME NEW i \in 1 .. l + R, i > l
       PROVE  s[i] = 0 /\ \E k \in 1 .. R : i = l + k /\ o[i] = m[k]
  <2>1. i - l \in 1 .. R /\ i = l + (i - l)
    BY <1>10
  <2>2. o[i] = m[i - l]
    BY <1>7, <2>1
  <2>3. s[i] = 0
    BY <1>8, <1>10
  <2>. QED
    BY <2>1, <2>2, <2>3
<1>11. \A i \in 1 .. l + R : s[i] # 0 => i \in 1 .. l
  BY <1>10
<1>12. /\ n \in 0 .. Len(bytes) /\ gone \subseteq 1 .. n
       /\ \A i \in 1 .. l : src[i] \in 0 .. n /\ src[i] \notin gone
       /\ \A i \in 1 .. l : src[i] = 0 => copy[i].at = 0
       /\ \A i \in 1 .. l : src[i] # 0 => copy[i] = bytes[src[i]]
  BY <1>1 DEF Copied
<1>13. ASSUME NEW i \in 1 .. l + R
       PROVE  /\ s[i] \in 0 .. n /\ s[i] \notin gone
              /\ s[i] = 0 => o[i].at = 0
              /\ s[i] # 0 => o[i] = bytes[s[i]]
  <2>1. CASE i <= l
    <3>1. i \in 1 .. l
      BY <2>1
    <3>. QED
      BY <1>7, <1>9, <1>12, <3>1
  <2>2. CASE i > l
    BY <1>4, <1>10, <1>12, <2>2
  <2>. QED
    BY <2>1, <2>2
<1>14. ASSUME NEW i \in 1 .. l + R, NEW j \in 1 .. l + R, i < j, s[i] # 0, s[j] # 0
       PROVE  s[i] < s[j]
  <2>1. i \in 1 .. l /\ j \in 1 .. l
    BY <1>11, <1>14
  <2>. QED
    BY <1>1, <1>9, <1>14, <2>1 DEF Copied
<1>15. ASSUME NEW i \in 1 .. l + R - 1, s[i] # 0, s[i + 1] # 0 PROVE s[i + 1] = s[i] + 1
  <2>1. i + 1 \in 1 .. l + R /\ i \in 1 .. l + R
    OBVIOUS
  <2>2. i + 1 \in 1 .. l
    BY <1>11, <1>15, <2>1
  <2>3. i \in 1 .. l - 1 /\ i \in 1 .. l
    BY <2>2
  <2>. QED
    BY <1>1, <1>9, <1>15, <2>2, <2>3 DEF Copied
<1>16. ASSUME NEW p \in 1 .. n, p \notin gone PROVE \E i \in 1 .. l + R : s[i] = p
  <2>1. PICK i \in 1 .. l : src[i] = p
    BY <1>1, <1>16 DEF Copied
  <2>2. i \in 1 .. l + R
    OBVIOUS
  <2>. QED
    BY <1>9, <2>1, <2>2
<1>17. ASSUME NEW i \in 1 .. l + R, s[i] = 0, i = 1 \/ s[i - 1] # 0 PROVE o[i].c = "["
  <2>1. CASE i <= l
    <3>1. i \in 1 .. l /\ (i # 1 => i - 1 \in 1 .. l)
      BY <2>1
    <3>2. src[i] = 0 /\ (i = 1 \/ src[i - 1] # 0)
      BY <1>9, <1>17, <3>1
    <3>. QED
      BY <1>1, <1>7, <3>1, <3>2 DEF Copied
  <2>2. CASE i > l
    <3>1. i = l + 1
      <4>1. SUFFICES ASSUME i # l + 1 PROVE FALSE
        OBVIOUS
      <4>2. i - 1 \in 1 .. l + R /\ i - 1 > l
        BY <2>2, <4>1
      <4>3. s[i - 1] = 0
        BY <1>10, <4>2
      <4>. QED
        BY <1>17, <2>2, <4>1, <4>3
    <3>2. o[i] = m[1]
      BY <1>4, <1>7, <3>1
    <3>. QED
      BY <1>4, <3>2
  <2>. QED
    BY <2>1, <2>2
<1>18. ASSUME NEW i \in 1 .. l + R, s[i] = 0, i = l + R \/ s[i + 1] # 0 PROVE o[i].c = "]"
  <2>1. CASE i <= l
    <3>1. i \in 1 .. l /\ i + 1 \in 1 .. l + R /\ i # l + R
      BY <1>4, <2>1
    <3>2. i + 1 \in 1 .. l
      BY <1>11, <1>18, <3>1
    <3>3. src[i] = 0 /\ src[i + 1] # 0
      BY <1>9, <1>18, <3>1, <3>2
    <3>. QED
      BY <1>1, <1>7, <3>1, <3>3 DEF Copied
  <2>2. CASE i > l
    <3>1. i = l + R
      <4>1. SUFFICES ASSUME i # l + R PROVE FALSE
        OBVIOUS
      <4>2. i + 1 \in 1 .. l + R /\ i + 1 > l
        BY <2>2, <4>1
      <4>. QED
        BY <1>10, <1>18, <4>1, <4>2
    <3>2. o[i] = m[R]
      BY <1>4, <1>7, <3>1
    <3>. QED
      BY <1>4, <3>2
  <2>. QED
    BY <2>1, <2>2
<1>19. Copied(bytes, o, s, n, gone)
  BY <1>7, <1>12, <1>13, <1>14, <1>15, <1>16, <1>17, <1>18 DEF Copied
<1>20. s[l + R] = 0
  <2>1. l + R \in 1 .. l + R /\ l + R > l
    BY <1>4
  <2>. QED
    BY <1>10, <2>1
<1>. QED
  BY <1>2, <1>4, <1>6, <1>7, <1>19, <1>20

\* A stretch of the bytes goes behind a marker, and what is between is gone.
LEMMA CopiesText ==
    ASSUME NEW bytes \in Seq(Byte), NEW copy, NEW src, NEW n, NEW gone,
           Copied(bytes, copy, src, n, gone), Len(copy) = 0 \/ src[Len(copy)] = 0,
           NEW a \in Nat, NEW b \in Nat, n < a, a <= b + 1, b <= Len(bytes)
    PROVE  \E s : Copied(bytes, copy \o SubSeq(bytes, a, b), s, b, gone \union (n + 1) .. (a - 1))
<1>1. PICK l \in Nat : l = Len(copy)
  BY DEF Copied
<1>2. PICK B \in Nat : B = Len(bytes) /\ DOMAIN bytes = 1 .. B
  OBVIOUS
<1>3. n \in Nat /\ copy \in Seq(Byte) /\ n <= B
  BY <1>2 DEF Copied
<1>4. PICK R \in Nat : R = b - a + 1
  BY <1>3
<1>5. PICK m : m = SubSeq(bytes, a, b)
  OBVIOUS
<1>6. a \in 1 .. B + 1 /\ b \in a - 1 .. B
  BY <1>2, <1>3
<1>7. m \in Seq(Byte) /\ Len(m) = R
  BY <1>2, <1>4, <1>5, <1>6
<1>8. \A k \in 1 .. R : m[k] = bytes[a + k - 1]
  BY <1>2, <1>4, <1>5, <1>6
<1>9. PICK o : o = copy \o m
  OBVIOUS
<1>10. /\ o \in Seq(Byte) /\ Len(o) = l + R
       /\ \A i \in 1 .. l : o[i] = copy[i]
       /\ \A i \in 1 .. R : o[l + i] = m[i]
  <2>1. o \in Seq(Byte) /\ Len(o) = l + R
    <3>1. copy \in Seq(Byte) /\ m \in Seq(Byte)
      BY <1>3, <1>7
    <3>2. o \in Seq(Byte)
      BY <1>9, <3>1
    <3>3. Len(o) = Len(copy) + Len(m)
      BY <1>9, <3>1
    <3>. QED
      BY <1>1, <1>7, <3>2, <3>3
  <2>2. \A i \in 1 .. l : o[i] = copy[i]
    BY <1>1, <1>3, <1>7, <1>9
  <2>3. \A i \in 1 .. R : o[l + i] = m[i]
    BY <1>1, <1>3, <1>7, <1>9
  <2>. QED
    BY <2>1, <2>2, <2>3
<1>11. PICK s : s = [i \in 1 .. l + R |-> IF i <= l THEN src[i] ELSE a + (i - l) - 1]
  OBVIOUS
<1>12. \A i \in 1 .. l : s[i] = src[i]
  BY <1>11
<1>13. ASSUME NEW i \in 1 .. l + R, i > l
       PROVE  /\ s[i] = a + (i - l) - 1 /\ s[i] \in a .. b /\ s[i] # 0
              /\ o[i] = bytes[s[i]]
  <2>1. i - l \in 1 .. R /\ i = l + (i - l)
    BY <1>13
  <2>2. o[i] = m[i - l]
    BY <1>10, <2>1
  <2>3. s[i] = a + (i - l) - 1
    BY <1>11, <1>13
  <2>4. s[i] \in a .. b /\ s[i] # 0
    BY <1>3, <1>4, <1>6, <2>1, <2>3
  <2>5. m[i - l] = bytes[a + (i - l) - 1]
    BY <1>8, <2>1
  <2>. QED
    BY <2>2, <2>3, <2>4, <2>5
<1>14. PICK g : g = gone \union (n + 1) .. (a - 1)
  OBVIOUS
<1>15. /\ gone \subseteq 1 .. n
       /\ \A i \in 1 .. l : src[i] \in 0 .. n /\ src[i] \notin gone
       /\ \A i \in 1 .. l : src[i] = 0 => copy[i].at = 0
       /\ \A i \in 1 .. l : src[i] # 0 => copy[i] = bytes[src[i]]
  BY <1>1 DEF Copied
<1>16. b \in 0 .. B /\ g \subseteq 1 .. b
  <2>1. n + 1 >= 1 /\ a - 1 <= b /\ n <= b
    BY <1>3, <1>6
  <2>2. \A p \in gone : p \in 1 .. b
    BY <1>3, <1>15, <2>1
  <2>3. \A p \in (n + 1) .. (a - 1) : p \in 1 .. b
    BY <1>3, <1>6, <2>1
  <2>. QED
    BY <1>6, <1>14, <2>2, <2>3
<1>17. ASSUME NEW i \in 1 .. l + R PROVE s[i] \in 0 .. b /\ s[i] \notin g
  <2>1. CASE i <= l
    <3>1. i \in 1 .. l
      BY <2>1
    <3>2. s[i] \in 0 .. n /\ s[i] \notin gone
      BY <1>12, <1>15, <3>1
    <3>. QED
      BY <1>3, <1>6, <1>14, <3>2
  <2>2. CASE i > l
    <3>1. s[i] \in a .. b
      BY <1>13, <2>2
    <3>2. s[i] \notin gone /\ s[i] \notin (n + 1) .. (a - 1) /\ s[i] \in 0 .. b
      BY <1>3, <1>6, <1>15, <3>1
    <3>. QED
      BY <1>14, <3>2
  <2>. QED
    BY <2>1, <2>2
<1>18. ASSUME NEW i \in 1 .. l + R
       PROVE  /\ s[i] = 0 => o[i].at = 0
              /\ s[i] # 0 => o[i] = bytes[s[i]]
  <2>1. CASE i <= l
    <3>1. i \in 1 .. l
      BY <2>1
    <3>. QED
      BY <1>10, <1>12, <1>15, <3>1
  <2>2. CASE i > l
    BY <1>13, <2>2
  <2>. QED
    BY <2>1, <2>2
<1>19. ASSUME NEW i \in 1 .. l + R, NEW j \in 1 .. l + R, i < j, s[i] # 0, s[j] # 0
       PROVE  s[i] < s[j]
  <2>1. CASE j <= l
    <3>1. i \in 1 .. l /\ j \in 1 .. l
      BY <1>19, <2>1
    <3>. QED
      BY <1>1, <1>12, <1>19, <3>1 DEF Copied
  <2>2. CASE j > l /\ i <= l
    <3>1. s[i] \in 0 .. n /\ s[j] \in a .. b
      <4>1. i \in 1 .. l
        BY <2>2
      <4>. QED
        BY <1>12, <1>13, <1>15, <2>2, <4>1
    <3>. QED
      BY <1>3, <1>6, <3>1
  <2>3. CASE i > l
    <3>1. j > l
      BY <1>19, <2>3
    <3>2. s[i] = a + (i - l) - 1 /\ s[j] = a + (j - l) - 1
      BY <1>13, <2>3, <3>1
    <3>. QED
      BY <1>19, <3>2
  <2>. QED
    BY <2>1, <2>2, <2>3
<1>20. ASSUME NEW i \in 1 .. l + R - 1, s[i] # 0, s[i + 1] # 0 PROVE s[i + 1] = s[i] + 1
  <2>1. i + 1 \in 1 .. l + R /\ i \in 1 .. l + R
    OBVIOUS
  <2>2. CASE i + 1 <= l
    <3>1. i \in 1 .. l - 1 /\ i \in 1 .. l /\ i + 1 \in 1 .. l
      BY <2>2
    <3>. QED
      BY <1>1, <1>12, <1>20, <3>1 DEF Copied
  <2>3. CASE i = l
    <3>1. l # 0 /\ src[l] = 0 /\ l \in 1 .. l
      BY <1>1, <2>3
    <3>. QED
      BY <1>12, <1>20, <2>3, <3>1
  <2>4. CASE i > l
    <3>1. i + 1 > l
      BY <2>4
    <3>2. s[i] = a + (i - l) - 1
      BY <1>13, <2>1, <2>4
    <3>3. s[i + 1] = a + ((i + 1) - l) - 1
      BY <1>13, <2>1, <3>1
    <3>. QED
      BY <3>2, <3>3
  <2>. QED
    BY <2>2, <2>3, <2>4
<1>21. ASSUME NEW p \in 1 .. b, p \notin g PROVE \E i \in 1 .. l + R : s[i] = p
  <2>1. CASE p <= n
    <3>1. p \in 1 .. n /\ p \notin gone
      BY <1>3, <1>14, <1>21, <2>1
    <3>2. PICK i \in 1 .. l : src[i] = p
      BY <1>1, <3>1 DEF Copied
    <3>3. i \in 1 .. l + R
      OBVIOUS
    <3>. QED
      BY <1>12, <3>2, <3>3
  <2>2. CASE p > n
    <3>1. p \notin (n + 1) .. (a - 1)
      BY <1>14, <1>21
    <3>2. p >= a
      BY <1>3, <2>2, <3>1
    <3>3. l + (p - a + 1) \in 1 .. l + R /\ l + (p - a + 1) > l
      BY <1>4, <3>2
    <3>4. s[l + (p - a + 1)] = a + ((l + (p - a + 1)) - l) - 1
      BY <1>13, <3>3
    <3>5. s[l + (p - a + 1)] = p
      BY <3>4
    <3>. QED
      BY <3>3, <3>5
  <2>. QED
    BY <1>3, <2>1, <2>2
<1>22. ASSUME NEW i \in 1 .. l + R, s[i] = 0, i = 1 \/ s[i - 1] # 0 PROVE o[i].c = "["
  <2>1. i <= l
    BY <1>13, <1>22
  <2>2. i \in 1 .. l /\ (i # 1 => i - 1 \in 1 .. l)
    BY <2>1
  <2>3. src[i] = 0 /\ (i = 1 \/ src[i - 1] # 0)
    BY <1>12, <1>22, <2>2
  <2>. QED
    BY <1>1, <1>10, <2>2, <2>3 DEF Copied
<1>23. ASSUME NEW i \in 1 .. l + R, s[i] = 0, i = l + R \/ s[i + 1] # 0 PROVE o[i].c = "]"
  <2>1. i <= l
    BY <1>13, <1>23
  <2>2. i \in 1 .. l
    BY <2>1
  <2>3. i = l \/ src[i + 1] # 0
    <3>1. SUFFICES ASSUME i # l PROVE src[i + 1] # 0
      OBVIOUS
    <3>2. i + 1 \in 1 .. l /\ i # l + R
      BY <2>1, <3>1
    <3>. QED
      BY <1>12, <1>23, <3>2
  <2>4. src[i] = 0
    BY <1>12, <1>23, <2>2
  <2>. QED
    BY <1>1, <1>10, <2>2, <2>3, <2>4 DEF Copied
<1>24. Copied(bytes, o, s, b, g)
  BY <1>2, <1>10, <1>16, <1>17, <1>18, <1>19, <1>20, <1>21, <1>22, <1>23 DEF Copied
<1>. QED
  BY <1>5, <1>9, <1>14, <1>24

\* What the first k occurrences found cover.
GoneTo(needle, found, k) ==
    {p \in Nat : \E j \in 1 .. k : found[j] <= p /\ p < found[j] + Len(needle)}

LEMMA NothingGone == \A needle, found : GoneTo(needle, found, 0) = {}
BY DEF GoneTo

LEMMA OneMoreGone ==
    ASSUME NEW needle \in Seq(Char), NEW found, NEW k \in Nat, found[k + 1] \in Nat
    PROVE  GoneTo(needle, found, k + 1)
              = GoneTo(needle, found, k) \union found[k + 1] .. (found[k + 1] + Len(needle) - 1)
<1>1. PICK L \in Nat : L = Len(needle)
  OBVIOUS
<1>2. PICK a \in Nat : a = found[k + 1]
  OBVIOUS
<1>3. ASSUME NEW p \in Nat
      PROVE  (\E j \in 1 .. k + 1 : found[j] <= p /\ p < found[j] + L)
                <=> \/ \E j \in 1 .. k : found[j] <= p /\ p < found[j] + L
                    \/ a <= p /\ p < a + L
  <2>1. \A j \in 1 .. k + 1 : j \in 1 .. k \/ j = k + 1
    OBVIOUS
  <2>2. k + 1 \in 1 .. k + 1 /\ \A j \in 1 .. k : j \in 1 .. k + 1
    OBVIOUS
  <2>. QED
    BY <1>2, <2>1, <2>2
<1>4. \A p \in Nat : p \in a .. (a + L - 1) <=> a <= p /\ p < a + L
  OBVIOUS
<1>5. \A p \in a .. (a + L - 1) : p \in Nat
  OBVIOUS
<1>6. ASSUME NEW p
      PROVE  p \in GoneTo(needle, found, k + 1)
                <=> p \in GoneTo(needle, found, k) \union a .. (a + L - 1)
  <2>1. CASE p \in Nat
    BY <1>1, <1>3, <1>4, <2>1 DEF GoneTo
  <2>2. CASE p \notin Nat
    BY <1>5, <2>2 DEF GoneTo
  <2>. QED
    BY <2>1, <2>2
<1>. QED
  BY <1>1, <1>2, <1>6

LEMMA CopiesNothing ==
    ASSUME NEW bytes \in Seq(Byte)
    PROVE  Copied(bytes, <<>>, <<>>, 0, {})
<1>1. Len(<<>>) = 0 /\ <<>> \in Seq(Byte) /\ Len(bytes) \in Nat
  OBVIOUS
<1>2. 1 .. Len(<<>>) = {} /\ 1 .. Len(<<>>) - 1 = {} /\ 1 .. 0 = {}
  BY <1>1
<1>. QED
  BY <1>1, <1>2 DEF Copied

LEMMA JoinedBytes ==
    ASSUME NEW s \in Seq(Byte), NEW t \in Seq(Byte)
    PROVE  s \o t \in Seq(Byte) /\ Len(s \o t) = Len(s) + Len(t)
OBVIOUS

LEMMA ThreeJoined ==
    ASSUME NEW s \in Seq(Byte), NEW t \in Seq(Byte), NEW u \in Seq(Byte)
    PROVE  (s \o t) \o u = s \o (t \o u)
OBVIOUS

\* One round of a pass: a marker and the text up to the next occurrence, or to the end.
LEMMA TakesOneOut ==
    ASSUME NEW bytes \in Seq(Byte), NEW needle \in Seq(Char), NEW found, NEW k \in Nat,
           NEW c \in Seq(Byte), NEW src, NEW e \in Nat, NEW a \in Nat, NEW b \in Nat,
           Copied(bytes, c, src, e, GoneTo(needle, found, k)),
           a = found[k + 1], a = e + 1, a + Len(needle) <= b + 1, b <= Len(bytes),
           NEW t \in Seq(Byte), t = SubSeq(bytes, a + Len(needle), b)
    PROVE  \E r : Copied(bytes, c \o (Marker \o t), r, b, GoneTo(needle, found, k + 1))
<1>1. PICK B \in Nat : B = Len(bytes)
  OBVIOUS
<1>2. PICK L \in Nat : L = Len(needle)
  OBVIOUS
<1>3. PICK q \in Nat : q = a + L /\ q >= 1 /\ e < q /\ q <= b + 1 /\ b <= B
  BY <1>1, <1>2
<1>4. PICK M : M = Marker
  OBVIOUS
<1>5. M \in Seq(Byte) /\ Len(M) = Len(Redaction)
  BY <1>4, MarkerBytes
<1>6. PICK s : /\ Copied(bytes, c \o M, s, e, GoneTo(needle, found, k))
               /\ Len(c \o M) # 0 /\ s[Len(c \o M)] = 0
  BY <1>4, CopiesMarker
<1>7. \E r : Copied(bytes, (c \o M) \o SubSeq(bytes, q, b), r, b,
                    GoneTo(needle, found, k) \union (e + 1) .. (q - 1))
  BY <1>1, <1>3, <1>6, CopiesText
<1>8. GoneTo(needle, found, k) \union (e + 1) .. (q - 1) = GoneTo(needle, found, k + 1)
  <2>1. found[k + 1] \in Nat /\ e + 1 = found[k + 1] /\ q - 1 = found[k + 1] + Len(needle) - 1
    BY <1>2, <1>3
  <2>2. GoneTo(needle, found, k + 1)
           = GoneTo(needle, found, k) \union found[k + 1] .. (found[k + 1] + Len(needle) - 1)
    BY <2>1, OneMoreGone
  <2>. QED
    BY <2>1, <2>2
<1>9. t = SubSeq(bytes, q, b)
  BY <1>2, <1>3
<1>10. (c \o M) \o t = c \o (M \o t)
  <2>1. c \in Seq(Byte) /\ M \in Seq(Byte) /\ t \in Seq(Byte)
    BY <1>5
  <2>. QED
    BY <2>1, ThreeJoined
<1>. QED
  BY <1>4, <1>7, <1>8, <1>9, <1>10

\* The body of one pass: the text up to the first occurrence, and for each a marker
\* and the text up to the next (redact_verbatim_bytes).
Redacted(bytes, needle, found, ends, parts, out) ==
    /\ ends = [k \in 0 .. Len(found) |-> IF k = Len(found) THEN Len(bytes) ELSE found[k + 1] - 1]
    /\ parts = [k \in DOMAIN found |-> Marker \o SubSeq(bytes, found[k] + Len(needle), ends[k])]
    /\ out = SubSeq(bytes, 1, ends[0]) \o FlattenSeq(parts)

LEMMA TakesOut ==
    ASSUME NEW bytes \in Seq(Byte), NEW needle \in Seq(Char), needle # <<>>,
           NEW found, found # <<>>, Found(bytes, needle, found),
           NEW ends, NEW parts, NEW out, Redacted(bytes, needle, found, ends, parts, out)
    PROVE  /\ \E src : Copied(bytes, out, src, Len(bytes), GoneTo(needle, found, Len(found)))
           /\ Len(out) = redacted_body_len(Len(bytes), Len(found), Len(needle))
<1>0. /\ ends = [k \in 0 .. Len(found) |-> IF k = Len(found) THEN Len(bytes) ELSE found[k + 1] - 1]
      /\ parts = [k \in DOMAIN found |-> Marker \o SubSeq(bytes, found[k] + Len(needle), ends[k])]
      /\ out = SubSeq(bytes, 1, ends[0]) \o FlattenSeq(parts)
  BY DEF Redacted
<1>1. PICK B \in Nat : B = Len(bytes) /\ DOMAIN bytes = 1 .. B
  OBVIOUS
<1>2. PICK L \in Nat : L = Len(needle)
  OBVIOUS
<1>3. L >= 1
  BY <1>2, EmptySeq
<1>4. found \in Seq(1 .. B)
  BY <1>1 DEF Found
<1>5. PICK n \in Nat : n = Len(found) /\ DOMAIN found = 1 .. n
  BY <1>4
<1>6. n >= 1
  BY <1>4, <1>5, EmptySeq
<1>7. \A k \in 1 .. n : found[k] \in 1 .. B
  BY <1>4, <1>5
<1>8. \A k \in 1 .. n : found[k] + L - 1 <= B
  BY <1>1, <1>2, <1>5 DEF Found, Spells
<1>9. \A k \in 1 .. n - 1 : found[k + 1] >= found[k] + L
  BY <1>2, <1>5 DEF Found
<1>10. ends[n] = B /\ \A k \in 0 .. n - 1 : ends[k] = found[k + 1] - 1
  <2>1. n \in 0 .. n /\ \A k \in 0 .. n - 1 : k \in 0 .. n /\ k # n
    OBVIOUS
  <2>. QED
    BY <1>0, <1>1, <1>5, <2>1
<1>11. \A k \in 0 .. n : ends[k] \in 0 .. B
  <2>1. \A k \in 0 .. n - 1 : ends[k] \in 0 .. B
    BY <1>7, <1>10
  <2>. QED
    BY <1>10, <2>1
<1>12. \A k \in 1 .. n : found[k] + L <= ends[k] + 1
  <2>1. \A k \in 1 .. n - 1 : found[k] + L <= ends[k] + 1
    BY <1>7, <1>9, <1>10
  <2>. QED
    BY <1>7, <1>8, <1>10, <2>1
<1>13. PICK M : M = Marker
  OBVIOUS
<1>14. PICK R \in Nat : R = Len(Redaction)
  BY MarkerBytes
<1>15. M \in Seq(Byte) /\ Len(M) = R
  BY <1>13, <1>14, MarkerBytes
<1>16. ASSUME NEW k \in 1 .. n
       PROVE  \E t \in Seq(Byte) : /\ t = SubSeq(bytes, found[k] + L, ends[k])
                                   /\ Len(t) = ends[k] + 1 - (found[k] + L)
                                   /\ parts[k] = M \o t
  <2>1. found[k] \in Nat /\ ends[k] \in Nat /\ ends[k] <= B /\ found[k] + L <= ends[k] + 1
        /\ found[k] >= 1
    BY <1>7, <1>11, <1>12
  <2>2. PICK a \in Nat, b \in Nat : a = found[k] + L /\ b = ends[k] /\ a >= 1 /\ b <= B /\ a <= b + 1
    BY <2>1
  <2>3. a \in 1 .. B + 1 /\ b \in a - 1 .. B
    BY <2>2
  <2>4. SubSeq(bytes, a, b) \in Seq(Byte) /\ Len(SubSeq(bytes, a, b)) = b + 1 - a
    BY <1>1, <2>3
  <2>. QED
    BY <1>0, <1>2, <1>5, <1>13, <2>2, <2>4
<1>17. parts \in Seq(Seq(Byte)) /\ Len(parts) = n
  <2>1. ASSUME NEW k \in 1 .. n PROVE parts[k] \in Seq(Byte)
    BY <1>15, <1>16, ConcatProperties
  <2>2. parts \in [1 .. n -> Seq(Byte)]
    BY <1>0, <1>5, <2>1
  <2>. QED
    BY <2>2
<1>18. PICK f \in [0 .. n -> Seq(Byte)] : /\ f[0] = <<>>
                                          /\ \A i \in 1 .. n : f[i] = f[i - 1] \o parts[i]
                                          /\ FlattenSeq(parts) = f[n]
  BY <1>17, Flattened
<1>19. PICK o : o = SubSeq(bytes, 1, ends[0])
  OBVIOUS
<1>20. 0 \in 0 .. n /\ ends[0] \in Nat /\ ends[0] <= B
  <2>1. 0 \in 0 .. n
    OBVIOUS
  <2>. QED
    BY <1>11, <2>1
<1>21. o \in Seq(Byte) /\ Len(o) = ends[0]
  BY <1>1, <1>19, <1>20
<1>22. PICK d \in Int : d = R - L
  OBVIOUS
<1>23. PICK C : C = {k \in 0 .. n : /\ \E src : Copied(bytes, o \o f[k], src, ends[k], GoneTo(needle, found, k))
                                    /\ Len(o \o f[k]) = ends[k] + k * d}
  OBVIOUS
<1>24. 0 \in C
  <2>1. o \o f[0] = o
    BY <1>18, <1>21, ConcatEmptySeq
  <2>2. <<>> \o o = o
    BY <1>21, ConcatEmptySeq
  <2>3. Len(<<>>) = 0 /\ 1 \in Nat /\ 0 < 1 /\ 1 <= ends[0] + 1 /\ ends[0] <= Len(bytes)
    BY <1>1, <1>20
  <2>4. \E s : Copied(bytes, <<>> \o o, s, ends[0], {} \union (0 + 1) .. (1 - 1))
    BY <1>19, <1>20, <2>3, CopiesNothing, CopiesText
  <2>5. {} \union (0 + 1) .. (1 - 1) = GoneTo(needle, found, 0)
    BY NothingGone
  <2>6. ends[0] = ends[0] + 0 * d
    BY <1>20, <1>22
  <2>. QED
    BY <1>20, <1>21, <1>23, <2>1, <2>2, <2>4, <2>5, <2>6
<1>25. ASSUME NEW k \in 0 .. n - 1, k \in C PROVE k + 1 \in C
  <2>1. k \in 0 .. n /\ k + 1 \in 1 .. n /\ k + 1 \in 0 .. n /\ (k + 1) - 1 = k
    OBVIOUS
  <2>2. PICK src : Copied(bytes, o \o f[k], src, ends[k], GoneTo(needle, found, k))
    BY <1>23, <1>25
  <2>3. Len(o \o f[k]) = ends[k] + k * d
    BY <1>23, <1>25
  <2>4. PICK c : c = o \o f[k]
    OBVIOUS
  <2>5. f[k] \in Seq(Byte) /\ c \in Seq(Byte)
    BY <1>18, <1>21, <2>1, <2>4, ConcatProperties
  <2>6. /\ found[k + 1] \in 1 .. B /\ ends[k + 1] \in 0 .. B /\ ends[k] \in 0 .. B
        /\ ends[k] = found[k + 1] - 1 /\ found[k + 1] + L <= ends[k + 1] + 1
    BY <1>7, <1>10, <1>11, <1>12, <2>1
  <2>7. PICK t \in Seq(Byte) : /\ t = SubSeq(bytes, found[k + 1] + L, ends[k + 1])
                               /\ Len(t) = ends[k + 1] + 1 - (found[k + 1] + L)
                               /\ parts[k + 1] = M \o t
    BY <1>16, <2>1
  <2>8. /\ found[k + 1] \in Nat /\ ends[k] \in Nat /\ ends[k + 1] \in Nat
        /\ found[k + 1] = ends[k] + 1 /\ found[k + 1] + Len(needle) <= ends[k + 1] + 1
        /\ ends[k + 1] <= Len(bytes) /\ t = SubSeq(bytes, found[k + 1] + Len(needle), ends[k + 1])
    <3>1. /\ found[k + 1] \in Nat /\ ends[k] \in Nat /\ ends[k + 1] \in Nat
          /\ found[k + 1] = ends[k] + 1 /\ found[k + 1] + L <= ends[k + 1] + 1
      <4>1. found[k + 1] \in Nat /\ ends[k] \in Nat /\ ends[k + 1] \in Nat
        <5>1. \A v : (v \in 1 .. B => v \in Nat) /\ (v \in 0 .. B => v \in Nat)
          OBVIOUS
        <5>. QED
          BY <2>6, <5>1
      <4>2. found[k + 1] = ends[k] + 1
        BY <2>6, <4>1
      <4>. QED
        BY <2>6, <4>1, <4>2
    <3>2. ends[k + 1] <= Len(bytes)
      BY <1>1, <2>6
    <3>. QED
      BY <1>2, <2>7, <3>1, <3>2
  <2>9. Copied(bytes, c, src, ends[k], GoneTo(needle, found, k)) /\ k \in Nat
    BY <2>1, <2>2, <2>4
  <2>10. \E r : Copied(bytes, c \o (Marker \o t), r, ends[k + 1], GoneTo(needle, found, k + 1))
    <3>1. PICK x1 \in Nat, x2 \in Nat, x3 \in Nat :
              x1 = ends[k] /\ x2 = found[k + 1] /\ x3 = ends[k + 1]
      BY <2>8
    <3>2. /\ x2 = found[k + 1] /\ x2 = x1 + 1 /\ x2 + Len(needle) <= x3 + 1 /\ x3 <= Len(bytes)
          /\ t = SubSeq(bytes, x2 + Len(needle), x3) /\ c \in Seq(Byte) /\ k \in Nat
          /\ Copied(bytes, c, src, x1, GoneTo(needle, found, k))
      BY <2>5, <2>8, <2>9, <3>1
    <3>3. \E r : Copied(bytes, c \o (Marker \o t), r, x3, GoneTo(needle, found, k + 1))
      BY <3>2, TakesOneOut
    <3>. QED
      BY <3>1, <3>3
  <2>11. Len(c \o (M \o t)) = Len(c) + (R + Len(t))
    <3>1. M \o t \in Seq(Byte) /\ Len(M \o t) = Len(M) + Len(t)
      BY <1>15, JoinedBytes
    <3>2. c \in Seq(Byte)
      BY <2>5
    <3>3. Len(c \o (M \o t)) = Len(c) + Len(M \o t)
      BY <3>1, <3>2, JoinedBytes
    <3>. QED
      BY <1>15, <3>1, <3>3
  <2>12. o \o f[k + 1] = c \o (M \o t)
    <3>1. f[k + 1] = f[k] \o (M \o t)
      BY <1>18, <2>1, <2>7
    <3>2. M \o t \in Seq(Byte)
      BY <1>15, JoinedBytes
    <3>3. o \in Seq(Byte) /\ f[k] \in Seq(Byte)
      BY <1>21, <2>5
    <3>4. (o \o f[k]) \o (M \o t) = o \o (f[k] \o (M \o t))
      BY <3>2, <3>3, ThreeJoined, ZenonT(30)
    <3>. QED
      BY <2>4, <3>1, <3>4
  <2>13. Len(o \o f[k + 1]) = ends[k + 1] + (k + 1) * d
    <3>1. PICK z \in Int : z = k * d /\ (k + 1) * d = z + d
      BY <1>22, <2>9
    <3>2. Len(c) = ends[k] + z
      BY <2>3, <2>4, <3>1
    <3>3. ends[k] \in Int /\ found[k + 1] = ends[k] + 1 /\ ends[k + 1] \in Int
      BY <2>8
    <3>4. PICK x1 \in Int, x2 \in Int : x1 = ends[k] /\ x2 = ends[k + 1]
      BY <3>3
    <3>5. Len(t) = x2 + 1 - ((x1 + 1) + L)
      BY <2>7, <3>3, <3>4
    <3>6. Len(o \o f[k + 1]) = (x1 + z) + (R + (x2 + 1 - ((x1 + 1) + L)))
      BY <2>11, <2>12, <3>2, <3>4, <3>5
    <3>7. z + d = (k + 1) * d /\ d = R - L
      BY <1>22, <3>1
    <3>8. (x1 + z) + (R + (x2 + 1 - ((x1 + 1) + L))) = x2 + (z + d)
      BY <3>7
    <3>. QED
      BY <3>4, <3>6, <3>7, <3>8
  <2>. QED
    BY <1>13, <1>23, <2>1, <2>10, <2>12, <2>13
<1>26. \A k \in 0 .. n : k \in C
  BY <1>24, <1>25, Induct, Zenon
<1>27. n \in C
  BY <1>26
<1>28. out = o \o f[n]
  BY <1>0, <1>18, <1>19
<1>29. redacted_body_len(Len(bytes), Len(found), Len(needle)) = B + n * d
  BY <1>1, <1>2, <1>5, <1>14, <1>22 DEF redacted_body_len
<1>. QED
  BY <1>1, <1>5, <1>10, <1>23, <1>27, <1>28, <1>29

\* What one pass does to the bytes: it takes out occurrences of the needle, with all
\* of them that overlap one, and nothing else.
Redacts(bytes, copy, needle) ==
    \E src, gone :
        /\ Copied(bytes, copy, src, Len(bytes), gone)
        /\ Occurs(bytes, needle) \subseteq gone
        /\ \A p \in gone : \E r \in Occurs(bytes, needle) : p \in r .. (r + Len(needle) - 1)

LEMMA CopiesAll ==
    ASSUME NEW bytes \in Seq(Byte)
    PROVE  \E src : Copied(bytes, bytes, src, Len(bytes), {})
<1>1. PICK B \in Nat : B = Len(bytes)
  OBVIOUS
<1>2. Len(<<>>) = 0 /\ 1 \in Nat /\ 0 < 1 /\ 1 <= B + 1 /\ B <= Len(bytes)
  BY <1>1
<1>3. PICK src : Copied(bytes, <<>> \o SubSeq(bytes, 1, B), src, B, {} \union (0 + 1) .. (1 - 1))
  BY <1>2, CopiesNothing, CopiesText
<1>4. SubSeq(bytes, 1, B) = bytes
  BY <1>1
<1>5. <<>> \o bytes = bytes
  BY ConcatEmptySeq
<1>6. {} \union (0 + 1) .. (1 - 1) = {}
  OBVIOUS
<1>. QED
  BY <1>1, <1>3, <1>4, <1>5, <1>6

LEMMA FoundIsGone ==
    ASSUME NEW bytes \in Seq(Byte), NEW needle \in Seq(Char), needle # <<>>,
           NEW found, Found(bytes, needle, found), NEW gone,
           gone = GoneTo(needle, found, Len(found))
    PROVE  /\ Occurs(bytes, needle) \subseteq gone
           /\ \A p \in gone : \E r \in Occurs(bytes, needle) : p \in r .. (r + Len(needle) - 1)
<1>1. PICK n \in Nat, L \in Nat, B \in Nat : n = Len(found) /\ L = Len(needle) /\ B = Len(bytes)
  BY DEF Found
<1>2. \A k \in 1 .. n : found[k] \in 1 .. B /\ Spells(bytes, found[k], needle)
  BY <1>1 DEF Found
<1>3. ASSUME NEW r \in Occurs(bytes, needle) PROVE r \in gone
  <2>1. r \in 1 .. B /\ Spells(bytes, r, needle)
    BY <1>1 DEF Occurs
  <2>2. PICK k \in 1 .. n : found[k] <= r /\ r < found[k] + L
    BY <1>1, <2>1 DEF Found
  <2>. QED
    BY <1>1, <2>1, <2>2 DEF GoneTo
<1>4. ASSUME NEW p \in gone
      PROVE  \E r \in Occurs(bytes, needle) : p \in r .. (r + L - 1)
  <2>1. PICK k \in 1 .. n : p \in Nat /\ found[k] <= p /\ p < found[k] + L
    BY <1>1 DEF GoneTo
  <2>2. found[k] \in Occurs(bytes, needle)
    BY <1>1, <1>2 DEF Occurs
  <2>3. p \in found[k] .. (found[k] + L - 1)
    BY <1>2, <2>1
  <2>. QED
    BY <2>2, <2>3
<1>. QED
  BY <1>1, <1>3, <1>4

LEMMA FoundNothing ==
    ASSUME NEW bytes \in Seq(Byte), NEW needle \in Seq(Char), needle # <<>>,
           NEW found, Found(bytes, needle, found)
    PROVE  found = <<>> <=> Occurs(bytes, needle) = {}
<1>1. PICK n \in Nat : n = Len(found) /\ found \in Seq(1 .. Len(bytes))
  BY DEF Found
<1>2. CASE found = <<>>
  <2>1. 1 .. Len(found) = {}
    BY <1>2
  <2>. QED
    BY <1>2, <2>1 DEF Found, Occurs
<1>3. CASE found # <<>>
  <2>1. n # 0
    BY <1>1, <1>3, EmptySeq
  <2>2. 1 \in 1 .. n
    BY <2>1
  <2>3. found[1] \in 1 .. Len(bytes) /\ Spells(bytes, found[1], needle)
    BY <1>1, <2>2 DEF Found
  <2>. QED
    BY <1>3, <2>3 DEF Occurs
<1>. QED
  BY <1>2, <1>3

PassSize(bytes, needle) ==
    redacted_body_len(Len(bytes), Disjoint(Text(bytes), needle), Len(needle))

\* One pass, from outside (redact_verbatim_bytes).
LEMMA OnePass ==
    ASSUME NEW body, body.ok = TRUE, body.bytes \in Seq(Byte), NEW needle \in Seq(Char),
           Occurs(body.bytes, needle) # {}
    PROVE  \E out : /\ Redacts(body.bytes, out, needle) /\ Len(out) = PassSize(body.bytes, needle)
                    /\ redact_verbatim_bytes(body, needle)
                          = IF PassSize(body.bytes, needle) > MaxBody THEN Failed
                            ELSE [ok |-> TRUE, bytes |-> out]
<1>0. PICK size : size = PassSize(body.bytes, needle)
  OBVIOUS
<1>1. PICK bytes \in Seq(Byte) : bytes = body.bytes
  OBVIOUS
<1>2. needle # <<>>
  BY DEF Occurs
<1>3. PICK found : found = Matches(bytes, needle)
  OBVIOUS
<1>4. Found(bytes, needle, found)
  BY <1>2, <1>3, MatchesAreFound
<1>5. found # <<>>
  BY <1>1, <1>2, <1>4, FoundNothing
<1>6. Disjoint(Text(bytes), needle) = Len(found)
  BY <1>2, <1>4, MostFound
<1>7. found \in Seq(1 .. Len(bytes))
  BY <1>4 DEF Found
<1>8. PICK ends : ends = [k \in 0 .. Len(found) |-> IF k = Len(found) THEN Len(bytes) ELSE found[k + 1] - 1]
  OBVIOUS
<1>9. PICK parts : parts = [k \in DOMAIN found |-> Marker \o SubSeq(bytes, found[k] + Len(needle), ends[k])]
  OBVIOUS
<1>10. PICK out : out = SubSeq(bytes, 1, ends[0]) \o FlattenSeq(parts)
  OBVIOUS
<1>11. Redacted(bytes, needle, found, ends, parts, out)
  BY <1>8, <1>9, <1>10 DEF Redacted
<1>12. redact_verbatim_bytes(body, needle) = IF size > MaxBody THEN Failed ELSE [ok |-> TRUE, bytes |-> out]
  <2>1. size = redacted_body_len(Len(body.bytes), Len(found), Len(needle))
    BY <1>0, <1>1, <1>6 DEF PassSize
  <2>2. 0 \in 0 .. Len(found) /\ DOMAIN found = 1 .. Len(found) /\ \A k \in DOMAIN found : k # 0
    BY <1>7
  <2>3. ends[0] = IF 0 = Len(found) THEN Len(bytes) ELSE found[0 + 1] - 1
    BY <1>8, <2>2
  <2>4. \A k \in DOMAIN found : ends[k] = IF k = Len(found) THEN Len(bytes) ELSE found[k + 1] - 1
    <3>1. ASSUME NEW k \in DOMAIN found PROVE k \in 0 .. Len(found)
      BY <1>7
    <3>. QED
      BY <1>8, <3>1
  <2>5. parts = [k \in DOMAIN found |->
                    Marker \o SubSeq(bytes, IF k = 0 THEN 1 ELSE found[k] + Len(needle),
                                     IF k = Len(found) THEN Len(bytes) ELSE found[k + 1] - 1)]
    BY <1>9, <2>2, <2>4
  <2>. QED
    BY <1>1, <1>2, <1>3, <1>5, <1>10, <2>1, <2>3, <2>5 DEF redact_verbatim_bytes
<1>13. PICK src : Copied(bytes, out, src, Len(bytes), GoneTo(needle, found, Len(found)))
  BY <1>2, <1>4, <1>5, <1>11, TakesOut
<1>14. Len(out) = size
  BY <1>0, <1>1, <1>2, <1>4, <1>5, <1>6, <1>11, TakesOut DEF PassSize
<1>15. Redacts(bytes, out, needle)
  BY <1>2, <1>4, <1>13, FoundIsGone DEF Redacts
<1>. QED
  BY <1>0, <1>1, <1>12, <1>14, <1>15

LEMMA NoPass ==
    ASSUME NEW body, body.ok = TRUE, body.bytes \in Seq(Byte), NEW needle \in Seq(Char),
           Occurs(body.bytes, needle) = {}
    PROVE  redact_verbatim_bytes(body, needle) = body /\ Redacts(body.bytes, body.bytes, needle)
<1>1. redact_verbatim_bytes(body, needle) = body
  <2>1. CASE needle = <<>>
    BY <2>1 DEF redact_verbatim_bytes
  <2>2. CASE needle # <<>>
    <3>1. Found(body.bytes, needle, Matches(body.bytes, needle))
      BY <2>2, MatchesAreFound
    <3>2. Matches(body.bytes, needle) = <<>>
      BY <2>2, <3>1, FoundNothing
    <3>. QED
      BY <2>2, <3>2 DEF redact_verbatim_bytes
  <2>. QED
    BY <2>1, <2>2
<1>. QED
  BY <1>1, CopiesAll DEF Redacts

-----------------------------------------------------------------------------
(* Redaction: what every pass keeps *)

\* Bytes of the text in their order, with the characters they have in it.
Faithful(text, bytes) ==
    /\ bytes \in Seq(Byte)
    /\ \A i, j \in 1 .. Len(bytes) : i < j /\ bytes[j].at # 0 => bytes[i].at < bytes[j].at
    /\ \A i \in 1 .. Len(bytes) : bytes[i].at # 0 =>
          bytes[i].at \in 1 .. Len(text) /\ bytes[i].c = text[bytes[i].at]

LEMMA TaggedIsFaithful ==
    ASSUME NEW text \in Seq(Char)
    PROVE  Faithful(text, Tagged(text))
<1>1. PICK bytes : bytes = Tagged(text)
  OBVIOUS
<1>2. /\ bytes \in Seq(Byte) /\ Len(bytes) = Len(text)
      /\ \A i \in 1 .. Len(text) : bytes[i].c = text[i] /\ bytes[i].at = i
  BY <1>1, TaggedText
<1>. QED
  BY <1>1, <1>2 DEF Faithful

LEMMA StaysFaithful ==
    ASSUME NEW text \in Seq(Char), NEW bytes \in Seq(Byte), NEW copy, NEW needle,
           Faithful(text, bytes), Redacts(bytes, copy, needle)
    PROVE  Faithful(text, copy)
<1>1. PICK src, gone : Copied(bytes, copy, src, Len(bytes), gone)
  BY DEF Redacts
<1>2. PICK l \in Nat, B \in Nat : l = Len(copy) /\ B = Len(bytes)
  BY <1>1 DEF Copied
<1>3. /\ copy \in Seq(Byte)
      /\ \A i \in 1 .. l : src[i] \in 0 .. B
      /\ \A i \in 1 .. l : src[i] = 0 => copy[i].at = 0
      /\ \A i \in 1 .. l : src[i] # 0 => copy[i] = bytes[src[i]]
      /\ \A i, j \in 1 .. l : i < j /\ src[i] # 0 /\ src[j] # 0 => src[i] < src[j]
  BY <1>1, <1>2 DEF Copied
<1>4. ASSUME NEW i \in 1 .. l, copy[i].at # 0 PROVE src[i] \in 1 .. B /\ copy[i] = bytes[src[i]]
  BY <1>3, <1>4
<1>5. ASSUME NEW i \in 1 .. l, NEW j \in 1 .. l, i < j, copy[j].at # 0
      PROVE  copy[i].at < copy[j].at
  <2>1. src[j] \in 1 .. B /\ copy[j] = bytes[src[j]]
    BY <1>4, <1>5
  <2>2. copy[j].at \in Nat
    <3>1. copy[j] \in Byte
      BY <1>2, <1>3
    <3>. QED
      BY <3>1 DEF Byte
  <2>3. CASE copy[i].at = 0
    BY <1>5, <2>2, <2>3
  <2>4. CASE copy[i].at # 0
    <3>1. src[i] \in 1 .. B /\ copy[i] = bytes[src[i]]
      BY <1>4, <2>4
    <3>2. src[i] < src[j]
      BY <1>3, <1>5, <2>1, <3>1
    <3>3. bytes[src[j]].at # 0
      BY <1>5, <2>1
    <3>. QED
      BY <1>2, <2>1, <3>1, <3>2, <3>3 DEF Faithful
  <2>. QED
    BY <2>3, <2>4
<1>6. ASSUME NEW i \in 1 .. l, copy[i].at # 0
      PROVE  copy[i].at \in 1 .. Len(text) /\ copy[i].c = text[copy[i].at]
  <2>1. src[i] \in 1 .. B /\ copy[i] = bytes[src[i]]
    BY <1>4, <1>6
  <2>. QED
    BY <1>2, <1>6, <2>1 DEF Faithful
<1>. QED
  BY <1>2, <1>3, <1>5, <1>6 DEF Faithful

\* The needle is nowhere but where a marker is part of it.
NoneLeft(bytes, needle) ==
    \A r \in Occurs(bytes, needle) : \E k \in 0 .. (Len(needle) - 1) : bytes[r + k].at = 0

\* What is copied without a marker in it was there.
LEMMA CopiedRun ==
    ASSUME NEW bytes \in Seq(Byte), NEW copy, NEW src, NEW n, NEW gone,
           Copied(bytes, copy, src, n, gone), NEW needle \in Seq(Char),
           NEW r \in Occurs(copy, needle),
           \A k \in 0 .. (Len(needle) - 1) : src[r + k] # 0
    PROVE  /\ src[r] \in Occurs(bytes, needle) /\ src[r] \notin gone
           /\ \A k \in 0 .. (Len(needle) - 1) : src[r + k] = src[r] + k /\ copy[r + k] = bytes[src[r] + k]
<1>1. PICK l \in Nat, B \in Nat, L \in Nat : l = Len(copy) /\ B = Len(bytes) /\ L = Len(needle)
  BY DEF Copied
<1>2. /\ copy \in Seq(Byte) /\ n \in 0 .. B
      /\ \A i \in 1 .. l : src[i] \in 0 .. n /\ src[i] \notin gone
      /\ \A i \in 1 .. l : src[i] # 0 => copy[i] = bytes[src[i]]
      /\ \A i \in 1 .. l - 1 : src[i] # 0 /\ src[i + 1] # 0 => src[i + 1] = src[i] + 1
  BY <1>1 DEF Copied
<1>3. needle # <<>>
  BY DEF Occurs
<1>4. L >= 1
  BY <1>1, <1>3, EmptySeq
<1>5. r \in 1 .. l /\ r + L - 1 <= l
  BY <1>1, <1>3 DEF Occurs, Spells
<1>6. \A k \in 1 .. L : copy[r + k - 1].c = needle[k]
  <2>1. Spells(copy, r, needle)
    BY <1>3 DEF Occurs
  <2>2. DOMAIN needle = 1 .. L
    BY <1>1
  <2>. QED
    BY <2>1, <2>2 DEF Spells
<1>7. \A k \in 0 .. L - 1 : src[r + k] # 0
  BY <1>1
<1>8. PICK P : P = {k \in 0 .. L - 1 : src[r + k] = src[r] + k}
  OBVIOUS
<1>9. 0 \in P
  <2>1. r + 0 = r /\ 0 \in 0 .. L - 1 /\ src[r] \in 0 .. n /\ n \in Nat
    BY <1>2, <1>4, <1>5
  <2>2. src[r] + 0 = src[r]
    BY <2>1
  <2>. QED
    BY <1>8, <2>1, <2>2
<1>10. ASSUME NEW k \in 0 .. (L - 1) - 1, k \in P PROVE k + 1 \in P
  <2>1. k \in 0 .. L - 1 /\ k + 1 \in 0 .. L - 1
    BY <1>4
  <2>2. src[r + k] # 0 /\ src[r + (k + 1)] # 0
    BY <1>7, <2>1
  <2>3. r + k \in 1 .. l - 1 /\ r + (k + 1) = (r + k) + 1
    BY <1>5, <2>1
  <2>4. src[r + (k + 1)] = src[r + k] + 1
    BY <1>2, <2>2, <2>3
  <2>5. src[r + k] = src[r] + k
    BY <1>8, <1>10
  <2>6. src[r] \in Nat
    BY <1>2, <1>5
  <2>7. (src[r] + k) + 1 = src[r] + (k + 1)
    <3>1. \A u, v \in Nat : (u + v) + 1 = u + (v + 1)
      OBVIOUS
    <3>2. k \in Nat
      OBVIOUS
    <3>. QED
      BY <2>6, <3>1, <3>2
  <2>. QED
    BY <1>8, <2>1, <2>4, <2>5, <2>7
<1>11. L - 1 \in Nat
  BY <1>4
<1>12. \A k \in 0 .. L - 1 : k \in P
  BY <1>9, <1>10, <1>11, Induct, Zenon
<1>13. ASSUME NEW k \in 0 .. L - 1
       PROVE  src[r + k] = src[r] + k /\ copy[r + k] = bytes[src[r] + k] /\ src[r] + k <= B
  <2>1. src[r + k] = src[r] + k /\ src[r + k] # 0
    BY <1>7, <1>8, <1>12
  <2>2. r + k \in 1 .. l
    BY <1>5
  <2>3. src[r + k] \in 0 .. n /\ copy[r + k] = bytes[src[r + k]]
    BY <1>2, <2>1, <2>2
  <2>. QED
    BY <1>2, <2>1, <2>3
<1>14. src[r] \in 1 .. B /\ src[r] \notin gone
  <2>1. src[r + 0] # 0 /\ r + 0 = r
    BY <1>4, <1>5, <1>7
  <2>. QED
    BY <1>2, <1>5, <2>1
<1>15. Spells(bytes, src[r], needle)
  <2>1. src[r] + L - 1 <= B
    <3>1. L - 1 \in 0 .. L - 1
      BY <1>4
    <3>2. src[r] + (L - 1) <= B
      BY <1>13, <3>1
    <3>. QED
      BY <1>14, <3>2
  <2>2. ASSUME NEW k \in 1 .. L PROVE bytes[src[r] + k - 1].c = needle[k]
    <3>1. k - 1 \in 0 .. L - 1 /\ r + (k - 1) = r + k - 1 /\ src[r] + (k - 1) = src[r] + k - 1
      BY <1>5, <1>14
    <3>2. copy[r + (k - 1)] = bytes[src[r] + (k - 1)]
      BY <1>13, <3>1
    <3>. QED
      BY <1>6, <3>1, <3>2
  <2>3. DOMAIN needle = 1 .. L
    BY <1>1
  <2>. QED
    BY <1>1, <2>1, <2>2, <2>3 DEF Spells
<1>. QED
  BY <1>1, <1>3, <1>13, <1>14, <1>15 DEF Occurs

\* No needle is left by its own pass.
LEMMA PassLeavesNone ==
    ASSUME NEW bytes \in Seq(Byte), NEW copy, NEW needle \in Seq(Char),
           Redacts(bytes, copy, needle)
    PROVE  NoneLeft(copy, needle)
<1>1. PICK src, gone : Copied(bytes, copy, src, Len(bytes), gone) /\ Occurs(bytes, needle) \subseteq gone
  BY DEF Redacts
<1>2. SUFFICES ASSUME NEW r \in Occurs(copy, needle),
                      \A k \in 0 .. (Len(needle) - 1) : copy[r + k].at # 0
               PROVE  FALSE
  BY DEF NoneLeft
<1>3. ASSUME NEW k \in 0 .. (Len(needle) - 1) PROVE src[r + k] # 0
  <2>1. r + k \in 1 .. Len(copy)
    BY DEF Occurs, Spells
  <2>. QED
    BY <1>1, <1>2, <2>1 DEF Copied
<1>4. src[r] \in Occurs(bytes, needle) /\ src[r] \notin gone
  BY <1>1, <1>3, CopiedRun
<1>. QED
  BY <1>1, <1>4

\* A later pass brings none back.
LEMMA NoneComesBack ==
    ASSUME NEW bytes \in Seq(Byte), NEW copy, NEW needle \in Seq(Char), NEW other,
           Redacts(bytes, copy, other), NoneLeft(bytes, needle)
    PROVE  NoneLeft(copy, needle)
<1>1. PICK src, gone : Copied(bytes, copy, src, Len(bytes), gone)
  BY DEF Redacts
<1>2. SUFFICES ASSUME NEW r \in Occurs(copy, needle),
                      \A k \in 0 .. (Len(needle) - 1) : copy[r + k].at # 0
               PROVE  FALSE
  BY DEF NoneLeft
<1>3. ASSUME NEW k \in 0 .. (Len(needle) - 1) PROVE src[r + k] # 0
  <2>1. r + k \in 1 .. Len(copy)
    BY DEF Occurs, Spells
  <2>. QED
    BY <1>1, <1>2, <2>1 DEF Copied
<1>4. src[r] \in Occurs(bytes, needle)
  BY <1>1, <1>3, CopiedRun
<1>5. \A k \in 0 .. (Len(needle) - 1) : copy[r + k] = bytes[src[r] + k]
  BY <1>1, <1>3, CopiedRun
<1>. QED
  BY <1>2, <1>4, <1>5 DEF NoneLeft

-----------------------------------------------------------------------------
(* Redaction: nothing but the credential is taken out *)

\* The bytes of no occurrence of the needle in the text are the place p.
Spared(text, needle, p) ==
    \A r \in Occurs(Tagged(text), needle) : p \notin r .. (r + Len(needle) - 1)

\* After one pass: a stretch of the text that was side by side still is, and a marker
\* separates it from the next.
Stretches(bytes) ==
    /\ \A i \in 1 .. Len(bytes) - 1 :
          bytes[i].at # 0 /\ bytes[i + 1].at # 0 => bytes[i + 1].at = bytes[i].at + 1
    /\ \A i \in 1 .. Len(bytes) - 1 : bytes[i].at # 0 /\ bytes[i + 1].at = 0 => bytes[i + 1].c = "["
    /\ \A i \in 1 .. Len(bytes) - 1 : bytes[i].at = 0 /\ bytes[i + 1].at # 0 => bytes[i].c = "]"

LEMMA FirstPassKeeps ==
    ASSUME NEW text \in Seq(Char), NEW copy, NEW needle, Redacts(Tagged(text), copy, needle)
    PROVE  /\ Stretches(copy)
           /\ \A p \in 1 .. Len(text) :
                 Spared(text, needle, p) => \E i \in 1 .. Len(copy) : copy[i].at = p
<1>1. PICK bytes : bytes = Tagged(text)
  OBVIOUS
<1>2. PICK B \in Nat : B = Len(text)
  OBVIOUS
<1>3. /\ bytes \in Seq(Byte) /\ Len(bytes) = B
      /\ \A i \in 1 .. B : bytes[i].at = i
  BY <1>1, <1>2, TaggedText
<1>4. PICK src, gone :
          /\ Copied(bytes, copy, src, B, gone)
          /\ \A p \in gone : \E r \in Occurs(bytes, needle) : p \in r .. (r + Len(needle) - 1)
  BY <1>1, <1>3 DEF Redacts
<1>5. PICK l \in Nat : l = Len(copy)
  BY <1>4 DEF Copied
<1>6. ASSUME NEW i \in 1 .. l PROVE src[i] = copy[i].at
  <2>1. CASE src[i] = 0
    BY <1>4, <1>5, <2>1 DEF Copied
  <2>2. CASE src[i] # 0
    <3>1. src[i] \in 0 .. B /\ copy[i] = bytes[src[i]]
      BY <1>4, <1>5, <2>2 DEF Copied
    <3>2. src[i] \in 1 .. B
      BY <2>2, <3>1
    <3>. QED
      BY <1>3, <3>1, <3>2
  <2>. QED
    BY <2>1, <2>2
<1>7. ASSUME NEW i \in 1 .. l - 1
      PROVE  /\ copy[i].at # 0 /\ copy[i + 1].at # 0 => copy[i + 1].at = copy[i].at + 1
             /\ copy[i].at # 0 /\ copy[i + 1].at = 0 => copy[i + 1].c = "["
             /\ copy[i].at = 0 /\ copy[i + 1].at # 0 => copy[i].c = "]"
  <2>1. i \in 1 .. l /\ i + 1 \in 1 .. l /\ i # l /\ (i + 1) - 1 = i
    BY <1>5
  <2>2. src[i] = copy[i].at /\ src[i + 1] = copy[i + 1].at
    BY <1>6, <2>1
  <2>3. src[i] # 0 /\ src[i + 1] # 0 => src[i + 1] = src[i] + 1
    BY <1>4, <1>5 DEF Copied
  <2>4. src[i] # 0 /\ src[i + 1] = 0 => copy[i + 1].c = "["
    <3>1. src[i + 1] = 0 /\ (i + 1 = 1 \/ src[(i + 1) - 1] # 0) => copy[i + 1].c = "["
      BY <1>4, <1>5, <2>1 DEF Copied
    <3>. QED
      BY <2>1, <3>1
  <2>5. src[i] = 0 /\ src[i + 1] # 0 => copy[i].c = "]"
    BY <1>4, <1>5, <2>1 DEF Copied
  <2>. QED
    BY <2>2, <2>3, <2>4, <2>5
<1>8. ASSUME NEW p \in 1 .. B, Spared(text, needle, p) PROVE \E i \in 1 .. l : copy[i].at = p
  <2>1. p \notin gone
    BY <1>1, <1>4, <1>8 DEF Spared
  <2>2. PICK i \in 1 .. l : src[i] = p
    BY <1>4, <1>5, <2>1 DEF Copied
  <2>. QED
    BY <1>6, <2>2
<1>. QED
  BY <1>2, <1>5, <1>7, <1>8 DEF Stretches

\* An occurrence of a needle without brackets is of the text, or of a marker, as a
\* whole: with one byte of the text in it, it was an occurrence in the text.
LEMMA WhollyOfTheText ==
    ASSUME NEW text \in Seq(Char), NEW bytes, Faithful(text, bytes), Stretches(bytes),
           NEW needle \in Seq(Char \ {"[", "]"}), needle \in Seq(Char),
           NEW r \in Occurs(bytes, needle), NEW k \in 0 .. Len(needle) - 1, bytes[r + k].at # 0
    PROVE  ~Spared(text, needle, bytes[r + k].at)
<1>1. PICK B \in Nat, L \in Nat : B = Len(bytes) /\ L = Len(needle) /\ bytes \in Seq(Byte)
  BY DEF Faithful
<1>2. needle # <<>>
  BY DEF Occurs
<1>3. r \in 1 .. B /\ r + L - 1 <= B /\ L >= 1
  BY <1>1, <1>2, EmptySeq DEF Occurs, Spells
<1>4. \A j \in 1 .. L : bytes[r + j - 1].c = needle[j] /\ needle[j] \notin {"[", "]"}
  <2>1. Spells(bytes, r, needle)
    BY <1>2 DEF Occurs
  <2>2. DOMAIN needle = 1 .. L
    BY <1>1
  <2>3. \A j \in 1 .. L : needle[j] \in Char \ {"[", "]"}
    BY <1>1
  <2>. QED
    BY <2>1, <2>2, <2>3 DEF Spells
<1>5. ASSUME NEW j \in 0 .. L - 1
      PROVE  r + j \in 1 .. B /\ bytes[r + j].c \notin {"[", "]"} /\ bytes[r + j].c = needle[j + 1]
  <2>1. j + 1 \in 1 .. L /\ r + (j + 1) - 1 = r + j /\ r + j \in 1 .. B
    BY <1>3
  <2>. QED
    BY <1>4, <2>1
<1>6. ASSUME NEW j \in 0 .. (L - 1) - 1
      PROVE  /\ bytes[r + j].at # 0 <=> bytes[r + (j + 1)].at # 0
             /\ bytes[r + j].at # 0 => bytes[r + (j + 1)].at = bytes[r + j].at + 1
  <2>1. r + j \in 1 .. B - 1 /\ r + (j + 1) = (r + j) + 1 /\ j \in 0 .. L - 1 /\ j + 1 \in 0 .. L - 1
    BY <1>3
  <2>2. bytes[r + j].c \notin {"[", "]"} /\ bytes[r + (j + 1)].c \notin {"[", "]"}
    BY <1>5, <2>1
  <2>3. /\ bytes[r + j].at # 0 /\ bytes[(r + j) + 1].at # 0 => bytes[(r + j) + 1].at = bytes[r + j].at + 1
        /\ bytes[r + j].at # 0 /\ bytes[(r + j) + 1].at = 0 => bytes[(r + j) + 1].c = "["
        /\ bytes[r + j].at = 0 /\ bytes[(r + j) + 1].at # 0 => bytes[r + j].c = "]"
    BY <1>1, <2>1 DEF Stretches
  <2>. QED
    BY <2>1, <2>2, <2>3
<1>7. L - 1 \in Nat /\ k \in 0 .. L - 1
  BY <1>1, <1>3
<1>8. bytes[r].at # 0
  <2>1. PICK P : P = {j \in 0 .. L - 1 : bytes[r + j].at = 0}
    OBVIOUS
  <2>2. SUFFICES ASSUME bytes[r].at = 0 PROVE FALSE
    OBVIOUS
  <2>3. 0 \in P
    <3>1. r + 0 = r /\ 0 \in 0 .. L - 1
      BY <1>3
    <3>. QED
      BY <2>1, <2>2, <3>1
  <2>4. ASSUME NEW j \in 0 .. (L - 1) - 1, j \in P PROVE j + 1 \in P
    <3>1. j + 1 \in 0 .. L - 1
      OBVIOUS
    <3>. QED
      BY <1>6, <2>1, <2>4, <3>1
  <2>5. \A j \in 0 .. L - 1 : j \in P
    BY <1>7, <2>3, <2>4, Induct, Zenon
  <2>. QED
    BY <1>7, <2>1, <2>5
<1>9. PICK a : a = bytes[r].at
  OBVIOUS
<1>10. a \in 1 .. Len(text)
  BY <1>1, <1>3, <1>8, <1>9 DEF Faithful
<1>11. \A j \in 0 .. L - 1 : bytes[r + j].at = a + j
  <2>1. PICK P : P = {j \in 0 .. L - 1 : bytes[r + j].at = a + j}
    OBVIOUS
  <2>2. 0 \in P
    <3>1. r + 0 = r /\ 0 \in 0 .. L - 1 /\ a + 0 = a
      BY <1>3, <1>10
    <3>. QED
      BY <1>9, <2>1, <3>1
  <2>3. ASSUME NEW j \in 0 .. (L - 1) - 1, j \in P PROVE j + 1 \in P
    <3>1. j + 1 \in 0 .. L - 1 /\ bytes[r + j].at = a + j /\ a + j # 0 /\ (a + j) + 1 = a + (j + 1)
      BY <1>10, <2>1, <2>3
    <3>2. bytes[r + (j + 1)].at = bytes[r + j].at + 1
      BY <1>6, <3>1
    <3>. QED
      BY <2>1, <3>1, <3>2
  <2>4. \A j \in 0 .. L - 1 : j \in P
    BY <1>7, <2>2, <2>3, Induct, Zenon
  <2>. QED
    BY <2>1, <2>4
<1>12. ASSUME NEW j \in 0 .. L - 1
       PROVE  a + j \in 1 .. Len(text) /\ text[a + j] = needle[j + 1]
  <2>1. bytes[r + j].at = a + j /\ a + j # 0
    BY <1>10, <1>11
  <2>2. r + j \in 1 .. B /\ bytes[r + j].c = needle[j + 1]
    BY <1>5
  <2>. QED
    BY <1>1, <2>1, <2>2 DEF Faithful
<1>13. a \in Occurs(Tagged(text), needle)
  <2>1. PICK tagged : tagged = Tagged(text)
    OBVIOUS
  <2>2. Len(tagged) = Len(text) /\ \A i \in 1 .. Len(text) : tagged[i].c = text[i]
    BY <2>1, TaggedText
  <2>3. a + L - 1 <= Len(text)
    <3>1. a + (L - 1) \in 1 .. Len(text)
      BY <1>7, <1>12
    <3>. QED
      BY <1>10, <3>1
  <2>4. ASSUME NEW j \in 1 .. L PROVE tagged[a + j - 1].c = needle[j]
    <3>1. j - 1 \in 0 .. L - 1 /\ a + (j - 1) = a + j - 1 /\ (j - 1) + 1 = j
      BY <1>10
    <3>. QED
      BY <1>12, <2>2, <3>1
  <2>5. DOMAIN needle = 1 .. L
    BY <1>1
  <2>6. Spells(tagged, a, needle)
    BY <1>1, <2>2, <2>3, <2>4, <2>5 DEF Spells
  <2>. QED
    BY <1>2, <1>10, <2>1, <2>2, <2>6 DEF Occurs
<1>14. bytes[r + k].at \in a .. (a + L - 1)
  BY <1>7, <1>10, <1>11
<1>. QED
  BY <1>1, <1>13, <1>14 DEF Spared

LEMMA SecondPassKeeps ==
    ASSUME NEW text \in Seq(Char), NEW bytes, Faithful(text, bytes), Stretches(bytes),
           NEW needle \in Seq(Char \ {"[", "]"}), needle \in Seq(Char),
           NEW copy, Redacts(bytes, copy, needle),
           NEW i \in 1 .. Len(bytes), bytes[i].at # 0, Spared(text, needle, bytes[i].at)
    PROVE  \E j \in 1 .. Len(copy) : copy[j].at = bytes[i].at
<1>1. PICK src, gone :
          /\ Copied(bytes, copy, src, Len(bytes), gone)
          /\ \A p \in gone : \E r \in Occurs(bytes, needle) : p \in r .. (r + Len(needle) - 1)
  BY DEF Redacts
<1>2. i \notin gone
  <2>1. SUFFICES ASSUME i \in gone PROVE FALSE
    OBVIOUS
  <2>2. PICK r \in Occurs(bytes, needle) : i \in r .. (r + Len(needle) - 1)
    BY <1>1, <2>1
  <2>3. r \in Nat /\ Len(needle) \in Nat /\ i \in Nat
    BY <2>2 DEF Occurs
  <2>4. i - r \in 0 .. Len(needle) - 1 /\ r + (i - r) = i
    BY <2>2, <2>3
  <2>5. ~Spared(text, needle, bytes[r + (i - r)].at)
    BY <2>4, WhollyOfTheText
  <2>. QED
    BY <2>4, <2>5
<1>3. PICK j \in 1 .. Len(copy) : src[j] = i
  BY <1>1, <1>2 DEF Copied
<1>4. src[j] # 0
  BY <1>3
<1>5. copy[j] = bytes[i]
  BY <1>1, <1>3, <1>4 DEF Copied
<1>. QED
  BY <1>5

NoBrackets == Char \ {"[", "]"}

LEMMA EncodedCharHasNoBrackets ==
    ASSUME NEW c \in Octet
    PROVE  Encoded(c) \in Seq(NoBrackets)
<1>1. CASE c = " "
  <2>1. Encoded(c) = <<"+">>
    <3>1. " " \notin Unreserved
      BY Escapes DEF Blank
    <3>. QED
      BY <1>1, <3>1 DEF Encoded
  <2>2. "+" \in NoBrackets
    BY Literals DEF NoBrackets
  <2>. QED
    BY <2>1, <2>2
<1>2. CASE c # " " /\ c \notin Unreserved
  <2>1. PICK h : h = Hex[c]
    OBVIOUS
  <2>2. PICK d, e : d = h[1] /\ e = h[2]
    OBVIOUS
  <2>3. h = <<d, e>> /\ d \in NoBrackets /\ e \in NoBrackets
    <3>1. HexDigits \subseteq NoBrackets
      BY OctetsAreChars, Escapes DEF NoBrackets
    <3>. QED
      BY <2>1, <2>2, <3>1, Escapes
  <2>4. "%" \in NoBrackets
    BY Literals DEF NoBrackets
  <2>5. <<"%">> \in Seq(NoBrackets) /\ <<d, e>> \in Seq(NoBrackets)
    BY <2>3, <2>4
  <2>6. Encoded(c) = <<"%">> \o h
    BY <1>2, <2>1 DEF Encoded
  <2>. QED
    BY <2>3, <2>5, <2>6
<1>3. CASE c # " " /\ c \in Unreserved
  <2>1. Encoded(c) = <<c>>
    BY <1>3 DEF Encoded
  <2>2. c \notin {"[", "]"} /\ c \in Char
    BY <1>3, Escapes, OctetsAreChars
  <2>3. c \in NoBrackets
    BY <2>2 DEF NoBrackets
  <2>. QED
    BY <2>1, <2>3
<1>. QED
  BY <1>1, <1>2, <1>3

LEMMA EncodedHasNoBrackets ==
    ASSUME NEW text \in Seq(Octet)
    PROVE  push_query_encoded(text) \in Seq(NoBrackets)
<1>1. PICK N \in Nat : N = Len(text) /\ DOMAIN text = 1 .. N
  OBVIOUS
<1>2. PICK ss : ss = [i \in DOMAIN text |-> Encoded(text[i])]
  OBVIOUS
<1>3. push_query_encoded(text) = FlattenSeq(ss)
  BY <1>2 DEF push_query_encoded, Encoded
<1>4. ASSUME NEW i \in 1 .. N PROVE ss[i] \in Seq(NoBrackets)
  <2>1. text[i] \in Octet
    BY <1>1
  <2>2. ss[i] = Encoded(text[i])
    BY <1>1, <1>2
  <2>. QED
    BY <2>1, <2>2, EncodedCharHasNoBrackets
<1>5. ss \in Seq(Seq(NoBrackets))
  <2>1. ss \in [1 .. N -> Seq(NoBrackets)]
    BY <1>1, <1>2, <1>4
  <2>. QED
    BY <2>1
<1>. QED
  BY <1>3, <1>5, FlattenedType

LEMMA NothingEncoded == push_query_encoded(<<>>) = <<>>
<1>1. PICK ss : ss = [i \in DOMAIN <<>> |-> Encoded(<<>>[i])]
  OBVIOUS
<1>2. push_query_encoded(<<>>) = FlattenSeq(ss)
  BY <1>1 DEF push_query_encoded, Encoded
<1>3. ss = <<>>
  BY <1>1
<1>4. ss \in Seq(Seq(Char)) /\ Len(ss) = 0
  BY <1>3
<1>5. PICK f \in [0 .. Len(ss) -> Seq(Char)] :
          /\ f[0] = <<>>
          /\ \A i \in 1 .. Len(ss) : f[i] = f[i - 1] \o ss[i]
          /\ FlattenSeq(ss) = f[Len(ss)]
  BY <1>4, Flattened
<1>. QED
  BY <1>2, <1>4, <1>5

IsBody(body, text) == body.ok = TRUE /\ body.bytes = Tagged(text)
IsPass(out, body, needle) == out = redact_verbatim_bytes(body, needle)
Fits(text, needle) ==
    Len(text) + Disjoint(text, needle) * (Len(Redaction) - Len(needle)) <= MaxBody

\* A pass that does not fail.
LEMMA AnyPass ==
    ASSUME NEW body, body.ok = TRUE, body.bytes \in Seq(Byte), NEW needle \in Seq(Char),
           NEW out, IsPass(out, body, needle), out.ok
    PROVE  /\ out.ok = TRUE /\ out.bytes \in Seq(Byte)
           /\ Redacts(body.bytes, out.bytes, needle)
           /\ Len(out.bytes) = Len(body.bytes) \/ Len(out.bytes) <= MaxBody
<1>0. out = redact_verbatim_bytes(body, needle)
  BY DEF IsPass
<1>1. CASE Occurs(body.bytes, needle) = {}
  <2>1. out = body /\ Redacts(body.bytes, body.bytes, needle)
    BY <1>0, <1>1, NoPass
  <2>. QED
    BY <2>1
<1>2. CASE Occurs(body.bytes, needle) # {}
  <2>1. PICK size : size = PassSize(body.bytes, needle)
    OBVIOUS
  <2>2. PICK bytes : /\ Redacts(body.bytes, bytes, needle) /\ Len(bytes) = size
                     /\ redact_verbatim_bytes(body, needle)
                           = IF size > MaxBody THEN Failed ELSE [ok |-> TRUE, bytes |-> bytes]
    BY <1>2, <2>1, OnePass
  <2>3. ~Failed.ok
    BY DEF Failed
  <2>4. ~(size > MaxBody) /\ out = [ok |-> TRUE, bytes |-> bytes]
    BY <1>0, <2>2, <2>3
  <2>5. bytes \in Seq(Byte)
    BY <2>2 DEF Redacts, Copied
  <2>6. Len(bytes) <= MaxBody
    BY <2>2, <2>4, <2>5, FetchAssumption
  <2>. QED
    BY <2>2, <2>4, <2>5, <2>6
<1>. QED
  BY <1>1, <1>2

\* A single pass over the text fails exactly when the body it makes is too long.
LEMMA PassFits ==
    ASSUME NEW text \in Seq(Char), Len(text) <= MaxBody, NEW needle \in Seq(Char),
           NEW body, IsBody(body, text), NEW out, IsPass(out, body, needle)
    PROVE  out.ok <=> Fits(text, needle)
<1>0. body.ok = TRUE /\ body.bytes = Tagged(text) /\ out = redact_verbatim_bytes(body, needle)
  BY DEF IsBody, IsPass
<1>1. /\ body.ok = TRUE /\ body.bytes = Tagged(text) /\ body.bytes \in Seq(Byte)
      /\ Len(body.bytes) = Len(text) /\ Text(body.bytes) = text
  BY <1>0, TaggedText
<1>2. PICK size : size = Len(text) + Disjoint(text, needle) * (Len(Redaction) - Len(needle))
  OBVIOUS
<1>3. CASE Occurs(body.bytes, needle) = {}
  <2>1. out.ok = TRUE
    BY <1>0, <1>1, <1>3, NoPass
  <2>2. Disjoint(text, needle) = 0
    BY <1>1, <1>3, NothingFound
  <2>3. Len(Redaction) - Len(needle) \in Int
    BY MarkerBytes
  <2>4. size = Len(text)
    BY <1>2, <2>2, <2>3
  <2>. QED
    BY <1>2, <2>1, <2>4 DEF Fits
<1>4. CASE Occurs(body.bytes, needle) # {}
  <2>1. size = PassSize(body.bytes, needle)
    BY <1>1, <1>2 DEF redacted_body_len, PassSize
  <2>2. PICK bytes : /\ Redacts(body.bytes, bytes, needle) /\ Len(bytes) = size
                     /\ redact_verbatim_bytes(body, needle)
                           = IF size > MaxBody THEN Failed ELSE [ok |-> TRUE, bytes |-> bytes]
    BY <1>1, <1>4, <2>1, OnePass
  <2>3. size \in Nat /\ MaxBody \in Nat
    BY <2>2, FetchAssumption DEF Redacts, Copied
  <2>5. CASE size > MaxBody
    <3>1. out = Failed /\ ~Fits(text, needle)
      BY <1>0, <1>2, <2>2, <2>3, <2>5 DEF Fits
    <3>2. ~out.ok
      BY <3>1 DEF Failed
    <3>. QED
      BY <3>1, <3>2
  <2>6. CASE size <= MaxBody
    <3>1. out = [ok |-> TRUE, bytes |-> bytes] /\ Fits(text, needle)
      BY <1>0, <1>2, <2>2, <2>3, <2>6 DEF Fits
    <3>. QED
      BY <3>1
  <2>. QED
    BY <2>3, <2>5, <2>6
<1>. QED
  BY <1>3, <1>4

\* The bodies between the passes (redact_fetch_body).
LEMMA PassByPass ==
    ASSUME NEW text, NEW needles, NEW N \in 0 .. 2, Len(needles) = N
    PROVE  \E body :
              /\ body[0] = [ok |-> TRUE, bytes |-> Tagged(text)]
              /\ \A n \in 1 .. N : body[n] = IF body[n - 1].ok
                                             THEN redact_verbatim_bytes(body[n - 1], needles[n]) ELSE Failed
              /\ RedactAll(text, needles) = body[N]
<1>1. PICK b0 : b0 = [ok |-> TRUE, bytes |-> Tagged(text)]
  OBVIOUS
<1>2. PICK b1 : b1 = IF b0.ok THEN redact_verbatim_bytes(b0, needles[1]) ELSE Failed
  OBVIOUS
<1>3. PICK b2 : b2 = IF b1.ok THEN redact_verbatim_bytes(b1, needles[2]) ELSE Failed
  OBVIOUS
<1>4. PICK f : f = [n \in 0 .. N |-> IF n = 0 THEN b0 ELSE IF n = 1 THEN b1 ELSE b2]
  OBVIOUS
<1>. DEFINE Equation(g) == g = [n \in 0 .. Len(needles) |->
                IF n = 0 THEN [ok |-> TRUE, bytes |-> Tagged(text)]
                ELSE LET before == g[n - 1]
                     IN  IF before.ok THEN redact_verbatim_bytes(before, needles[n]) ELSE Failed]
            bodies == CHOOSE g : Equation(g)
<1>5. ASSUME NEW n \in 0 .. N
      PROVE  f[n] = IF n = 0 THEN b0
                    ELSE IF f[n - 1].ok THEN redact_verbatim_bytes(f[n - 1], needles[n]) ELSE Failed
  <2>1. n = 0 \/ n = 1 \/ n = 2
    OBVIOUS
  <2>2. n = 1 => f[n] = b1 /\ f[n - 1] = b0
    BY <1>4
  <2>3. n = 2 => f[n] = b2 /\ f[n - 1] = b1
    BY <1>4
  <2>4. n = 0 => f[n] = b0
    BY <1>4
  <2>. QED
    BY <1>2, <1>3, <2>1, <2>2, <2>3, <2>4
<1>6. Equation(f)
  <2>1. f = [n \in 0 .. N |-> f[n]]
    BY <1>4
  <2>. QED
    BY <1>1, <1>5, <2>1
<1>7. Equation(bodies)
  BY <1>6
<1>8. RedactAll(text, needles) = bodies[Len(needles)]
  BY DEF RedactAll, Redacting
<1>. HIDE DEF bodies
<1>9. ASSUME NEW n \in 0 .. N
      PROVE  bodies[n] = IF n = 0 THEN [ok |-> TRUE, bytes |-> Tagged(text)]
                         ELSE IF bodies[n - 1].ok THEN redact_verbatim_bytes(bodies[n - 1], needles[n]) ELSE Failed
  BY <1>7
<1>10. bodies[0] = [ok |-> TRUE, bytes |-> Tagged(text)]
  <2>1. 0 \in 0 .. N
    OBVIOUS
  <2>. QED
    BY <1>9, <2>1
<1>11. ASSUME NEW n \in 1 .. N
       PROVE  bodies[n] = IF bodies[n - 1].ok THEN redact_verbatim_bytes(bodies[n - 1], needles[n]) ELSE Failed
  <2>1. n \in 0 .. N /\ n # 0
    OBVIOUS
  <2>. QED
    BY <1>9, <2>1
<1>. QED
  BY <1>8, <1>10, <1>11

-----------------------------------------------------------------------------
(* Redaction: all passes *)

\* What redaction for a set of needles must make of a text.
Clean(text, bytes, needles) ==
    /\ Faithful(text, bytes)
    /\ \A needle \in needles : NoneLeft(bytes, needle)
    /\ \A p \in 1 .. Len(text) : (\A needle \in needles : Spared(text, needle, p)) =>
          \E i \in 1 .. Len(bytes) : bytes[i].at = p
    /\ Len(bytes) = Len(text) \/ Len(bytes) <= MaxBody

LEMMA UntouchedIsClean ==
    ASSUME NEW text \in Seq(Char), NEW S, \A needle \in S : Occurs(Tagged(text), needle) = {}
    PROVE  Clean(text, Tagged(text), S)
<1>1. PICK bytes : bytes = Tagged(text)
  OBVIOUS
<1>2. Faithful(text, bytes)
  BY <1>1, TaggedIsFaithful
<1>3. \A needle \in S : NoneLeft(bytes, needle)
  BY <1>1 DEF NoneLeft
<1>4. Len(bytes) = Len(text) /\ \A p \in 1 .. Len(text) : bytes[p].at = p
  BY <1>1, TaggedText
<1>. QED
  BY <1>1, <1>2, <1>3, <1>4 DEF Clean

LEMMA OnePassCleans ==
    ASSUME NEW text \in Seq(Char), NEW needle \in Seq(Char),
           NEW body, IsBody(body, text), NEW out, IsPass(out, body, needle), out.ok
    PROVE  /\ Clean(text, out.bytes, {needle}) /\ Stretches(out.bytes)
           /\ out.ok = TRUE /\ out.bytes \in Seq(Byte)
<1>1. PICK bytes \in Seq(Byte) : bytes = Tagged(text) /\ Len(bytes) = Len(text)
  BY TaggedText
<1>2. body.ok = TRUE /\ body.bytes = bytes
  BY <1>1 DEF IsBody
<1>3. /\ out.ok = TRUE /\ out.bytes \in Seq(Byte) /\ Redacts(bytes, out.bytes, needle)
      /\ Len(out.bytes) = Len(text) \/ Len(out.bytes) <= MaxBody
  BY <1>1, <1>2, AnyPass
<1>4. PICK copy : copy = out.bytes
  OBVIOUS
<1>5. Faithful(text, copy)
  BY <1>1, <1>3, <1>4, TaggedIsFaithful, StaysFaithful
<1>6. NoneLeft(copy, needle)
  BY <1>3, <1>4, PassLeavesNone
<1>7. /\ Stretches(copy)
      /\ \A p \in 1 .. Len(text) : Spared(text, needle, p) => \E i \in 1 .. Len(copy) : copy[i].at = p
  BY <1>1, <1>3, <1>4, FirstPassKeeps
<1>. QED
  BY <1>3, <1>4, <1>5, <1>6, <1>7 DEF Clean

LEMMA TwoPassesClean ==
    ASSUME NEW text \in Seq(Char), NEW first \in Seq(Char), NEW second \in Seq(Char),
           second \in Seq(NoBrackets),
           NEW body, IsBody(body, text), NEW half, IsPass(half, body, first), half.ok,
           NEW out, IsPass(out, half, second), out.ok
    PROVE  Clean(text, out.bytes, {first, second})
<1>1. PICK bytes : bytes = half.bytes
  OBVIOUS
<1>2. /\ Clean(text, bytes, {first}) /\ Stretches(bytes)
      /\ half.ok = TRUE /\ bytes \in Seq(Byte) /\ half.bytes = bytes
  BY <1>1, OnePassCleans
<1>3. PICK copy : copy = out.bytes
  OBVIOUS
<1>4. /\ copy \in Seq(Byte) /\ Redacts(bytes, copy, second)
      /\ Len(copy) = Len(bytes) \/ Len(copy) <= MaxBody
  BY <1>2, <1>3, AnyPass
<1>5. Faithful(text, bytes) /\ NoneLeft(bytes, first)
  BY <1>2 DEF Clean
<1>6. Faithful(text, copy)
  BY <1>2, <1>4, <1>5, StaysFaithful
<1>7. NoneLeft(copy, first)
  BY <1>2, <1>4, <1>5, NoneComesBack
<1>8. NoneLeft(copy, second)
  BY <1>2, <1>4, PassLeavesNone
<1>9. second \in Seq(Char \ {"[", "]"})
  BY DEF NoBrackets
<1>10. ASSUME NEW p \in 1 .. Len(text), Spared(text, first, p), Spared(text, second, p)
       PROVE  \E i \in 1 .. Len(copy) : copy[i].at = p
  <2>1. PICK i \in 1 .. Len(bytes) : bytes[i].at = p
    BY <1>2, <1>10 DEF Clean
  <2>2. bytes[i].at # 0 /\ Spared(text, second, bytes[i].at)
    BY <1>10, <2>1
  <2>3. \E j \in 1 .. Len(copy) : copy[j].at = bytes[i].at
    <3>1. /\ text \in Seq(Char) /\ second \in Seq(Char)
          /\ Faithful(text, bytes) /\ Stretches(bytes) /\ Redacts(bytes, copy, second)
      BY <1>2, <1>4, <1>5
    <3>. QED
      BY <1>9, <2>2, <3>1, SecondPassKeeps
  <2>. QED
    BY <2>1, <2>3
<1>11. Len(copy) = Len(text) \/ Len(copy) <= MaxBody
  BY <1>2, <1>4 DEF Clean
<1>. QED
  BY <1>3, <1>6, <1>7, <1>8, <1>10, <1>11 DEF Clean

\* The needles a set of credentials has: none for an empty credential, one for a
\* header, the raw and the encoded form for a query.
IsNone(needles, credentials) == needles = <<>> /\ credentials \subseteq {<<>>}
IsOne(needles, credentials) == \E n \in Seq(Char) : needles = <<n>> /\ credentials = {n}
AreTwo(needles, credentials) ==
    \E n, m \in Seq(Char) : m \in Seq(NoBrackets) /\ needles = <<n, m>> /\ credentials = {n, m}

LEMMA Absent == \A bytes : Occurs(bytes, <<>>) = {}
BY DEF Occurs

LEMMA RedactedByNone ==
    ASSUME NEW text \in Seq(Char), NEW needles, NEW S, IsNone(needles, S),
           NEW out, out = RedactAll(text, needles)
    PROVE  IsBody(out, text) /\ Clean(text, out.bytes, S)
<1>1. Len(needles) = 0 /\ 0 \in 0 .. 2
  BY DEF IsNone
<1>2. PICK body : /\ body[0] = [ok |-> TRUE, bytes |-> Tagged(text)]
                  /\ RedactAll(text, needles) = body[0]
  BY <1>1, PassByPass
<1>3. IsBody(RedactAll(text, needles), text)
  BY <1>2 DEF IsBody
<1>4. \A n \in S : Occurs(Tagged(text), n) = {}
  BY Absent DEF IsNone
<1>5. Clean(text, Tagged(text), S)
  BY <1>4, UntouchedIsClean
<1>. QED
  BY <1>3, <1>5 DEF IsBody

LEMMA RedactedByOne ==
    ASSUME NEW text \in Seq(Char), NEW needles, NEW n \in Seq(Char), needles = <<n>>
    PROVE  \E body : IsBody(body, text) /\ IsPass(RedactAll(text, needles), body, n)
<1>1. Len(needles) = 1 /\ needles[1] = n /\ 1 \in 0 .. 2 /\ 1 \in 1 .. 1 /\ 1 - 1 = 0
  OBVIOUS
<1>2. PICK body : /\ body[0] = [ok |-> TRUE, bytes |-> Tagged(text)]
                  /\ body[1] = IF body[0].ok THEN redact_verbatim_bytes(body[0], needles[1]) ELSE Failed
                  /\ RedactAll(text, needles) = body[1]
  BY <1>1, PassByPass
<1>3. IsBody(body[0], text) /\ body[0].ok
  BY <1>2 DEF IsBody
<1>4. RedactAll(text, needles) = redact_verbatim_bytes(body[0], n)
  BY <1>1, <1>2, <1>3
<1>. QED
  BY <1>3, <1>4 DEF IsPass

LEMMA RedactedByTwo ==
    ASSUME NEW text \in Seq(Char), NEW needles, NEW n \in Seq(Char), NEW m \in Seq(Char),
           needles = <<n, m>>
    PROVE  \E body, half :
              /\ IsBody(body, text) /\ IsPass(half, body, n)
              /\ half.ok => IsPass(RedactAll(text, needles), half, m)
              /\ ~half.ok => RedactAll(text, needles) = Failed
<1>1. /\ Len(needles) = 2 /\ needles[1] = n /\ needles[2] = m /\ 2 \in 0 .. 2
      /\ 1 \in 1 .. 2 /\ 2 \in 1 .. 2 /\ 1 - 1 = 0 /\ 2 - 1 = 1
  OBVIOUS
<1>2. PICK body : /\ body[0] = [ok |-> TRUE, bytes |-> Tagged(text)]
                  /\ body[1] = IF body[0].ok THEN redact_verbatim_bytes(body[0], needles[1]) ELSE Failed
                  /\ body[2] = IF body[1].ok THEN redact_verbatim_bytes(body[1], needles[2]) ELSE Failed
                  /\ RedactAll(text, needles) = body[2]
  BY <1>1, PassByPass
<1>3. IsBody(body[0], text) /\ body[0].ok
  BY <1>2 DEF IsBody
<1>4. body[1] = redact_verbatim_bytes(body[0], n)
  BY <1>1, <1>2, <1>3
<1>5. IsPass(body[1], body[0], n)
  BY <1>4 DEF IsPass
<1>6. body[1].ok => IsPass(RedactAll(text, needles), body[1], m)
  BY <1>1, <1>2 DEF IsPass
<1>7. ~body[1].ok => RedactAll(text, needles) = Failed
  BY <1>2
<1>. QED
  BY <1>3, <1>5, <1>6, <1>7

LEMMA RedactedText ==
    ASSUME NEW text \in Seq(Char), NEW needles, NEW S,
           IsNone(needles, S) \/ IsOne(needles, S) \/ AreTwo(needles, S),
           RedactAll(text, needles).ok
    PROVE  Clean(text, RedactAll(text, needles).bytes, S)
<1>1. PICK out : out = RedactAll(text, needles)
  OBVIOUS
<1>2. CASE IsNone(needles, S)
  BY <1>2, RedactedByNone
<1>3. CASE IsOne(needles, S)
  <2>1. PICK n \in Seq(Char) : needles = <<n>> /\ S = {n}
    BY <1>3 DEF IsOne
  <2>2. PICK body : IsBody(body, text) /\ IsPass(out, body, n)
    BY <1>1, <2>1, RedactedByOne
  <2>3. out.ok
    BY <1>1
  <2>. QED
    BY <1>1, <2>1, <2>2, <2>3, OnePassCleans
<1>4. CASE AreTwo(needles, S)
  <2>1. PICK n \in Seq(Char), m \in Seq(Char) : m \in Seq(NoBrackets) /\ needles = <<n, m>> /\ S = {n, m}
    BY <1>4 DEF AreTwo
  <2>2. PICK body, half : /\ IsBody(body, text) /\ IsPass(half, body, n)
                          /\ half.ok => IsPass(out, half, m)
                          /\ ~half.ok => out = Failed
    BY <1>1, <2>1, RedactedByTwo
  <2>3. ~Failed.ok
    BY DEF Failed
  <2>4. out.ok /\ half.ok /\ IsPass(out, half, m)
    BY <1>1, <2>2, <2>3
  <2>. QED
    BY <1>1, <2>1, <2>2, <2>4, TwoPassesClean
<1>. QED
  BY <1>2, <1>3, <1>4

LEMMA FitsWithout ==
    ASSUME NEW text \in Seq(Char), Len(text) <= MaxBody, NEW needle \in Seq(Char),
           Occurs(Tagged(text), needle) = {}
    PROVE  Fits(text, needle)
<1>1. Tagged(text) \in Seq(Byte) /\ Text(Tagged(text)) = text
  BY TaggedText
<1>2. Disjoint(text, needle) = 0
  BY <1>1, NothingFound
<1>3. Len(Redaction) - Len(needle) \in Int
  BY MarkerBytes
<1>4. 0 * (Len(Redaction) - Len(needle)) = 0
  BY <1>3
<1>. QED
  BY <1>2, <1>4 DEF Fits

\* Which responses are refused for their size.
LEMMA RedactedFits ==
    ASSUME NEW text \in Seq(Char), Len(text) <= MaxBody, NEW needles, NEW S,
           \/ IsNone(needles, S) \/ IsOne(needles, S)
           \/ AreTwo(needles, S) /\ \A n \in S : Occurs(Tagged(text), n) = {}
    PROVE  RedactAll(text, needles).ok <=> \A n \in S : Fits(text, n)
<1>1. PICK out : out = RedactAll(text, needles)
  OBVIOUS
<1>2. CASE IsNone(needles, S)
  <2>1. out.ok
    BY <1>1, <1>2, RedactedByNone DEF IsBody
  <2>2. <<>> \in Seq(Char) /\ \A n \in S : n = <<>>
    BY <1>2 DEF IsNone
  <2>3. \A n \in S : Fits(text, n)
    BY <2>2, Absent, FitsWithout
  <2>. QED
    BY <1>1, <2>1, <2>3
<1>3. CASE IsOne(needles, S)
  <2>1. PICK n \in Seq(Char) : needles = <<n>> /\ S = {n}
    BY <1>3 DEF IsOne
  <2>2. PICK body : IsBody(body, text) /\ IsPass(out, body, n)
    BY <1>1, <2>1, RedactedByOne
  <2>3. out.ok <=> Fits(text, n)
    BY <2>2, PassFits
  <2>. QED
    BY <1>1, <2>1, <2>3
<1>4. CASE AreTwo(needles, S) /\ \A n \in S : Occurs(Tagged(text), n) = {}
  <2>1. PICK n \in Seq(Char), m \in Seq(Char) : needles = <<n, m>> /\ S = {n, m}
    BY <1>4 DEF AreTwo
  <2>2. PICK body, half : /\ IsBody(body, text) /\ IsPass(half, body, n)
                          /\ half.ok => IsPass(out, half, m)
    BY <1>1, <2>1, RedactedByTwo
  <2>3. Occurs(Tagged(text), n) = {} /\ Occurs(Tagged(text), m) = {} /\ Tagged(text) \in Seq(Byte)
    BY <1>4, <2>1, TaggedText
  <2>4. /\ body.ok = TRUE /\ body.bytes = Tagged(text)
        /\ half = redact_verbatim_bytes(body, n)
    BY <2>2 DEF IsBody, IsPass
  <2>5. half = body
    BY <2>3, <2>4, NoPass
  <2>6. out = redact_verbatim_bytes(body, m)
    BY <2>2, <2>4, <2>5 DEF IsPass
  <2>7. out = body
    BY <2>3, <2>4, <2>6, NoPass
  <2>8. Fits(text, n) /\ Fits(text, m)
    BY <2>3, FitsWithout
  <2>. QED
    BY <1>1, <2>1, <2>4, <2>7, <2>8
<1>. QED
  BY <1>2, <1>3, <1>4

LEMMA Performed ==
    ASSUME NEW sent, NEW response, response.text \in Seq(Char), response.header \in BOOLEAN,
           NEW red, red = RedactAll(response.text, sent.needles)
    PROVE  /\ PerformFetch(sent, response).ok
                 <=> /\ response.status # 0 /\ Len(response.text) <= MaxBody
                     /\ ~Contains(response.text, "bad") /\ red.ok
           /\ PerformFetch(sent, response).ok =>
                 /\ PerformFetch(sent, response).body = red.bytes
                 /\ PerformFetch(sent, response).header \in {<<>>, red.bytes}
<1>1. PICK r : r = RedactAll(response.text, sent.needles)
  OBVIOUS
<1>2. PICK done : done = PerformFetch(sent, response)
  OBVIOUS
<1>3. PICK text \in Seq(Char), N \in Nat : text = response.text /\ N = Len(text) /\ MaxBody \in Nat
  BY FetchAssumption
<1>4. PICK body : body = IF N > MaxBody \/ Contains(text, "bad") THEN Failed ELSE r
  OBVIOUS
<1>5. /\ read_capped_fetch_body(response.text, sent.needles) = body
      /\ redact_fetch_header_text(response.text, sent.needles) = r
  BY <1>1, <1>3, <1>4 DEF read_capped_fetch_body, redact_fetch_header_text
<1>6. ~Failed.ok
  BY DEF Failed
<1>7. body.ok <=> N <= MaxBody /\ ~Contains(text, "bad") /\ r.ok
  BY <1>3, <1>4, <1>6
<1>8. body.ok => body = r
  BY <1>4, <1>6
<1>9. CASE response.status = 0 \/ (response.header /\ ~r.ok) \/ ~body.ok
  <2>1. done = Failed
    BY <1>2, <1>5, <1>9 DEF PerformFetch
  <2>2. ~done.ok
    BY <1>6, <2>1
  <2>. QED
    BY <1>1, <1>2, <1>3, <1>7, <1>9, <2>2
<1>10. CASE ~(response.status = 0 \/ (response.header /\ ~r.ok) \/ ~body.ok)
  <2>1. done = [ok |-> TRUE, status |-> response.status, body |-> body.bytes,
                header |-> IF response.header THEN r.bytes ELSE <<>>]
    BY <1>2, <1>5, <1>10 DEF PerformFetch
  <2>2. done.ok /\ done.body = body.bytes /\ done.header \in {<<>>, r.bytes}
    BY <2>1
  <2>. QED
    BY <1>1, <1>2, <1>3, <1>7, <1>8, <1>10, <2>2
<1>. QED
  BY <1>9, <1>10

AreSought(needles, S, r, secret) ==
    /\ needles = Inject(r, secret).needles
    /\ S = IF r.inject = "query" THEN {secret, push_query_encoded(secret)}
           ELSE {needles[i] : i \in DOMAIN needles}

\* The credential that went out is what is looked for.
LEMMA WhatIsLookedFor ==
    ASSUME NEW r, NEW secret \in Seq(Octet), Inject(r, secret).ok,
           r.inject \in {"bearer", "header", "query"},
           NEW needles, NEW S, AreSought(needles, S, r, secret)
    PROVE  \/ IsNone(needles, S) \/ IsOne(needles, S)
           \/ AreTwo(needles, S) /\ r.inject = "query"
<1>1. secret \in Seq(Char)
  BY OctetsAreChars
<1>2. needles = Inject(r, secret).needles
  BY DEF AreSought
<1>3. S = IF r.inject = "query" THEN {secret, push_query_encoded(secret)}
          ELSE {needles[i] : i \in DOMAIN needles}
  BY DEF AreSought
<1>4. CASE r.inject = "query"
  <2>1. needles = IF secret = <<>> THEN <<>> ELSE <<secret, push_query_encoded(secret)>>
    BY <1>2, <1>4, Sent, Zenon
  <2>2. S = {secret, push_query_encoded(secret)}
    BY <1>3, <1>4
  <2>3. CASE secret = <<>>
    <3>1. needles = <<>> /\ S \subseteq {<<>>}
      BY <2>1, <2>2, <2>3, NothingEncoded
    <3>. QED
      BY <1>2, <1>3, <3>1 DEF IsNone
  <2>4. CASE secret # <<>>
    <3>1. PICK e : e = push_query_encoded(secret)
      OBVIOUS
    <3>2. e \in Seq(NoBrackets)
      BY <3>1, EncodedHasNoBrackets
    <3>3. e \in Seq(Char)
      BY <3>2 DEF NoBrackets
    <3>4. needles = <<secret, e>> /\ S = {secret, e}
      BY <2>1, <2>2, <2>4, <3>1
    <3>5. AreTwo(needles, S)
      BY <1>1, <3>2, <3>3, <3>4 DEF AreTwo
    <3>. QED
      BY <1>2, <1>3, <1>4, <3>5
  <2>. QED
    BY <2>3, <2>4
<1>5. CASE r.inject # "query"
  <2>1. PICK text : /\ fetch_header_credential_bytes(secret) = [ok |-> TRUE, text |-> text]
                    /\ needles = IF text = <<>> THEN <<>> ELSE <<text>>
    <3>1. PICK text : IsHeaderText(r, secret, text)
      BY <1>5, Sent, Zenon
    <3>. QED
      BY <1>2, <3>1 DEF IsHeaderText
  <2>2. text \in Seq(Char)
    <3>1. PICK n \in Nat : n = Len(secret)
      OBVIOUS
    <3>2. PICK trimmed : trimmed = IF n > 0 /\ secret[n] \in {"CR", "LF"} THEN SubSeq(secret, 1, n - 1)
                                   ELSE secret
      OBVIOUS
    <3>3. fetch_header_credential_bytes(secret)
             = IF \E i \in DOMAIN trimmed : trimmed[i] \in Controls \union {"xC3", "xA9", "bad"} THEN Failed
               ELSE [ok |-> TRUE, text |-> trimmed]
      BY <3>1, <3>2 DEF fetch_header_credential_bytes
    <3>4. ~Failed.ok /\ fetch_header_credential_bytes(secret).ok
      BY <2>1 DEF Failed
    <3>5. text = trimmed
      BY <2>1, <3>3, <3>4
    <3>6. n > 0 => SubSeq(secret, 1, n - 1) \in Seq(Char)
      BY <1>1, <3>1
    <3>. QED
      BY <1>1, <3>2, <3>5, <3>6
  <2>3. S = {needles[i] : i \in DOMAIN needles}
    BY <1>3, <1>5
  <2>4. CASE text = <<>>
    <3>1. needles = <<>> /\ DOMAIN needles = {}
      BY <2>1, <2>4
    <3>2. S \subseteq {<<>>}
      BY <2>3, <3>1
    <3>. QED
      BY <1>2, <1>3, <3>1, <3>2 DEF IsNone
  <2>5. CASE text # <<>>
    <3>1. needles = <<text>> /\ DOMAIN needles = {1} /\ needles[1] = text
      BY <2>1, <2>5
    <3>2. S = {text}
      BY <2>3, <3>1
    <3>. QED
      BY <1>2, <1>3, <2>2, <3>1, <3>2 DEF IsOne
  <2>. QED
    BY <2>4, <2>5
<1>. QED
  BY <1>4, <1>5

\* What happens once in a command that fetches.
LEMMA Fetched ==
    ASSUME Ran, Answered("fetch"), answer.sent.ok
    PROVE  /\ answer.answer = PerformFetch(answer.sent, input.response)
           /\ input.response.text \in Seq(Char) /\ input.response.header \in BOOLEAN
           /\ \/ IsNone(answer.sent.needles, Credentials) \/ IsOne(answer.sent.needles, Credentials)
              \/ AreTwo(answer.sent.needles, Credentials) /\ input.request.inject = "query"
<1>1. PICK r, secret : r = input.request /\ secret = input.secret
  OBVIOUS
<1>2. input \in Fetches /\ answer = deliver_fetch(input.request, input.secret, input.response)
  BY KindOfInput DEF Ran, Answered
<1>3. /\ secret \in Seq(Octet) /\ r.inject \in {"bearer", "header", "query"}
      /\ input.response.text \in Seq(Octet) /\ input.response.header \in BOOLEAN
  BY <1>1, <1>2, FetchesAssumption
<1>4. PICK sent : sent = IF validate_fetch_input(r) THEN Inject(r, secret) ELSE Failed
  OBVIOUS
<1>5. answer.sent = sent /\ answer.answer = IF sent.ok THEN PerformFetch(sent, input.response) ELSE Failed
  BY <1>1, <1>2, <1>4 DEF deliver_fetch
<1>6. ~Failed.ok
  BY DEF Failed
<1>7. sent = Inject(r, secret) /\ Inject(r, secret).ok
  BY <1>4, <1>5, <1>6
<1>8. answer.answer = PerformFetch(answer.sent, input.response)
  BY <1>5
<1>9. PICK needles : needles = Inject(r, secret).needles
  OBVIOUS
<1>10. PICK S : S = IF r.inject = "query" THEN {secret, push_query_encoded(secret)}
                    ELSE {needles[i] : i \in DOMAIN needles}
  OBVIOUS
<1>11. \/ IsNone(needles, S) \/ IsOne(needles, S)
       \/ AreTwo(needles, S) /\ r.inject = "query"
  <2>1. AreSought(needles, S, r, secret)
    BY <1>9, <1>10 DEF AreSought
  <2>. QED
    <3>1. secret \in Seq(Octet) /\ r.inject \in {"bearer", "header", "query"}
      BY <1>3
    <3>2. Inject(r, secret).ok
      BY <1>7
    <3>. QED
      BY <2>1, <3>1, <3>2, WhatIsLookedFor
<1>12. needles = answer.sent.needles /\ S = Credentials
  BY <1>1, <1>5, <1>7, <1>9, <1>10 DEF Credentials
<1>. QED
  BY <1>1, <1>3, <1>8, <1>11, <1>12, OctetsAreChars

LEMMA CredentialsAreTexts ==
    ASSUME NEW needles, NEW S, IsNone(needles, S) \/ IsOne(needles, S) \/ AreTwo(needles, S)
    PROVE  S \in SUBSET Seq(Char)
<1>1. CASE IsNone(needles, S)
  <2>1. <<>> \in Seq(Char)
    OBVIOUS
  <2>. QED
    BY <1>1, <2>1 DEF IsNone
<1>2. CASE IsOne(needles, S)
  BY <1>2 DEF IsOne
<1>3. CASE AreTwo(needles, S)
  BY <1>3 DEF AreTwo
<1>. QED
  BY <1>1, <1>2, <1>3

\* The credential is in neither part of the answer (redact_verbatim_bytes).
LEMMA NothingComesBack ==
    ASSUME Ran
    PROVE  CredentialNeverComesBack
<1>1. SUFFICES ASSUME Answered("fetch"), answer.answer.ok,
                      NEW bytes \in {answer.answer.body, answer.answer.header},
                      NEW needle \in Credentials, NEW i \in Runs(Text(bytes), needle)
               PROVE  \E k \in 0 .. (Len(needle) - 1) :
                          bytes[i + k].at = 0 \/ bytes[i + k].at # bytes[i].at + k
  BY DEF CredentialNeverComesBack
<1>2. answer.sent.ok
  <2>1. answer = deliver_fetch(input.request, input.secret, input.response)
    BY <1>1 DEF Ran, Answered
  <2>2. ~Failed.ok
    BY DEF Failed
  <2>. QED
    BY <1>1, <2>1, <2>2 DEF deliver_fetch
<1>3. PICK sent, response, S : sent = answer.sent /\ response = input.response /\ S = Credentials
  OBVIOUS
<1>4. /\ answer.answer = PerformFetch(sent, response)
      /\ response.text \in Seq(Char) /\ response.header \in BOOLEAN
      /\ IsNone(sent.needles, S) \/ IsOne(sent.needles, S) \/ AreTwo(sent.needles, S)
  BY <1>1, <1>2, <1>3, Fetched
<1>5. PICK red : red = RedactAll(response.text, sent.needles)
  OBVIOUS
<1>6. red.ok /\ answer.answer.body = red.bytes /\ answer.answer.header \in {<<>>, red.bytes}
  BY <1>1, <1>4, <1>5, Performed
<1>7. Clean(response.text, red.bytes, S)
  BY <1>4, <1>5, <1>6, RedactedText
<1>8. needle \in Seq(Char)
  BY <1>1, <1>3, <1>4, CredentialsAreTexts
<1>9. CASE bytes = red.bytes
  <2>1. bytes \in Seq(Byte) /\ NoneLeft(bytes, needle)
    BY <1>1, <1>3, <1>7, <1>9 DEF Clean, Faithful
  <2>2. i \in Occurs(bytes, needle)
    BY <1>1, <1>8, <2>1, RunsAreOccurrences
  <2>. QED
    BY <2>1, <2>2 DEF NoneLeft
<1>10. CASE bytes = <<>>
  <2>1. bytes \in Seq(Byte) /\ 1 .. Len(bytes) = {}
    BY <1>10
  <2>2. i \in Occurs(bytes, needle)
    BY <1>1, <1>8, <2>1, RunsAreOccurrences
  <2>. QED
    BY <2>1, <2>2 DEF Occurs
<1>. QED
  BY <1>1, <1>6, <1>9, <1>10

\* The places of the text an occurrence of a credential covers.
CoveredIn(text, S) ==
    {i \in DOMAIN text : \E needle \in S : \E r \in Runs(text, needle) :
                            i \in r .. (r + Len(needle) - 1)}

LEMMA UncoveredIsSpared ==
    ASSUME NEW text \in Seq(Char), NEW S \in SUBSET Seq(Char)
    PROVE  /\ \A p \in DOMAIN text \ CoveredIn(text, S) :
                 p \in 1 .. Len(text) /\ \A needle \in S : Spared(text, needle, p)
           /\ CoveredIn(text, S) = {} => \A needle \in S : Occurs(Tagged(text), needle) = {}
<1>1. PICK N \in Nat : N = Len(text) /\ DOMAIN text = 1 .. N
  OBVIOUS
<1>2. Tagged(text) \in Seq(Byte) /\ Text(Tagged(text)) = text /\ Len(Tagged(text)) = N
  BY <1>1, TaggedText
<1>3. \A needle \in S : Runs(text, needle) = Occurs(Tagged(text), needle)
  BY <1>2, RunsAreOccurrences
<1>4. ASSUME NEW p \in DOMAIN text, p \notin CoveredIn(text, S), NEW needle \in S
      PROVE  Spared(text, needle, p)
  BY <1>3, <1>4 DEF Spared, CoveredIn
<1>5. ASSUME CoveredIn(text, S) = {}, NEW needle \in S, NEW r \in Occurs(Tagged(text), needle)
      PROVE  FALSE
  <2>1. needle # <<>> /\ needle \in Seq(Char)
    BY <1>5 DEF Occurs
  <2>2. Len(needle) >= 1 /\ Len(needle) \in Nat
    BY <2>1, EmptySeq
  <2>3. r \in 1 .. N
    BY <1>2, <1>5, <2>1 DEF Occurs
  <2>4. r \in r .. (r + Len(needle) - 1)
    BY <2>2, <2>3
  <2>. QED
    BY <1>1, <1>3, <1>5, <2>3, <2>4 DEF CoveredIn
<1>. QED
  BY <1>1, <1>4, <1>5

\* What stays of the text, and which responses are refused.
LEMMA NothingElseIsTaken ==
    ASSUME Ran
    PROVE  OnlyCredentialsAreTaken
<1>1. SUFFICES ASSUME Answered("fetch"), answer.sent.ok, input.response.status # 0
               PROVE  OnlyCredentialsAreTaken
  BY DEF OnlyCredentialsAreTaken
<1>2. PICK sent, response, S : sent = answer.sent /\ response = input.response /\ S = Credentials
  OBVIOUS
<1>3. /\ answer.answer = PerformFetch(sent, response)
      /\ response.text \in Seq(Char) /\ response.header \in BOOLEAN
      /\ \/ IsNone(sent.needles, S) \/ IsOne(sent.needles, S)
         \/ AreTwo(sent.needles, S) /\ input.request.inject = "query"
  BY <1>1, <1>2, Fetched
<1>4. PICK text \in Seq(Char), N \in Nat : /\ text = response.text /\ N = Len(text)
                                           /\ DOMAIN text = 1 .. N
  BY <1>3
<1>5. PICK red : red = RedactAll(text, sent.needles)
  OBVIOUS
<1>6. S \in SUBSET Seq(Char)
  BY <1>3, CredentialsAreTexts
<1>7. PICK body : body = answer.answer.body
  OBVIOUS
<1>8. response.status # 0 /\ MaxBody \in Nat
  BY <1>1, <1>2, FetchAssumption
<1>9. /\ answer.answer.ok <=> N <= MaxBody /\ ~Contains(text, "bad") /\ red.ok
      /\ answer.answer.ok => body = red.bytes
  BY <1>3, <1>4, <1>5, <1>7, <1>8, Performed
<1>10. ASSUME answer.answer.ok
       PROVE  /\ DOMAIN text \ CoveredIn(text, S) \subseteq {body[i].at : i \in DOMAIN body} \ {0}
              /\ \A i, j \in DOMAIN body : i < j /\ body[j].at # 0 => body[i].at < body[j].at
              /\ \A i \in DOMAIN body : body[i].at # 0 => body[i].c = text[body[i].at]
              /\ Len(body) <= MaxBody
  <2>1. Clean(text, body, S)
    BY <1>3, <1>5, <1>9, <1>10, RedactedText
  <2>2. body \in Seq(Byte) /\ DOMAIN body = 1 .. Len(body)
    BY <2>1 DEF Clean, Faithful
  <2>3. ASSUME NEW p \in DOMAIN text \ CoveredIn(text, S)
        PROVE  p \in {body[i].at : i \in DOMAIN body} \ {0}
    <3>1. p \in 1 .. Len(text) /\ \A needle \in S : Spared(text, needle, p)
      BY <1>6, <2>3, UncoveredIsSpared
    <3>2. PICK i \in 1 .. Len(body) : body[i].at = p
      BY <2>1, <3>1 DEF Clean
    <3>3. p # 0
      BY <3>1
    <3>. QED
      BY <2>2, <3>2, <3>3
  <2>4. \A i, j \in DOMAIN body : i < j /\ body[j].at # 0 => body[i].at < body[j].at
    BY <2>1, <2>2 DEF Clean, Faithful
  <2>5. \A i \in DOMAIN body : body[i].at # 0 => body[i].c = text[body[i].at]
    BY <2>1, <2>2 DEF Clean, Faithful
  <2>6. Len(body) <= MaxBody
    BY <1>4, <1>8, <1>9, <1>10, <2>1 DEF Clean
  <2>. QED
    BY <2>3, <2>4, <2>5, <2>6
<1>11. ASSUME CoveredIn(text, S) = {} \/ input.request.inject # "query"
       PROVE  answer.answer.ok <=> /\ N <= MaxBody /\ ~Contains(text, "bad")
                                  /\ \A needle \in S : Fits(text, needle)
  <2>1. CASE N <= MaxBody
    <3>1. \/ IsNone(sent.needles, S) \/ IsOne(sent.needles, S)
          \/ AreTwo(sent.needles, S) /\ \A n \in S : Occurs(Tagged(text), n) = {}
      BY <1>3, <1>6, <1>11, UncoveredIsSpared
    <3>2. red.ok <=> \A n \in S : Fits(text, n)
      BY <1>4, <1>5, <2>1, <3>1, RedactedFits
    <3>. QED
      BY <1>9, <3>2
  <2>2. CASE ~(N <= MaxBody)
    BY <1>9, <2>2
  <2>. QED
    BY <2>1, <2>2
<1>. QED
  BY <1>2, <1>4, <1>7, <1>10, <1>11 DEF OnlyCredentialsAreTaken, CoveredIn, Fits

\* After any response, no stretch of it that spells the credential has come back, raw
\* or encoded, nothing else is gone or out of order, and a response is refused only
\* for its size or its encoding (redact_fetch_body, redacted_body_len).
THEOREM RedactionIsSound == OneShotSpec => []RedactionIsExact
<1>1. Ran => RedactionIsExact
  BY NothingComesBack, NothingElseIsTaken DEF RedactionIsExact
<1>. QED
  BY <1>1, RanInvariant, PTL
=============================================================================
