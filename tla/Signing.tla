------------------------------ MODULE Signing ------------------------------
(***************************************************************************)
(* Signing a digest with a key from an envelope (signing.rs).              *)
(*                                                                         *)
(* The curve is a group of prime order written as the integers modulo that *)
(* order, a point being its discrete logarithm: what the properties need   *)
(* of the curve is that it is a group, that a point and its inverse share  *)
(* x and that exactly one of the two has an odd y.  32 bytes are a number  *)
(* that may be at or over the order.                                       *)
(***************************************************************************)
EXTENDS Integers

CONSTANTS
    Order,  \* order of the group, an odd prime
    Bytes   \* the numbers a 32-byte string may be

ASSUME SigningAssumption ==
    /\ Order \in Nat /\ Order > 2 /\ \A d \in 2..(Order - 1) : Order % d # 0
    /\ Bytes \subseteq Nat

Schemes == {"ecdsa-recoverable", "ecdsa-der", "schnorr-bip340", "schnorr-bip341"}
Refused == [ok |-> FALSE]

\* External, k256: what is public of a scalar.
Point(scalar) == scalar
Neg(point) == (Order - point) % Order
y_is_odd(point) == point > Order \div 2
x(point) == {point, Neg(point)}

\* Scalar::from_repr, and not zero; the key constructors of k256 ask the same.
parse_private_scalar(key) == key \in 1..(Order - 1)

\* External, k256: a signature verifies under the public key of its secret.
Signature(key, digest) == [ok |-> TRUE, key |-> key, digest |-> digest]

sign_ecdsa(secret, digest) ==
    IF parse_private_scalar(secret) THEN Signature({Point(secret)}, digest) ELSE Refused

sign_schnorr_with_aux(secret, digest) ==
    IF parse_private_scalar(secret) THEN Signature(x(Point(secret)), digest) ELSE Refused

\* Fault: the key is not normalised to the even point.
Unnormalized(secret) == secret

Normalized(secret) == IF y_is_odd(Point(secret)) THEN Order - secret ELSE secret

\* taproot_keypath_material: the tweaked secret, and the output key computed from
\* the public points alone.
taproot_keypath_material(key, tweak) ==
    LET secret == Normalized(key)
        tweaked == (secret + tweak) % Order
        output == (Point(secret) + Point(tweak)) % Order
    IN  IF parse_private_scalar(key) /\ tweak < Order /\ tweaked # 0 /\ output # 0
        THEN [ok |-> TRUE, secret |-> tweaked, output_x |-> x(output)]
        ELSE Refused

\* Signs, then verifies under the output key.
sign_schnorr_bip341_keypath_with_aux(key, digest, tweak) ==
    LET material == taproot_keypath_material(key, tweak)
        result == IF material.ok THEN sign_schnorr_with_aux(material.secret, digest) ELSE Refused
    IN  IF result.ok /\ result.key = material.output_x THEN result ELSE Refused

\* sign_cmd and sign_digest_with_key once the envelope is open: the digest, the
\* scheme, the length of the key, then the scheme's signature.  The tweak is the
\* TapTweak hash of the internal key, which may be anything.
sign(scheme, key, digest, tweak) ==
    IF digest = "short" \/ scheme \notin Schemes \/ key \notin Bytes THEN Refused ELSE
    CASE scheme \in {"ecdsa-recoverable", "ecdsa-der"} -> sign_ecdsa(key, digest)
      [] scheme = "schnorr-bip340" -> sign_schnorr_with_aux(key, digest)
      [] OTHER -> sign_schnorr_bip341_keypath_with_aux(key, digest, tweak)
=============================================================================
