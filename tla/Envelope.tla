------------------------------ MODULE Envelope ------------------------------
(***************************************************************************)
(* The envelopes of avault-core: sealed values, wrapped keys, protected    *)
(* records and key exports.                                                *)
(*                                                                         *)
(* Encryption is symbolic: a ciphertext is the record of what went into it *)
(* and opens under that key, nonce and associated data only.  A name or a  *)
(* piece of associated data is a sequence of tokens, so that the           *)
(* concatenations the code makes are the ones compared.  A decryption is   *)
(* the set of what it yields: empty when it fails.                         *)
(***************************************************************************)
EXTENDS Integers, Sequences, FiniteSetsExt

WRAP_SCHEME == "machine-aesgcm-v1"
WRAP_META_VERSION == "1"
EXPORT_SCHEME == "machine-key-export-v1"
SCRYPT_N == 2^15

encrypt_with_key(key, nonce, msg, aad) ==
    [key |-> key, nonce |-> nonce, msg |-> msg, aad |-> aad]

decrypt_with_key(key, nonce, ct, aad) ==
    {m \in {ct.msg} : ct.key = key /\ ct.nonce = nonce /\ ct.aad = aad}

\* name ++ scheme ++ version
aad(name) == name \o <<WRAP_SCHEME, WRAP_META_VERSION>>

json_string(name) == <<"quote">> \o name \o <<"quote">>

to_ascii_lowercase(pk) == IF pk = "PK" THEN "pk" ELSE pk

\* The canonical JSON a browser authenticates; record_meta is <<"static">>,
\* <<"keypair", public key>> or empty.  It ends in the end of the object, where aad
\* ends in the version's byte.
protected_record_aad(name, meta) ==
    <<"avault:protected-record:aad:v2">> \o json_string(name)
        \o (IF meta.record_meta = <<>> THEN <<"null">>
            ELSE [i \in DOMAIN meta.record_meta |-> to_ascii_lowercase(meta.record_meta[i])])
        \o <<meta.scheme, meta.v, "end">>

\* wrap_meta of a row; "v" is absent in a P0 row and read as 1.
WrapMeta(v, wrapped, dek_nonce, record) ==
    [v |-> IF v = "" THEN WRAP_META_VERSION ELSE v, scheme |-> WRAP_SCHEME,
     wrapped_dek |-> wrapped, dek_nonce |-> dek_nonce, record_meta |-> record]

\* seal, with the DEK and the two nonces the random generator gave.
seal(master, name, value, dek, value_nonce, dek_nonce) ==
    [ciphertext |-> encrypt_with_key(dek, value_nonce, value, aad(name)),
     nonce |-> value_nonce,
     wrap_meta |-> WrapMeta(WRAP_META_VERSION,
                            encrypt_with_key(master, dek_nonce, dek, <<>>),
                            dek_nonce, <<>>)]

Supported(meta) == meta.scheme = WRAP_SCHEME /\ meta.v = WRAP_META_VERSION

\* Fault: no fallback for rows written before there was associated data.
open_value_with_dek_strict(dek, name, sealed) ==
    decrypt_with_key(dek, sealed.nonce, sealed.ciphertext, aad(name))

\* With the name, then, for P0 rows, without associated data.
open_value_with_dek(dek, name, sealed) ==
    LET p1 == decrypt_with_key(dek, sealed.nonce, sealed.ciphertext, aad(name))
    IN  IF p1 # {} THEN p1
        ELSE decrypt_with_key(dek, sealed.nonce, sealed.ciphertext, <<>>)

open(master, name, sealed) ==
    LET meta == sealed.wrap_meta
    IN  UNION {open_value_with_dek(dek, name, sealed) :
                 dek \in IF Supported(meta)
                         THEN decrypt_with_key(master, meta.dek_nonce, meta.wrapped_dek, <<>>)
                         ELSE {}}

\* Fault: the P0 fallback for protected records too.
open_protected_value_with_dek_legacy(dek, name, sealed, meta) ==
    decrypt_with_key(dek, sealed.nonce, sealed.ciphertext, protected_record_aad(name, meta))
        \union open_value_with_dek(dek, name, sealed)

\* With the record's data, then as a P1 value; never without associated data.
open_protected_value_with_dek(dek, name, sealed, meta) ==
    LET v2 == decrypt_with_key(dek, sealed.nonce, sealed.ciphertext,
                               protected_record_aad(name, meta))
    IN  IF v2 # {} THEN v2
        ELSE decrypt_with_key(dek, sealed.nonce, sealed.ciphertext, aad(name))

open_with_dek(dek, name, sealed) ==
    IF Supported(sealed.wrap_meta)
    THEN open_protected_value_with_dek(dek, name, sealed, sealed.wrap_meta)
    ELSE {}

-----------------------------------------------------------------------------
(* Exports *)

NewLines == {"CR", "LF"}

\* Fault: one line end at most.
trim_one_newline(p) ==
    IF p # <<>> /\ p[Len(p)] \in NewLines THEN SubSeq(p, 1, Len(p) - 1) ELSE p

trim_trailing_newlines(p) ==
    SubSeq(p, 1, Max({0} \union {i \in DOMAIN p : p[i] \notin NewLines}))

validate_scrypt_params(n) == n >= 2 /\ n <= 2^17 /\ \E e \in 1..17 : n = 2^e

derive_kek_scrypt(passphrase, salt, n) ==
    [passphrase |-> passphrase, salt |-> salt, n |-> n]

\* Called with the passphrase trimmed; an empty one is refused.
export_master_key(master, passphrase, salt, nonce) ==
    {[scheme |-> EXPORT_SCHEME, n |-> SCRYPT_N, salt |-> salt, nonce |-> nonce,
      ciphertext |-> encrypt_with_key(derive_kek_scrypt(passphrase, salt, SCRYPT_N),
                                      nonce, master, <<>>)]
        : p \in {passphrase} \ {<<>>}}

import_master_key(blob, passphrase) ==
    IF passphrase # <<>> /\ blob.scheme = EXPORT_SCHEME /\ validate_scrypt_params(blob.n)
    THEN decrypt_with_key(derive_kek_scrypt(passphrase, blob.salt, blob.n),
                          blob.nonce, blob.ciphertext, <<>>)
    ELSE {}

-----------------------------------------------------------------------------
(* Blind boxes of the one-shot commands *)

\* The receiver key follows from the master; the box from the context.
derive_blind_box_keypair_from_master(master) == [of |-> master]

seal_context(name) == <<"seal", name>>

open_blind_box(keypair, box, context) ==
    {v \in {box.value} : box.to = keypair /\ box.context = context}
=============================================================================
