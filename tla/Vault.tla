------------------------------- MODULE Vault -------------------------------
(***************************************************************************)
(* Machines that seal values, publish a receiver key, seal from blind      *)
(* boxes, export their master key and import one another's, over a table   *)
(* of rows that avault does not control: whoever keeps the rows, the       *)
(* exports and the boxes may present any of them, or fields of several put *)
(* together, to any machine under any name.                                *)
(*                                                                         *)
(* A machine's store is one register here; LinuxStore, MacStore and        *)
(* PassphraseStore are about what is behind it.  Every seal gives its      *)
(* value a number of its own, and random keys, nonces and salts are the    *)
(* numbers of the row or export they are made for.                         *)
(***************************************************************************)
EXTENDS Envelope

CONSTANTS
    Machines,     \* machines with a store
    Names,        \* record names, sequences of tokens
    Passphrases,  \* passphrases as typed, sequences of tokens
    Records,      \* record_meta of protected rows
    MaxItems      \* bound: rows, exports and boxes made

\* ProtectedRecordMeta: absent, static, or a key pair's public key.
RecordMeta(r) == r \in {<<>>, <<"static">>} \/ (Len(r) = 2 /\ r[1] = "keypair")

ASSUME VaultAssumption ==
    /\ MaxItems \in Nat
    /\ Names \subseteq Seq(STRING)
    /\ Passphrases \subseteq Seq(STRING)
    /\ Records \subseteq Seq(STRING)
    /\ \A r \in Records : RecordMeta(r)

VARIABLES
    master,  \* master[m]: the key in m's store, NoKey if none
    rows,    \* every row ever made: the envelope, with what it was made from
    blobs,   \* every key export, likewise
    boxes    \* every blind box sealed by a browser

vvars == <<master, rows, blobs, boxes>>

NoKey == [kind |-> "none"]
Key(kind, id) == [kind |-> kind, id |-> id]

\* The key a machine makes for itself when its store is empty.
OwnKey(m) == Key("master", m)

Items == Len(rows) + Len(blobs) + Len(boxes)
Made == Items < MaxItems

\* load_or_create_master_from_unlock
LoadedOrCreated(m) == IF master[m] = NoKey THEN OwnKey(m) ELSE master[m]

Row(sealed, tier, name, value, key) ==
    [sealed |-> sealed, tier |-> tier, name |-> name, value |-> value, key |-> key]

Id == Len(rows) + 1

-----------------------------------------------------------------------------
(* Commands *)

\* seal: what is printed is a new row.
SealRow(key, name, value) ==
    rows' = Append(rows, Row(seal(key, name, value, Key("dek", Id), Id, Id),
                             "standard", name, value, key))

Seal(m, name) ==
    /\ Made
    /\ master' = [master EXCEPT ![m] = LoadedOrCreated(m)]
    /\ SealRow(master'[m], name, [typed |-> Id])
    /\ UNCHANGED <<blobs, boxes>>

\* Fault: any box for this key is taken, under whatever name is asked for.
SealBlindBoxUnbound(m, name, b) ==
    /\ Made /\ master[m] # NoKey
    /\ \E v \in open_blind_box(derive_blind_box_keypair_from_master(master[m]),
                               b, b.context) : SealRow(master[m], name, v)
    /\ UNCHANGED <<master, blobs, boxes>>

\* seal --blind-box: only an existing key can have been published.
SealBlindBox(m, name, b) ==
    /\ Made /\ master[m] # NoKey
    /\ \E v \in open_blind_box(derive_blind_box_keypair_from_master(master[m]),
                               b, seal_context(name)) : SealRow(master[m], name, v)
    /\ UNCHANGED <<master, blobs, boxes>>

\* pubkey, and a browser that seals a value for a name to what it printed.
PubkeyThenBox(m, name) ==
    /\ Made
    /\ master' = [master EXCEPT ![m] = LoadedOrCreated(m)]
    /\ boxes' = Append(boxes, [to |-> derive_blind_box_keypair_from_master(master'[m]),
                               context |-> seal_context(name),
                               value |-> [boxed |-> name]])
    /\ UNCHANGED <<rows, blobs>>

\* Rows other programs wrote: a P0 row, without version and associated data,
\* and a protected row a browser sealed with a DEK the master cannot unwrap.
SealLegacy(m, name) ==
    /\ Made /\ master[m] # NoKey
    /\ LET dek == Key("dek", Id)
       IN  rows' = Append(rows, Row(
               [ciphertext |-> encrypt_with_key(dek, Id, [typed |-> Id], <<>>), nonce |-> Id,
                wrap_meta |-> WrapMeta("", encrypt_with_key(master[m], Id, dek, <<>>), Id, <<>>)],
               "legacy", name, [typed |-> Id], master[m]))
    /\ UNCHANGED <<master, blobs, boxes>>

SealProtected(name, record) ==
    /\ Made
    /\ LET dek == Key("dek", Id)
           meta == WrapMeta("1", encrypt_with_key(Key("vmk", 0), Id, dek, <<>>), Id, record)
       IN  rows' = Append(rows, Row(
               [ciphertext |-> encrypt_with_key(dek, Id, [typed |-> Id],
                                                protected_record_aad(name, meta)),
                nonce |-> Id, wrap_meta |-> meta],
               "protected", name, [typed |-> Id], dek))
    /\ UNCHANGED <<master, blobs, boxes>>

\* key export
Export(m, typed) ==
    /\ Made /\ master[m] # NoKey
    /\ \E b \in export_master_key(master[m], trim_trailing_newlines(typed),
                                  Len(blobs) + 1, Len(blobs) + 1) :
          blobs' = Append(blobs, [blob |-> b, key |-> master[m], passphrase |-> typed])
    /\ UNCHANGED <<master, rows, boxes>>

\* key import, without and with --force
Import(m, blob, typed, force) ==
    /\ force \/ master[m] = NoKey
    /\ \E key \in import_master_key(blob, trim_trailing_newlines(typed)) :
          master' = [master EXCEPT ![m] = key]
    /\ UNCHANGED <<rows, blobs, boxes>>

-----------------------------------------------------------------------------
(* What can be presented to a machine: fields of stored things, put together *)

MixedRow(r1, r2, r3, r4) ==
    [ciphertext |-> r1.sealed.ciphertext, nonce |-> r2.sealed.nonce,
     wrap_meta |-> [r3.sealed.wrap_meta EXCEPT !.record_meta = r4.sealed.wrap_meta.record_meta]]

MixedRows ==
    {MixedRow(rows[i], rows[j], rows[k], rows[l]) : i, j, k, l \in DOMAIN rows}

MixedBlob(b1, b2, b3) ==
    [b1.blob EXCEPT !.ciphertext = b2.blob.ciphertext, !.salt = b3.blob.salt]

MixedBlobs == {MixedBlob(blobs[i], blobs[j], blobs[k]) : i, j, k \in DOMAIN blobs}

VaultInit ==
    /\ master = [m \in Machines |-> NoKey]
    /\ rows = <<>> /\ blobs = <<>> /\ boxes = <<>>

VaultNext ==
    \/ \E m \in Machines, n \in Names :
          \/ Seal(m, n) \/ PubkeyThenBox(m, n) \/ SealLegacy(m, n)
          \/ \E i \in DOMAIN boxes : SealBlindBox(m, n, boxes[i])
    \/ \E n \in Names, r \in Records : SealProtected(n, r)
    \/ \E m \in Machines, p \in Passphrases :
          \/ Export(m, p)
          \/ \E b \in MixedBlobs, force \in BOOLEAN : Import(m, b, p, force)

VaultSpec == VaultInit /\ [][VaultNext]_vvars

-----------------------------------------------------------------------------
(* Properties *)

\* "A ciphertext cannot be transplanted between records": whatever fields are put
\* together, a machine opens them to a value only if that value was sealed under
\* its present master and under the name it is asked for, or is a P0 value, which
\* has no name to check; and with the DEK of a record, to that record's value
\* under that record's name and kind (open, open_with_dek).  A value that came in
\* a blind box is in a row only under the name the browser sealed it for.
EnvelopesAreNotTransplanted ==
    /\ \A i \in DOMAIN rows :
          "boxed" \in DOMAIN rows[i].value => rows[i].value.boxed = rows[i].name
    /\ \A row \in MixedRows, n \in Names :
          /\ \A m \in Machines : \A v \in open(master[m], n, row) :
                \E i \in DOMAIN rows :
                   /\ rows[i].value = v /\ rows[i].key = master[m]
                   /\ \/ rows[i].tier = "standard" /\ rows[i].name = n
                      \/ rows[i].tier = "legacy"
          /\ \A d \in DOMAIN rows : \A v \in open_with_dek(Key("dek", d), n, row) :
                /\ rows[d].value = v /\ rows[d].name = n
                /\ rows[d].tier \in {"standard", "protected"}
                /\ rows[d].tier = "protected" =>
                      protected_record_aad(n, row.wrap_meta)
                          = protected_record_aad(n, rows[d].sealed.wrap_meta)

\* A row opens to what was sealed wherever its key is now: after exports, imports
\* and forced imports, for rows of this version and of the one before, and with
\* its DEK for a protected record; and so does a blind box to the key published
\* from a master, however that master got where it is.
SealedValuesStayReadable ==
    /\ \A i \in DOMAIN rows :
          IF rows[i].tier = "protected"
          THEN open_with_dek(rows[i].key, rows[i].name, rows[i].sealed) = {rows[i].value}
          ELSE \A m \in Machines : master[m] = rows[i].key =>
                  open(master[m], rows[i].name, rows[i].sealed) = {rows[i].value}
    /\ \A i \in DOMAIN boxes, m \in Machines :
          boxes[i].to.of = master[m] =>
              open_blind_box(derive_blind_box_keypair_from_master(master[m]), boxes[i],
                             seal_context(boxes[i].value.boxed)) = {boxes[i].value}

\* The same passphrase, typed with whatever line ends: p and q agree up to a place
\* where both have nothing but line ends left.
SamePassphrase(p, q) ==
    \E i \in 0 .. Len(p) :
        /\ i <= Len(q)
        /\ \A j \in 1 .. i : p[j] = q[j]
        /\ \A j \in i + 1 .. Len(p) : p[j] \in NewLines
        /\ \A j \in i + 1 .. Len(q) : q[j] \in NewLines

\* An export gives back the key it was made of, to whoever types its passphrase,
\* with whatever line ends it was typed here and there, and to nobody else; parts
\* of several exports give nothing (key export, key import).
ExportsRestoreTheirKey ==
    \A b \in MixedBlobs, p \in Passphrases :
        import_master_key(b, trim_trailing_newlines(p))
            = {blobs[i].key : i \in {i \in DOMAIN blobs :
                                       blobs[i].blob = b /\ SamePassphrase(blobs[i].passphrase, p)}}
=============================================================================
