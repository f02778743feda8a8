------------------------------ MODULE OneShot ------------------------------
(***************************************************************************)
(* The one-shot commands that turn what they are given into an answer in   *)
(* one go: deliver fetch, deliver inject's dotenv text, sign, and the      *)
(* reading of key import's document.  A command is given its input once    *)
(* and answers once; what the answers must be is stated without the code's *)
(* own algorithms.                                                         *)
(***************************************************************************)
EXTENDS Fetch, Dotenv, ImportJson, Json, Signing, FiniteSetsExt

CONSTANTS
    Fetches,    \* inputs of deliver fetch: request, secret, response
    Injects,    \* inputs of deliver inject: secrets
    Documents,  \* inputs of key import: fields, spaces, and how much is cut off
    Signs       \* inputs of sign: scheme, key, digest, tweak

ASSUME SignsAssumption ==
    \A s \in Signs : s.kind = "sign" /\ s.key \in Nat /\ s.tweak \in Nat
ASSUME InjectsAssumption ==
    \A s \in Injects :
        /\ s.kind = "inject"
        /\ s.secrets \in Seq([name: STRING, value: Seq(STRING)])
ASSUME FetchesAssumption ==
    \A f \in Fetches :
        /\ f.kind = "fetch"
        /\ f.secret \in Seq(Octet)
        /\ f.request.url \in Seq(Octet)
        /\ f.request.inject \in {"bearer", "header", "query"}
        /\ f.request.inject = "query" => f.request.name \in Seq(Octet)
        /\ f.response.text \in Seq(Octet)
        /\ f.response.header \in BOOLEAN
ASSUME DocumentsAssumption ==
    \A d \in Documents :
        /\ d.kind = "import"
        /\ IsObject(d.fields) /\ d.gap \in Seq(Spaces)
        /\ d.cut \in Nat

VARIABLES
    input,  \* what the command was given, and which command it is
    answer  \* its answer, once it has run

ovars == <<input, answer>>

Unanswered == [ok |-> FALSE, pending |-> TRUE]
Asked(kind) == input.kind = kind /\ answer = Unanswered

-----------------------------------------------------------------------------

DeliverFetch ==
    /\ Asked("fetch")
    /\ answer' = deliver_fetch(input.request, input.secret, input.response)
    /\ UNCHANGED input

RenderInject ==
    /\ Asked("inject")
    /\ answer' = render_dotenv(input.secrets)
    /\ UNCHANGED input

\* The document's text, cut off after a number of tokens.
DocumentText(document) ==
    LET whole == ObjectText(document.fields, document.gap)
    IN  SubSeq(whole, 1, Len(whole) - document.cut)

\* key_import_cmd up to the import: the passphrase, then the blob.
ReadImport ==
    /\ Asked("import")
    /\ LET text == DocumentText(input)
       IN  answer' = [passphrase |-> import_passphrase_from_json(text, <<"p">>),
                      blob |-> import_blob_from_json(text, <<"b">>)]
    /\ UNCHANGED input

Sign ==
    /\ Asked("sign")
    /\ answer' = sign(input.scheme, input.key, input.digest, input.tweak)
    /\ UNCHANGED input

OneShotInit ==
    /\ input \in Fetches \union Injects \union Documents \union Signs
    /\ answer = Unanswered

OneShotNext == DeliverFetch \/ RenderInject \/ ReadImport \/ Sign

OneShotSpec == OneShotInit /\ [][OneShotNext]_ovars

Answered(kind) == input.kind = kind /\ answer # Unanswered

-----------------------------------------------------------------------------
(* Properties *)

\* Where text has a run of bytes that spells the needle.
Runs(text, needle) ==
    IF needle = <<>> THEN {}
    ELSE {i \in 1..(Len(text) - Len(needle) + 1) : SubSeq(text, i, i + Len(needle) - 1) = needle}

\* Both forms of the credential that went out, from what was sent.
Credentials ==
    IF input.request.inject = "query"
    THEN {input.secret, push_query_encoded(input.secret)}
    ELSE {answer.sent.needles[i] : i \in DOMAIN answer.sent.needles}

\* No stretch of the response that spells the credential, raw or encoded, gets
\* through in the body or in a header, whatever it overlaps or adjoins, also at
\* the very end of a body of the largest size (redact_verbatim_bytes).
CredentialNeverComesBack ==
    Answered("fetch") /\ answer.answer.ok =>
        \A bytes \in {answer.answer.body, answer.answer.header}, needle \in Credentials :
            \A i \in Runs(Text(bytes), needle) :
                \E k \in 0..(Len(needle) - 1) :
                    bytes[i + k].at = 0 \/ bytes[i + k].at # bytes[i].at + k

\* The most occurrences of the needle that do not overlap.
Disjoint(text, needle) ==
    Max({Cardinality(S) : S \in {S \in SUBSET Runs(text, needle) :
             \A i, j \in S : i = j \/ i - j >= Len(needle) \/ j - i >= Len(needle)}})

\* Redaction takes out nothing else: every byte of the response that is missing
\* is part of an occurrence of the credential, the rest is in its place and in
\* order, and the answer is within the limit.  With one needle the response is
\* refused exactly when it is over the limit before redaction or after it; one
\* without the credential only when it is over the limit as it came.
OnlyCredentialsAreTaken ==
    Answered("fetch") /\ answer.sent.ok /\ input.response.status # 0 =>
        LET text == input.response.text
            Covered == {i \in DOMAIN text : \E needle \in Credentials : \E r \in Runs(text, needle) :
                                i \in r..(r + Len(needle) - 1)}
            body == answer.answer.body
            Kept == {body[i].at : i \in DOMAIN body} \ {0}
            Fits(needle) == Len(text) + Disjoint(text, needle) * (Len(Redaction) - Len(needle)) <= MaxBody
        IN  /\ answer.answer.ok =>
                 /\ DOMAIN text \ Covered \subseteq Kept
                 /\ \A i, j \in DOMAIN body : i < j /\ body[j].at # 0 => body[i].at < body[j].at
                 /\ \A i \in DOMAIN body : body[i].at # 0 => body[i].c = text[body[i].at]
                 /\ Len(body) <= MaxBody
            /\ Covered = {} \/ input.request.inject # "query" =>
                 (answer.answer.ok <=> /\ Len(text) <= MaxBody /\ ~Contains(text, "bad")
                                      /\ \A needle \in Credentials : Fits(needle))

\* Redaction takes out the credential wherever it is, and nothing else.
RedactionIsExact == CredentialNeverComesBack /\ OnlyCredentialsAreTaken

\* How many pairs of a URL's query have the name.
TimesNamed(url, name) ==
    Cardinality({i \in DOMAIN query_pairs(url) : query_pairs(url)[i][1] = name})

\* The credential leaves once and whole: in a query, as one more pair, the only one
\* with its name, that the server decodes to the name and the secret, with the pairs
\* and the fragment of the request as they were; in a header, under a name no other
\* header has in any spelling.  Blanks at the end of a URL, which Url::parse does
\* not see, become part of its last pair when one more is put behind them; the
\* pairs that are kept are then those with the blanks, and what Url::parse did not
\* see was not compared with the name (build_secret_query_url).
CredentialIsSentOnceAndWhole ==
    Answered("fetch") /\ answer.sent.ok =>
        LET r == input.request
            untrimmed == query_pairs(Append(r.url, "#"))
        IN  IF r.inject = "query"
            THEN /\ query_pairs(answer.sent.url) = Append(untrimmed, <<r.name, input.secret>>)
                 /\ After(answer.sent.url, "#") = After(r.url, "#")
                 /\ untrimmed = query_pairs(r.url) => TimesNamed(answer.sent.url, r.name) = 1
            ELSE /\ \A h \in DOMAIN r.headers : Lower(h) # Lower(answer.sent.header[1])
                 /\ answer.sent.url = r.url

\* A shell that sources an injected dotenv file gets every secret as it is,
\* quotes, backslashes, dollars and line ends included, and nothing else.
DotenvReadsBack ==
    Answered("inject") /\ answer.ok =>
        SourcedBy(answer.text) = [ok |-> TRUE, secrets |-> input.secrets]

\* The passphrase and the blob are those of the first field with that name, with
\* escapes, nested values that look like fields and spaces wherever JSON has them,
\* unless a key before it or the text itself is no text or too long; a document
\* that was cut off anywhere gives the same or is refused (find_json_field_value).
ImportReadsItsFields ==
    Answered("import") =>
        LET fields == input.fields
            ReadsAs(pieces) == {text \in Means(pieces) : Len(text) <= MaxStdinSecret}
            First(name) == {i \in DOMAIN fields :
                               /\ ReadsAs(fields[i].key) = {name}
                               /\ \A j \in 1..(i - 1) : ReadsAs(fields[j].key) \notin {{}, {name}}}
            Fields(name, kind) == {i \in First(name) : fields[i].value.is = kind}
            Right(got, wanted) == IF got.ok THEN {got.text} = wanted ELSE wanted = {} \/ input.cut > 0
        IN  /\ Right(answer.passphrase,
                     UNION {ReadsAs(fields[i].value.pieces) : i \in Fields(<<"p">>, "string")})
            /\ Right(answer.blob, {ValueText(fields[i].value) : i \in Fields(<<"b">>, "nested")})

\* A valid key signs under every scheme, and the signature verifies under the
\* public key an observer computes: the point, its x coordinate, or for a key-path
\* spend the even point with that x plus the tweak.  Anything else is refused: a
\* key or a tweak that is not a scalar, and a tweak that cancels the key.
SignaturesVerify ==
    Answered("sign") =>
        LET lifted == CHOOSE p \in x(input.key) : ~y_is_odd(p)
            output == (lifted + input.tweak) % Order
            Valid == input.key \in Bytes /\ input.key \in 1..(Order - 1)
        IN  IF ~Valid \/ input.digest = "short" THEN ~answer.ok ELSE
            CASE input.scheme = "schnorr-bip340" ->
                    answer = Signature({input.key, Order - input.key}, input.digest)
              [] input.scheme = "schnorr-bip341" ->
                    IF input.tweak < Order /\ output # 0
                    THEN answer = Signature({output, Order - output}, input.digest)
                    ELSE ~answer.ok
              [] input.scheme \in {"ecdsa-recoverable", "ecdsa-der"} -> answer = Signature({input.key}, input.digest)
              [] OTHER -> ~answer.ok
=============================================================================
