------------------------------- MODULE Fetch -------------------------------
(***************************************************************************)
(* deliver fetch: the request that carries a credential out, and the       *)
(* answer that comes back with the credential taken out of it.             *)
(*                                                                         *)
(* Text is a sequence of octets, each named by its ASCII character; "nul", *)
(* "tab", "CR" and "LF" are control bytes, "xC3" and "xA9" the two that    *)
(* make up a character outside ASCII, and "bad" one that makes a text no   *)
(* UTF-8.  In the text that is redacted every byte carries the position it *)
(* had in the response, 0 if it is of the marker.                          *)
(***************************************************************************)
EXTENDS Integers, SequencesExt

CONSTANTS
    Redaction,  \* FETCH_REDACTION
    MaxBody,    \* MAX_FETCH_BODY_BYTES
    Hex,        \* the two upper-case hexadecimal digits of every octet
    Unreserved  \* the octets push_query_encoded leaves alone

ASSUME FetchAssumption ==
    /\ Redaction \in Seq(STRING) /\ Redaction # <<>>
    /\ Head(Redaction) = "[" /\ Last(Redaction) = "]"
    /\ MaxBody \in Nat

Octet == DOMAIN Hex
HexDigits == {"0", "1", "2", "3", "4", "5", "6", "7", "8", "9", "A", "B", "C", "D", "E", "F"}

\* Bytes below 0x20, those of them Url::parse drops wherever they are, and those it
\* drops at the ends only.
Controls == {"nul", "tab", "CR", "LF"}
Dropped == {"tab", "CR", "LF"}
Blank == Controls \union {" "}

ASSUME HexAssumption ==
    /\ Hex \in [Octet -> HexDigits \X HexDigits]
    /\ \A c, d \in Octet : Hex[c] = Hex[d] => c = d
    /\ HexDigits \subseteq Unreserved /\ Unreserved \subseteq Octet /\ Octet \subseteq STRING
    /\ Blank \union {"%", "&", "=", "#", "+", "?", "[", "]", "xC3", "xA9", "bad"}
           \subseteq Octet \ Unreserved

Failed == [ok |-> FALSE]

\* eq_ignore_ascii_case, on the names the instances use
Lower(name) == CASE name = "Authorization" -> "authorization"
                 [] name = "X-Key" -> "x-key"
                 [] name = "HOST.example" -> "host.example"
                 [] OTHER -> name

-----------------------------------------------------------------------------
(* The query *)

\* Fault: control bytes are sent as they are.
push_query_encoded_controls(value) ==
    FlattenSeq([i \in DOMAIN value |->
        CASE value[i] = " " -> <<"+">>
          [] value[i] \in Unreserved \union Controls -> <<value[i]>>
          [] OTHER -> <<"%">> \o Hex[value[i]]])

push_query_encoded(value) ==
    FlattenSeq([i \in DOMAIN value |->
        CASE value[i] = " " -> <<"+">>
          [] value[i] \in Unreserved -> <<value[i]>>
          [] OTHER -> <<"%">> \o Hex[value[i]]])

\* Where the first c of s is; just after s if there is none.
Find(s, c) ==
    IF Contains(s, c) THEN CHOOSE i \in DOMAIN s : s[i] = c /\ \A j \in 1..(i - 1) : s[j] # c
    ELSE Len(s) + 1

Before(s, c) == SubSeq(s, 1, Find(s, c) - 1)
After(s, c) == SubSeq(s, Find(s, c) + 1, Len(s))

build_secret_query_url(url, name, value) ==
    LET base == Before(url, "#")
    IN  base \o <<IF Contains(base, "?") THEN "&" ELSE "?">>
             \o push_query_encoded(name) \o <<"=">> \o push_query_encoded(value)
             \o SubSeq(url, Find(url, "#"), Len(url))

\* Url::parse takes blanks off the ends of a URL; those in front of it are in front
\* of its query too.
Parsed(url) ==
    SubSeq(url, 1, CHOOSE n \in 0..Len(url) : /\ n > 0 => url[n] \notin Blank
                                             /\ \A i \in (n + 1)..Len(url) : url[i] \in Blank)

\* A server that reads the query of a URL: the pairs it has, the one under way,
\* whether it is at the name or the value of it (or in front of the query, or past
\* it) and the escape under way.
QueryStart == [at |-> "path", pairs |-> <<>>, name |-> <<>>, value |-> <<>>, escape |-> <<>>]

\* More text for the name or the value, whichever it is at.
Read(q, text) ==
    IF q.at = "name" THEN [q EXCEPT !.name = @ \o text, !.escape = <<>>]
    ELSE [q EXCEPT !.value = @ \o text, !.escape = <<>>]

\* A hexadecimal digit may be in lower case.
Digit(c) == CASE c = "a" -> "A" [] c = "b" -> "B" [] c = "c" -> "C" [] c = "d" -> "D"
              [] c = "e" -> "E" [] c = "f" -> "F" [] OTHER -> c

\* The octet an escape stands for.
Unescaped(escape) ==
    LET Spelt(c) == Hex[c] = <<Digit(escape[2]), Digit(escape[3])>>
    IN  IF \E c \in Octet : Spelt(c) THEN <<CHOOSE c \in Octet : Spelt(c)>> ELSE escape

\* The pair ends; nothing between two separators is not a pair.
EndPair(q, next) ==
    LET last == Read(q, q.escape)
    IN  [at |-> next, name |-> <<>>, value |-> <<>>, escape |-> <<>>,
         pairs |-> IF q.at = "path" \/ (q.at = "name" /\ last.name = <<>>) THEN q.pairs
                   ELSE Append(q.pairs, <<last.name, last.value>>)]

\* What is no escape after all stays as it is.
QueryStep(q, c) ==
    IF q.at = "past" \/ c \in Dropped THEN q
    ELSE IF c = "#" THEN EndPair(q, "past")
    ELSE IF q.at = "path" THEN IF c = "?" THEN EndPair(q, "name") ELSE q
    ELSE IF c = "&" THEN EndPair(q, "name")
    ELSE IF c = "=" /\ q.at = "name" THEN [Read(q, q.escape) EXCEPT !.at = "value"]
    ELSE IF q.escape # <<>> /\ Digit(c) \in HexDigits
         THEN IF Len(q.escape) = 2 THEN Read(q, Unescaped(Append(q.escape, c)))
              ELSE [q EXCEPT !.escape = Append(@, c)]
    ELSE IF c = "%" THEN [Read(q, q.escape) EXCEPT !.escape = <<c>>]
    ELSE Read(q, Append(q.escape, IF c = "+" THEN " " ELSE c))

\* What it has read after each character.
ReadingQuery(url) ==
    LET q[i \in 0..Len(url)] == IF i = 0 THEN QueryStart ELSE QueryStep(q[i - 1], url[i])
    IN  q

\* Url::parse and Url::query_pairs: the pairs of a URL, as the server will read them.
query_pairs(url) ==
    LET q == ReadingQuery(Parsed(url))[Len(Parsed(url))]
    IN  IF q.at = "past" THEN q.pairs ELSE EndPair(q, "past").pairs

-----------------------------------------------------------------------------
(* Redaction *)

Tagged(text) == [i \in DOMAIN text |-> [c |-> text[i], at |-> i]]
Text(bytes) == [i \in DOMAIN bytes |-> bytes[i].c]
Marker == [i \in DOMAIN Redaction |-> [c |-> Redaction[i], at |-> 0]]

Spells(bytes, i, needle) ==
    /\ i + Len(needle) - 1 <= Len(bytes)
    /\ \A k \in DOMAIN needle : bytes[i + k - 1].c = needle[k]

\* Fault: the last place a needle fits is not looked at.
find_subslice_short(bytes, index, needle) ==
    {i \in index..(Len(bytes) - Len(needle)) :
        Spells(bytes, i, needle) /\ \A j \in index..(i - 1) : ~Spells(bytes, j, needle)}

\* The first match at or after index: a set of at most one position.
find_subslice(bytes, index, needle) ==
    {i \in index..Len(bytes) :
        Spells(bytes, i, needle) /\ \A j \in index..(i - 1) : ~Spells(bytes, j, needle)}

\* The loop both passes run: the matches of its first rounds, left to right, none
\* overlapping the one before.  A round that finds one moves on by a byte at least.
NextMatch(bytes, needle, found) ==
    find_subslice(bytes, IF found = <<>> THEN 1 ELSE Last(found) + Len(needle), needle)

Rounds(bytes, needle) ==
    LET found[n \in 0..Len(bytes)] ==
            IF n = 0 THEN <<>>
            ELSE LET before == found[n - 1]
                     next == NextMatch(bytes, needle, before)
                 IN  IF next = {} THEN before ELSE Append(before, CHOOSE i \in next : TRUE)
    IN  found

Matches(bytes, needle) == Rounds(bytes, needle)[Len(bytes)]

\* Fault: growth is not foreseen.
redacted_body_len_unchecked(body_len, matches, needle_len) == body_len

redacted_body_len(body_len, matches, needle_len) ==
    body_len + matches * (Len(Redaction) - needle_len)

\* redact_verbatim_bytes: count, check the size, then build.
redact_verbatim_bytes(body, needle) ==
    LET found == IF needle = <<>> THEN <<>> ELSE Matches(body.bytes, needle)
        From(k) == IF k = 0 THEN 1 ELSE found[k] + Len(needle)
        To(k) == IF k = Len(found) THEN Len(body.bytes) ELSE found[k + 1] - 1
    IN  IF found = <<>> THEN body
        ELSE IF redacted_body_len(Len(body.bytes), Len(found), Len(needle)) > MaxBody
             THEN Failed
             ELSE [ok |-> TRUE,
                   bytes |-> SubSeq(body.bytes, 1, To(0)) \o
                             FlattenSeq([k \in DOMAIN found |->
                                 Marker \o SubSeq(body.bytes, From(k), To(k))])]

\* redact_fetch_body: the body after each needle, until one fails.
Redacting(text, needles) ==
    LET body[n \in 0..Len(needles)] ==
            IF n = 0 THEN [ok |-> TRUE, bytes |-> Tagged(text)]
            ELSE LET before == body[n - 1]
                 IN  IF before.ok THEN redact_verbatim_bytes(before, needles[n]) ELSE Failed
    IN  body

RedactAll(text, needles) == Redacting(text, needles)[Len(needles)]

\* read_capped_fetch_body
read_capped_fetch_body(text, needles) ==
    IF Len(text) > MaxBody \/ Contains(text, "bad") THEN Failed
    ELSE RedactAll(text, needles)

\* A header is text already and is not capped unless it is redacted.
redact_fetch_header_text(text, needles) == RedactAll(text, needles)

-----------------------------------------------------------------------------
(* The request *)

validate_fetch_method(method) == method \notin {"TRACE", "TRACK", "CONNECT", "BAD METHOD"}

validate_fetch_url(r) == r.scheme = "https" \/ (r.scheme = "http" /\ r.loopback)

\* A host that is not just a host name makes the whole request invalid.
validate_allowed_fetch_host(r) ==
    /\ "bad/host" \notin r.allowed_hosts
    /\ \E h \in r.allowed_hosts : Lower(h) = Lower(r.host)

validate_header_name(name) == name \notin {"", "Host", "bad name"}

validate_header(name, value) ==
    validate_header_name(name) /\ \A i \in DOMAIN value : value[i] \notin Controls

\* Fault: header names are compared as they are written.
reject_header_conflict_exact(headers, name) == name \notin DOMAIN headers

reject_header_conflict(headers, name) == \A h \in DOMAIN headers : Lower(h) # Lower(name)

validate_query_name(name) == name # <<>> /\ ~Contains(name, "CR") /\ ~Contains(name, "LF")

reject_query_conflict(url, name) ==
    LET pairs == query_pairs(url) IN \A i \in DOMAIN pairs : pairs[i][1] # name

\* The place for the credential must be free.
validate_fetch_input(r) ==
    /\ validate_fetch_url(r) /\ validate_allowed_fetch_host(r) /\ validate_fetch_method(r.method)
    /\ \A h \in DOMAIN r.headers : validate_header(h, r.headers[h])
    /\ CASE r.inject = "bearer" -> reject_header_conflict(r.headers, "Authorization")
         [] r.inject = "header" -> /\ validate_header_name(r.header_name)
                                   /\ reject_header_conflict(r.headers, r.header_name)
         [] OTHER -> validate_query_name(r.name) /\ reject_query_conflict(r.url, r.name)

\* One line end is taken off; what is left is ASCII without control bytes.
fetch_header_credential_bytes(secret) ==
    LET n == Len(secret)
        trimmed == IF n > 0 /\ secret[n] \in {"CR", "LF"} THEN SubSeq(secret, 1, n - 1)
                   ELSE secret
    IN  IF \E i \in DOMAIN trimmed : trimmed[i] \in Controls \union {"xC3", "xA9", "bad"} THEN Failed
        ELSE [ok |-> TRUE, text |-> trimmed]

\* execute_fetch_request: what is sent, and the needles to redact.
Inject(r, secret) ==
    LET credential == IF r.inject # "query" THEN fetch_header_credential_bytes(secret)
                      ELSE IF Contains(secret, "nul") \/ Contains(secret, "bad") THEN Failed
                      ELSE [ok |-> TRUE, text |-> secret]
    IN  IF ~credential.ok THEN Failed
        ELSE [ok |-> TRUE,
              url |-> IF r.inject = "query"
                      THEN build_secret_query_url(r.url, r.name, secret) ELSE r.url,
              header |-> CASE r.inject = "bearer" -> <<"Authorization", <<"Bearer ">> \o credential.text>>
                           [] r.inject = "header" -> <<r.header_name, credential.text>>
                           [] OTHER -> <<>>,
              needles |-> IF credential.text = <<>> THEN <<>>
                          ELSE IF r.inject = "query" THEN <<secret, push_query_encoded(secret)>>
                          ELSE <<credential.text>>]

\* perform_fetch, on the response of a server that is sent the credential.
PerformFetch(sent, response) ==
    LET header == redact_fetch_header_text(response.text, sent.needles)
        body == read_capped_fetch_body(response.text, sent.needles)
    IN  IF response.status = 0 \/ (response.header /\ ~header.ok) \/ ~body.ok THEN Failed
        ELSE [ok |-> TRUE, status |-> response.status, body |-> body.bytes,
              header |-> IF response.header THEN header.bytes ELSE <<>>]

fetch_output_exit_code(answer) == IF answer.status \in 200..299 THEN 0 ELSE 1

\* deliver_fetch_cmd, once the envelope is open.
deliver_fetch(r, secret, response) ==
    LET sent == IF validate_fetch_input(r) THEN Inject(r, secret) ELSE Failed
        answer == IF sent.ok THEN PerformFetch(sent, response) ELSE Failed
    IN  [sent |-> sent, answer |-> answer,
         exit |-> IF answer.ok THEN fetch_output_exit_code(answer) ELSE 1]
=============================================================================
