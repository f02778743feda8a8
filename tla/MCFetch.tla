------------------------------ MODULE MCFetch ------------------------------
(***************************************************************************)
(* What deliver fetch is run on: a table of octets, requests, secrets and  *)
(* responses.                                                              *)
(***************************************************************************)
EXTENDS OneShot

\* Digits, letters, and everything that has a meaning or must be escaped.
MCHex ==
    [d \in {"0", "1", "2", "3", "4", "5", "6", "7", "8", "9"} |-> <<"3", d>>]
    @@ "A" :> <<"4", "1">> @@ "B" :> <<"4", "2">> @@ "C" :> <<"4", "3">> @@ "D" :> <<"4", "4">>
    @@ "E" :> <<"4", "5">> @@ "F" :> <<"4", "6">> @@ "e" :> <<"6", "5">> @@ "f" :> <<"6", "6">>
    @@ "k" :> <<"6", "B">> @@ "m" :> <<"6", "D">> @@ "n" :> <<"6", "E">> @@ "r" :> <<"7", "2">>
    @@ "u" :> <<"7", "5">> @@ "x" :> <<"7", "8">> @@ "y" :> <<"7", "9">> @@ "a" :> <<"6", "1">>
    @@ "nul" :> <<"0", "0">> @@ "tab" :> <<"0", "9">> @@ "LF" :> <<"0", "A">>
    @@ "CR" :> <<"0", "D">> @@ " " :> <<"2", "0">> @@ "#" :> <<"2", "3">> @@ "%" :> <<"2", "5">>
    @@ "&" :> <<"2", "6">> @@ "+" :> <<"2", "B">> @@ "=" :> <<"3", "D">> @@ "?" :> <<"3", "F">>
    @@ "[" :> <<"5", "B">> @@ "]" :> <<"5", "D">> @@ "xC3" :> <<"C", "3">>
    @@ "xA9" :> <<"A", "9">> @@ "bad" :> <<"F", "F">>

MCUnreserved == HexDigits \union {"a", "e", "f", "k", "m", "n", "r", "u", "x", "y"}

MCRedaction == <<"[", "r", "]">>

\* Secrets that are in the marker, repeat themselves, grow when encoded, hold what
\* a query is made of, end in a line end, or cannot be sent.
MCSecrets == {<<>>, <<"r">>, <<"x", "x">>, <<"x", "y", "x">>, <<"x", "[">>, <<"%">>,
              <<"a", " ", "&">>, <<"=", "#">>, <<"x", "LF">>, <<"x", "CR", "LF">>,
              <<"x", "nul">>, <<"xC3", "xA9">>, <<"tab", "?">>, <<"x", "y", "x", "y", "%">>}

NoHeaders == <<>>

\* name is of the query, header_name of the header the credential goes to.
Request(inject, header_name, name, url, headers) ==
    [scheme |-> "https", host |-> "host.example", loopback |-> FALSE, method |-> "GET",
     allowed_hosts |-> {"HOST.example"}, headers |-> headers, inject |-> inject,
     header_name |-> header_name, name |-> name, url |-> url]
Query(name, url, headers) == Request("query", "", name, url, headers)
Header(header_name, headers) == Request("header", header_name, <<>>, <<"u">>, headers)
Bearer(headers) == Request("bearer", "", <<>>, <<"u">>, headers)

Reply(status, text, header) == [status |-> status, text |-> text, header |-> header]

\* Responses put together from the secret, its encoded form and single bytes.
Pieces(secret) == {<<>>, <<"x">>, <<"r">>, <<"y">>, secret, push_query_encoded(secret)}
Texts(secret) == {p \o q \o s : p, q, s \in Pieces(secret)}

RedactionInputs ==
    UNION {{[kind |-> "fetch", secret |-> secret, request |-> r, response |-> Reply(200, t, TRUE)] :
               r \in {Header("X-Key", NoHeaders), Query(<<"n">>, <<"u">>, NoHeaders)},
               t \in Texts(secret)} : secret \in MCSecrets}

\* URLs with and without a query or a fragment, with the injected name written as it
\* is, as escapes of either case or with a byte in it that is dropped, with escapes
\* that are none, and with blanks at the end of the query and of the fragment.
MCUrls == {<<"u">>, <<"u", "?">>, <<"u", "?", "n", "=", "1">>, <<"u", "#", "f">>,
           <<"u", "?", "m", "&", "k", "=", "+", "#", "?", "n", " ">>,
           <<"u", "?", "%", "2", "6", "=", "1">>, <<"u", "?", "%", "6", "e">>,
           <<"u", "?", "%", "4", "%", "6", "E", "+", "%", "=", "1">>,
           <<"u", "?", "tab", "n", "LF">>, <<"u", "?", "n", " ">>, <<"u", "?", "n", "nul", "#">>,
           <<"u", "?", "k", "=", " ">>, <<"u", "?", " ", "CR">>}

QueryNames == {<<>>, <<"n">>, <<"&">>, <<"n", " ">>, <<"n", "nul">>, <<"%", "n">>, <<"n", "CR">>}

QueryInputs ==
    {[kind |-> "fetch", secret |-> secret, request |-> Query(n, u, NoHeaders),
      response |-> Reply(404, <<"x">>, FALSE)] :
        secret \in MCSecrets, n \in QueryNames, u \in MCUrls}

\* Headers, schemes, methods and hosts that are refused, and answers of every kind.
MCHeaders == {NoHeaders, "authorization" :> <<"y">>, "X-Key" :> <<"y", " ">>, "Host" :> <<"y">>,
              "X-Other" :> <<"y", "CR">>}

SendingInputs ==
    {[kind |-> "fetch", secret |-> secret, request |-> r, response |-> reply] :
        secret \in MCSecrets,
        r \in {Query(<<"n">>, <<"u">>, h) : h \in MCHeaders}
              \union {Bearer(h) : h \in MCHeaders}
              \union {Header(n, h) : n \in {"X-Key", "x-key", "Host"}, h \in MCHeaders}
              \union {[Bearer(NoHeaders) EXCEPT !.scheme = "http"],
                      [Bearer(NoHeaders) EXCEPT !.scheme = "http", !.loopback = TRUE],
                      [Bearer(NoHeaders) EXCEPT !.method = "TRACE"],
                      [Bearer(NoHeaders) EXCEPT !.allowed_hosts = {"other"}],
                      [Bearer(NoHeaders) EXCEPT !.allowed_hosts = {"bad/host", "host.example"}]},
        reply \in {Reply(0, <<>>, FALSE), Reply(404, <<"x">>, FALSE), Reply(200, <<"bad">>, FALSE)}}

MCFetches == RedactionInputs \union QueryInputs \union SendingInputs
=============================================================================
