----------------------------- MODULE MCOneShot -----------------------------
(***************************************************************************)
(* The one-shot side of avault for TLC: one command is delivered, a vault  *)
(* of rows is worked on, or one text command is run; which of the three is *)
(* chosen at the start and the other two stay as they were.                *)
(***************************************************************************)
EXTENDS Deliver, Vault, MCFetch

VARIABLE part

mcvars == <<part, dvars, vvars, ovars>>

-----------------------------------------------------------------------------
(* Deliver: every list of up to two secrets, and three good ones *)

Good(t) == [target |-> t, fault |-> "none"]
SecretSet == [target: {"A", "B"}, fault: Faults]
MCJobs == [by: {"cli", "agent"}, what: {"run", "inject"},
           secrets: {<<>>, <<Good("A"), Good("B"), Good("C")>>}
                    \union {<<s>> : s \in SecretSet} \union {<<s, t>> : s, t \in SecretSet}]

-----------------------------------------------------------------------------
(* Vault: a name that ends as the associated data of the other does *)

MCNames == {<<"A">>, <<"A", WRAP_SCHEME, WRAP_META_VERSION>>}
MCPassphrases == {<<>>, <<"p">>, <<"p", "CR", "LF">>, <<"q", "LF">>}
MCRecords == {<<>>, <<"static">>, <<"keypair", "PK">>, <<"keypair", "pk">>}

-----------------------------------------------------------------------------
(* Dotenv, import documents and signing *)

Values == UNION {[1..n -> {"x", "'", "\\", "LF", "$"}] : n \in 0..3}
MCInjects ==
    {[kind |-> "inject", secrets |-> <<[name |-> "A", value |-> v]>>] : v \in Values}
    \union {[kind |-> "inject", secrets |-> <<[name |-> "A", value |-> v], [name |-> "B", value |-> w]>>] :
               v, w \in {<<>>, <<"'">>, <<"LF", "B", "=">>, <<"nul">>}}

Characters(text) == [i \in DOMAIN text |-> <<text[i]>>]

\* Keys that are looked for, one with an escape and one that is no text.
MCKeys == {Characters(<<"p">>), Characters(<<"b">>), <<<<"\\", "\"">>>>, <<<<"\\", "uHI">>>>}

\* Strings with every kind of escape, one that is no text and one too long; values
\* that hold what looks like more fields, or brackets that are text.
Strings == {<<>>, <<<<"\\", "\"">>, <<"\\", "\\">>>>,
            <<<<"\\", "uHI", "\\", "uLO">>, <<"\\", "n">>>>, <<<<"}">>, <<"\\", "uX">>, <<"\\", "b">>>>,
            <<<<"\\", "uHI">>, <<"x">>>>, Characters(<<"x", "x", "x", "x">>)}
Token(tokens) == [i \in DOMAIN tokens |-> TokenItem(tokens[i])]
NestedItems ==
    {Token(<<"{">>) \o <<StringItem(Characters(<<"p">>))>> \o Token(<<":">>)
        \o <<StringItem(Characters(<<"x">>))>> \o Token(<<"}">>),
     Token(<<"[">>) \o <<StringItem(<<<<"]">>, <<"\\", "\"">>>>)>> \o Token(<<",", "{", "}", "]">>)}

MCValues == {StringValue(s) : s \in Strings} \union {NestedValue(items) : items \in NestedItems}
                \union {BareValue(<<"-", "1">>), BareValue(<<"true">>)}

MCDocuments ==
    LET FieldSet == [key: MCKeys, value: MCValues]
        Document(fields, gap, cut) == [kind |-> "import", fields |-> fields, gap |-> gap, cut |-> cut]
    IN  {Document(<<f>>, gap, c) : f \in FieldSet, gap \in {<<>>, <<" ", "LF">>}, c \in 0..14}
        \union {Document(<<f, g>>, <<" ">>, c) : f, g \in FieldSet, c \in {0, 1, 2, 4, 7}}
        \union {Document(<<>>, <<>>, c) : c \in 0..2}

MCSigns == [kind: {"sign"}, scheme: Schemes \union {"other"}, key: 0..16,
            digest: {"d", "short"}, tweak: 0..15]
MCBytes == 0..15

-----------------------------------------------------------------------------

MCInit ==
    /\ part \in {"deliver", "vault", "text"}
    /\ VaultInit
    /\ IF part = "deliver" THEN DeliverInit
       ELSE NothingDone /\ job = (CHOOSE j \in Jobs : j.secrets = <<>>)
    /\ IF part = "text" THEN OneShotInit
       ELSE input = [kind |-> "none"] /\ answer = Unanswered

MCNext ==
    \/ part = "deliver" /\ DeliverNext /\ UNCHANGED <<part, vvars, ovars>>
    \/ part = "vault" /\ VaultNext /\ UNCHANGED <<part, dvars, ovars>>
    \/ part = "text" /\ OneShotNext /\ UNCHANGED <<part, dvars, vvars>>

\* Deliver's fairness; the others have no liveness property.
MCSpec ==
    /\ MCInit /\ [][MCNext]_mcvars
    /\ WF_mcvars(part = "deliver" /\ Deliverer /\ UNCHANGED <<part, vvars, ovars>>)
    /\ WF_mcvars(part = "deliver" /\ Helper /\ UNCHANGED <<part, vvars, ovars>>)
=============================================================================
