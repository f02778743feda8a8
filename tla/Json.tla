-------------------------------- MODULE Json --------------------------------
(***************************************************************************)
(* JSON as it is written and what it means: the reference for ImportJson,  *)
(* whose tokens it shares.  It is not a parser: a document is given with   *)
(* the structure it was written from.                                      *)
(*                                                                         *)
(* A string is a sequence of pieces, each a token that stands for itself   *)
(* or a backslash with what follows it.  A value is a string, a bare one   *)
(* (a number or a word), or a nested one: an object or an array, given as  *)
(* the brackets, strings and other tokens it is written with.              *)
(***************************************************************************)
EXTENDS Integers, SequencesExt

SurrogatePair == <<"\\", "uHI", "\\", "uLO">>

\* What an escape of two tokens stands for, by its second.
Escaped == [e \in {"\"", "\\", "/", "b", "f", "n", "r", "t", "uX"} |->
              CASE e = "b" -> "BS" [] e = "f" -> "FF" [] e = "n" -> "LF" [] e = "r" -> "CR"
                [] e = "t" -> "TAB" [] e = "uX" -> "X" [] OTHER -> e]

IsPlain(piece) ==
    Len(piece) = 1 /\ piece[1] \notin {"\"", "\\", "LF", "CR", "TAB", "ctl", "end"}
IsEscape(piece) == Len(piece) = 2 /\ piece[1] = "\\" /\ piece[2] # "end"

\* An escape may stand for nothing; two halves of a pair are one piece.
IsString(pieces) ==
    /\ pieces \in Seq(Seq(STRING))
    /\ \A k \in DOMAIN pieces :
          IsPlain(pieces[k]) \/ IsEscape(pieces[k]) \/ pieces[k] = SurrogatePair
    /\ \A k \in 1..(Len(pieces) - 1) :
          pieces[k] \o pieces[k + 1] # SurrogatePair

StringText(pieces) == <<"\"">> \o FlattenSeq(pieces) \o <<"\"">>

\* The character a piece stands for, if any: a set of at most one.
Stands(piece) ==
    IF Len(piece) = 1 THEN {piece[1]}
    ELSE IF piece = SurrogatePair THEN {"HILO"}
    ELSE {Escaped[e] : e \in DOMAIN Escaped \intersect {piece[2]}}

\* The text a string stands for, if any.
Means(pieces) ==
    IF \E k \in DOMAIN pieces : Stands(pieces[k]) = {} THEN {}
    ELSE {[k \in DOMAIN pieces |-> CHOOSE c \in Stands(pieces[k]) : TRUE]}

-----------------------------------------------------------------------------

Bracket == [open \in {"{", "["} |-> IF open = "{" THEN "}" ELSE "]"]

\* What a nested value is made of.
StringItem(pieces) == [is |-> "string", pieces |-> pieces]
TokenItem(token) == [is |-> "token", token |-> token]

IsItem(item) ==
    \/ item.is = "string" /\ IsString(item.pieces)
    \/ item.is = "token" /\ item.token \in STRING \ {"\"", "end"}

ItemText(item) == IF item.is = "string" THEN StringText(item.pieces) ELSE <<item.token>>

IsOpening(item) == item.is = "token" /\ item.token \in DOMAIN Bracket
IsClosing(item) == item.is = "token" /\ \E open \in DOMAIN Bracket : item.token = Bracket[open]

\* How many brackets are open after each item.
Depth(items) ==
    LET depth[k \in 0..Len(items)] ==
            IF k = 0 THEN 0
            ELSE depth[k - 1] + (IF IsOpening(items[k]) THEN 1
                                 ELSE IF IsClosing(items[k]) THEN -1 ELSE 0)
    IN  depth

\* One pair of brackets around everything, and each closed by one of its kind.
IsNested(items) ==
    LET depth == Depth(items)
        Closes(j, i) == /\ IsOpening(items[i]) /\ IsClosing(items[j])
                        /\ depth[j] = depth[i] - 1 /\ \A k \in i..(j - 1) : depth[k] >= depth[i]
    IN  /\ items \in Seq(Range(items)) /\ \A k \in DOMAIN items : IsItem(items[k])
        /\ items # <<>> /\ IsOpening(items[1])
        /\ depth[Len(items)] = 0 /\ \A k \in 1..(Len(items) - 1) : depth[k] > 0
        /\ \A i, j \in DOMAIN items :
              i < j /\ Closes(j, i) => items[j].token = Bracket[items[i].token]

StringValue(pieces) == [is |-> "string", pieces |-> pieces]
BareValue(tokens) == [is |-> "bare", tokens |-> tokens]
NestedValue(items) == [is |-> "nested", items |-> items]

IsNumber(tokens) ==
    /\ tokens \in Seq({"1", "-", "+", "."}) /\ tokens # <<>>
    /\ tokens[1] \in {"1", "-"}

IsValue(value) ==
    \/ value.is = "string" /\ IsString(value.pieces)
    \/ value.is = "bare" /\ (value.tokens = <<"true">> \/ IsNumber(value.tokens))
    \/ value.is = "nested" /\ IsNested(value.items)

ValueText(value) ==
    CASE value.is = "string" -> StringText(value.pieces)
      [] value.is = "bare" -> value.tokens
      [] value.is = "nested" ->
            FlattenSeq([k \in DOMAIN value.items |-> ItemText(value.items[k])])

-----------------------------------------------------------------------------

\* An object whose fields have a key and a value, with the same spaces wherever
\* there may be some.
ObjectText(fields, gap) ==
    LET Field(f) == gap \o StringText(f.key) \o gap \o <<":">> \o gap \o ValueText(f.value) \o gap
    IN  gap \o <<"{">>
            \o FlattenSeq([i \in DOMAIN fields |->
                  Field(fields[i]) \o <<IF i < Len(fields) THEN "," ELSE "}">>])
            \o IF fields = <<>> THEN <<"}">> ELSE <<>>

IsObject(fields) ==
    /\ fields \in Seq(Range(fields))
    /\ \A i \in DOMAIN fields : IsString(fields[i].key) /\ IsValue(fields[i].value)
=============================================================================
