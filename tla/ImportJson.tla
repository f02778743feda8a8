---------------------------- MODULE ImportJson -----------------------------
(***************************************************************************)
(* The scanner key import reads its passphrase and its blob with.  It does *)
(* not parse the document: it walks over it to one field and leaves what   *)
(* follows alone, so that the passphrase is never copied into a parser's   *)
(* buffers.                                                                *)
(*                                                                         *)
(* Text is a sequence of tokens of one character, but for "true", which    *)
(* stands for the literals, and for the rest of a unicode escape after its *)
(* backslash: "uX" is one that stands for itself, "uHI" and "uLO" are the  *)
(* halves of a surrogate pair. Positions are numbers from 1; 0 is an       *)
(* error.                                                                  *)
(***************************************************************************)
EXTENDS Integers, Sequences

CONSTANT MaxStdinSecret  \* MAX_STDIN_SECRET_BYTES

ASSUME ImportAssumption == MaxStdinSecret \in Nat

Spaces == {" ", "LF", "CR", "TAB"}
ControlBytes == {"LF", "CR", "TAB", "ctl"}

\* input.get(i)
Get(s, i) == IF i \in DOMAIN s THEN s[i] ELSE "end"

\* The first position from i on that holds none of the tokens.
SkipAll(s, i, tokens) ==
    CHOOSE j \in i..(i + Len(s)) :
        Get(s, j) \notin tokens /\ \A k \in i..(j - 1) : Get(s, k) \in tokens

skip_json_ws(s, i) == SkipAll(s, i, Spaces)

\* What the escape at i, just after its backslash, stands for, and the position
\* after it.
decode_escape(s, i) ==
    LET Simple(c) == [ok |-> TRUE, char |-> c, next |-> i + 1]
    IN  CASE Get(s, i) \in {"\"", "\\", "/"} -> Simple(s[i])
          [] Get(s, i) = "b" -> Simple("BS")
          [] Get(s, i) = "f" -> Simple("FF")
          [] Get(s, i) = "n" -> Simple("LF")
          [] Get(s, i) = "r" -> Simple("CR")
          [] Get(s, i) = "t" -> Simple("TAB")
          [] Get(s, i) = "uX" -> Simple("X")
          [] Get(s, i) = "uHI" /\ Get(s, i + 1) = "\\" /\ Get(s, i + 2) = "uLO" ->
                [ok |-> TRUE, char |-> "HILO", next |-> i + 3]
          [] OTHER -> [ok |-> FALSE]

NotText == [ok |-> FALSE]

\* The text from each position on, inside a string, up to the quote that ends it.
Decoding(s) ==
    LET After(char, rest) == IF rest.ok THEN [ok |-> TRUE, text |-> <<char>> \o rest.text]
                             ELSE NotText
        from[i \in 1..(Len(s) + 1)] ==
            IF Get(s, i) = "\"" THEN [ok |-> TRUE, text |-> <<>>]
            ELSE IF Get(s, i) = "\\"
                 THEN LET escape == decode_escape(s, i + 1)
                      IN  IF escape.ok THEN After(escape.char, from[escape.next]) ELSE NotText
            ELSE IF Get(s, i) \in ControlBytes \union {"end"} THEN NotText
            ELSE After(s[i], from[i + 1])
    IN  from

\* More than MaxStdinSecret is refused, wherever the decoding was when it was.
decode_json_string_bytes(s, start) ==
    LET decoded == IF Get(s, start) = "\"" THEN Decoding(s)[start + 1] ELSE NotText
    IN  IF decoded.ok /\ Len(decoded.text) > MaxStdinSecret THEN NotText ELSE decoded

\* Fault: a quote ends the string whatever is before it.
StringEndPlain(s) ==
    LET end[i \in 1..(Len(s) + 1)] ==
            IF Get(s, i) = "\"" THEN i + 1
            ELSE IF Get(s, i) \in ControlBytes \union {"end"} THEN 0
            ELSE end[i + 1]
    IN  end

\* Where the string that each position is in ends.
StringEnd(s) ==
    LET end[i \in 1..(Len(s) + 1)] ==
            IF Get(s, i) = "\"" THEN i + 1
            ELSE IF Get(s, i) = "\\" THEN IF Get(s, i + 1) = "end" THEN 0 ELSE end[i + 2]
            ELSE IF Get(s, i) \in ControlBytes \union {"end"} THEN 0
            ELSE end[i + 1]
    IN  end

json_string_end(s, start) == IF Get(s, start) = "\"" THEN StringEnd(s)[start + 1] ELSE 0

Opens == {"{", "["}
Closes == [c \in {"}", "]"} |-> IF c = "}" THEN "{" ELSE "["]

\* The open brackets, the last one first; the code pops none when there is none.
Stacks == Seq(Opens) \ {<<>>}

\* The end, from each position on, of an object or an array whose open brackets
\* are the stack.
CompoundEnd(s) ==
    LET end[i \in 1..(Len(s) + 1)] == [stack \in Stacks |->
            IF Get(s, i) = "end" THEN 0
            ELSE IF Get(s, i) = "\""
                 THEN IF json_string_end(s, i) = 0 THEN 0 ELSE end[json_string_end(s, i)][stack]
            ELSE IF Get(s, i) \in Opens THEN end[i + 1][<<s[i]>> \o stack]
            ELSE IF Get(s, i) \in DOMAIN Closes
                 THEN IF Head(stack) # Closes[s[i]] THEN 0
                      ELSE IF Tail(stack) = <<>> THEN i + 1
                      ELSE end[i + 1][Tail(stack)]
            ELSE end[i + 1][stack]]
    IN  end

json_compound_end(s, start) == CompoundEnd(s)[start + 1][<<s[start]>>]

\* Digits, signs and letters, those that documents of the instances have.
ScalarBytes == {"1", "-", "+", ".", "x", "p", "b", "f", "n", "r", "t", "true"}

json_scalar_end(s, i) == SkipAll(s, i, ScalarBytes)

json_value_end(s, start) ==
    CASE Get(s, start) = "\"" -> json_string_end(s, start)
      [] Get(s, start) \in {"{", "["} -> json_compound_end(s, start)
      [] Get(s, start) \in {"1", "-"} -> json_scalar_end(s, start)
      [] Get(s, start) = "true" -> start + 1
      [] OTHER -> 0

\* find_json_field_value, from the key at each position (or the end of the object)
\* on.
Finding(s, field) ==
    LET found[i \in 1..(Len(s) + 1)] ==
            LET at == skip_json_ws(s, i)
                key == decode_json_string_bytes(s, at)
                colon == skip_json_ws(s, json_string_end(s, at))
                value == skip_json_ws(s, colon + 1)
                end == json_value_end(s, value)
                after == skip_json_ws(s, end)
            IN  IF ~key.ok \/ json_string_end(s, at) = 0 \/ Get(s, colon) # ":" THEN 0
                ELSE IF key.text = field THEN value
                ELSE IF end = 0 \/ Get(s, after) # "," THEN 0
                ELSE found[after + 1]
    IN  found

find_json_field_value(s, field) ==
    LET start == skip_json_ws(s, 1)
    IN  IF Get(s, start) = "{" THEN Finding(s, field)[start + 1] ELSE 0

import_passphrase_from_json(s, field) ==
    LET start == find_json_field_value(s, field)
    IN  IF start = 0 THEN NotText ELSE decode_json_string_bytes(s, start)

\* External, serde_json: only an object or an array can be a struct's text.
IsStruct(text) == Get(text, 1) \in {"{", "["}

\* The blob is the text that serde_json parses.
import_blob_from_json(s, field) ==
    LET start == find_json_field_value(s, field)
        end == IF start = 0 THEN 0 ELSE json_value_end(s, start)
        text == SubSeq(s, start, end - 1)
    IN  IF end # 0 /\ IsStruct(text) THEN [ok |-> TRUE, text |-> text] ELSE NotText
=============================================================================
