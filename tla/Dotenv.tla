------------------------------- MODULE Dotenv ------------------------------
(***************************************************************************)
(* The text of an injected dotenv file (render_dotenv), and a shell that   *)
(* reads it.  Text is a sequence of one-character strings.                 *)
(***************************************************************************)
EXTENDS Integers, SequencesExt

Quote == "'"
NoFile == [ok |-> FALSE]

\* Fault: a quote is escaped inside the quotes.
write_shell_quoted_backslash(value) ==
    <<Quote>> \o FlattenSeq([i \in DOMAIN value |->
                    IF value[i] = Quote THEN <<"\\", Quote>> ELSE <<value[i]>>]) \o <<Quote>>

\* A quote ends the quoted text, stands escaped, and starts it again.
write_shell_quoted(value) ==
    <<Quote>> \o FlattenSeq([i \in DOMAIN value |->
                    IF value[i] = Quote THEN <<Quote, "\\", Quote, Quote>> ELSE <<value[i]>>])
              \o <<Quote>>

\* One line per secret; secret_utf8 refuses a value with a NUL or that is not text.
render_dotenv(secrets) ==
    IF \E i \in DOMAIN secrets : Contains(secrets[i].value, "nul") \/ Contains(secrets[i].value, "bad")
    THEN NoFile
    ELSE [ok |-> TRUE,
          text |-> FlattenSeq([i \in DOMAIN secrets |->
                      <<secrets[i].name, "=">> \o write_shell_quoted(secrets[i].value) \o <<"LF">>])]

-----------------------------------------------------------------------------
(* A shell that sources the file: quote removal inside and outside quotes,    *)
(* and a line that ends in a backslash goes on in the next; any other          *)
(* expansion, or an unfinished line, is not an assignment.                     *)

\* At the start of a line, with what was assigned before it.
LineStart(read) == [at |-> "name", name |-> "", value |-> <<>>, read |-> read]

ShellStep(sh, c) ==
    CASE sh.at = "name" -> [sh EXCEPT !.at = "=", !.name = c]
      [] sh.at = "=" -> [sh EXCEPT !.at = IF c = "=" THEN "bare" ELSE "refused"]
      [] sh.at = "quoted" -> IF c = Quote THEN [sh EXCEPT !.at = "bare"]
                             ELSE [sh EXCEPT !.value = Append(@, c)]
      [] sh.at = "escaped" -> [sh EXCEPT !.at = "bare",
                                         !.value = IF c = "LF" THEN @ ELSE Append(@, c)]
      [] sh.at = "bare" ->
            (CASE c = Quote -> [sh EXCEPT !.at = "quoted"]
               [] c = "\\" -> [sh EXCEPT !.at = "escaped"]
               [] c = "LF" -> LineStart(Append(sh.read, [name |-> sh.name, value |-> sh.value]))
               [] OTHER -> [sh EXCEPT !.at = "refused"])
      [] sh.at = "refused" -> sh

\* What it has read after each character.
Sourcing(text) ==
    LET sh[i \in 0..Len(text)] ==
            IF i = 0 THEN LineStart(<<>>) ELSE ShellStep(sh[i - 1], text[i])
    IN  sh

SourcedBy(text) ==
    LET end == Sourcing(text)[Len(text)]
    IN  IF end.at = "name" THEN [ok |-> TRUE, secrets |-> end.read] ELSE NoFile
=============================================================================
