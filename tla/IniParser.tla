------------------------------- MODULE IniParser -------------------------------
(***************************************************************************)
(* INIParser: configuration files, read one construct at a time.           *)
(*                                                                         *)
(* A file is a sequence of tokens.  "[", "]", "=" and the double quote     *)
(* stand for themselves, "NL" for a newline, " " for blanks, tabs and      *)
(* carriage returns, "#" for either comment character; every other token   *)
(* is a run of other characters.  A name or value of several tokens is     *)
(* known to no section and to no conversion: it is the text "?".           *)
(***************************************************************************)
EXTENDS Naturals, Sequences, FiniteSetsExt

Quote == "\""

Peek(text, i) == IF i <= Len(text) THEN text[i] ELSE "EOF"

\* The first position from i on whose token is in stops, or the end of the file.
FirstOf(text, i, stops) ==
  Min({k \in i..Len(text) : text[k] \in stops} \cup {Len(text) + 1})

\* whitespace()
SkipBlanks(text, i) == Min({k \in i..(Len(text) + 1) : Peek(text, k) # " "})

\* eat_rest_of_line() and newline()
NextLine(text, i) == Min({FirstOf(text, i, {"NL"}) + 1, Len(text) + 1})

Text(tokens) ==
  IF tokens = <<>> THEN "" ELSE IF Len(tokens) = 1 THEN tokens[1] ELSE "?"

\* get_ident() and get_value(): up to a newline, one of stops, or a comment
\* character behind a blank; blanks at the end are dropped.
PlainEnd(text, i, stops) ==
  Min({k \in i..Len(text) :
         \/ text[k] \in {"NL"} \cup stops
         \/ text[k] = "#" /\ k > i /\ text[k - 1] = " "} \cup {Len(text) + 1})
Trimmed(text, i, end) ==
  LET last == Max({k \in i..(end - 1) : text[k] # " "} \cup {i - 1})
  IN SubSeq(text, i, last)

\* get_ident_or_string() and get_value_or_string(); reading on at the end of
\* the file throws.
Word(text, i, stops) ==
  IF Peek(text, i) = Quote
  THEN LET close == FirstOf(text, i + 1, {Quote})
       IN [ok |-> close <= Len(text), text |-> Text(SubSeq(text, i + 1, close - 1)),
           next |-> close + 1]
  ELSE LET end == PlainEnd(text, i, stops)
       IN [ok |-> TRUE, text |-> Text(Trimmed(text, i, end)), next |-> end]

-----------------------------------------------------------------------------
(***************************************************************************)
(* One turn of the loop of INIParser::run.                                 *)
(***************************************************************************)

Read(kind, name, value, next) ==
  [kind |-> kind, name |-> name, value |-> value, next |-> next]
SyntaxError(text) == Read("error", "", "", Len(text) + 1)

\* What follows a section or a value on its line: nothing, or a comment.
EndsLine(text, i) == Peek(text, i) \in {"NL", "EOF", "#"}

Section(text, i) ==
  LET close == FirstOf(text, i + 1, {"]"})
      end   == SkipBlanks(text, close + 1)
  IN IF close > Len(text) \/ ~EndsLine(text, end) THEN SyntaxError(text)
     ELSE Read("section", Text(SubSeq(text, i + 1, close - 1)), "", NextLine(text, end))

Assignment(text, name, i) ==
  LET start == SkipBlanks(text, i)
      value == Word(text, start, {})
      end   == SkipBlanks(text, value.next)
  IN IF Peek(text, start) = "#" THEN Read("pair", name, "", NextLine(text, start))
     ELSE IF ~value.ok \/ ~EndsLine(text, end) THEN SyntaxError(text)
     ELSE Read("pair", name, value.text, NextLine(text, end))

NameValue(text, i) ==
  LET name == Word(text, i, {"="})
      k    == SkipBlanks(text, name.next)
  IN CASE ~name.ok            -> SyntaxError(text)
       [] Peek(text, k) = "=" -> Assignment(text, name.text, k + 1)
       [] Peek(text, k) = "#" -> Read("pair", name.text, "", NextLine(text, k))
       \* A name alone: the rest of the line is left to the next turn.
       [] OTHER               -> Read("pair", name.text, "", k)

Construct(text, i) ==
  CASE text[i] = "["           -> Section(text, i)
    [] text[i] \in {" ", "NL"} -> Read("skip", "", "", i + 1)
    [] text[i] = "#"           -> Read("skip", "", "", NextLine(text, i))
    [] OTHER                   -> NameValue(text, i)
=============================================================================
