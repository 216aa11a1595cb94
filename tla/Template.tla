------------------------------ MODULE Template -------------------------------
(***************************************************************************)
(* pkg/engine/template.go: how the text of a template is adapted before    *)
(* text/template parses it.                                                *)
(*                                                                         *)
(* A text is a sequence of tokens.  preprocessTemplate only ever inserts   *)
(* dots, so its result is represented by the positions that get one.       *)
(***************************************************************************)
EXTENDS Integers, Sequences, FiniteSets

VARIABLE text \* the template at hand

Open  == "{{"
Close == "}}"
Quote == "quote"
Tick  == "tick"
Apos  == "apostrophe"
Esc   == "backslash"
Space == " "
Pipe  == "|"
OpenComment  == "{{/*"
CloseComment == "*/}}"

ContextVar == "trigger.a" \* trigger., system. or headers. with a field
BareVar == "queue"        \* queue or routing_key
Identifiers == {ContextVar, BareVar, "x"}

-----------------------------------------------------------------------------
(* preprocessTemplate.                                                     *)

Quotes == {Quote, Tick}
Separators == {Space, Pipe}
Begins == {Open, OpenComment} \* where a text holds "{{"
Ends   == {Close, CloseComment}

(* The first position from i on that holds one of the tokens, or the one   *)
(* past the end.                                                           *)
FirstFrom(s, i, tokens) ==
  CHOOSE j \in i..(Len(s) + 1) :
    /\ j = Len(s) + 1 \/ s[j] \in tokens
    /\ \A k \in i..(j - 1) : s[k] \notin tokens

Shift(set, n) == {i + n : i \in set}

(* contextVarRegex and bareVarRegex. *)
rewriteCode(code) ==
  {i \in DOMAIN code :
    /\ i = 1 \/ code[i - 1] \in Separators
    /\ \/ code[i] = ContextVar
       \/ code[i] = BareVar /\ (i = Len(code) \/ code[i + 1] \notin Identifiers)}

(* Where the string literal that begins at i is over; escapes are the      *)
(* quotes in whose literals a backslash takes the next character along.    *)
literal(content, escapes, i) ==
  LET n == Len(content)
      past[j \in (i + 1)..(n + 2)] ==
        IF j > n THEN n + 1
        ELSE IF content[j] = content[i] THEN j + 1
        ELSE IF content[i] \in escapes /\ content[j] = Esc THEN past[j + 2]
        ELSE past[j + 1]
  IN  past[i + 1]

(* Code segments are rewritten, string literals are skipped. *)
Scan(content, escapes) ==
  LET n == Len(content)
      scan[i \in 1..(n + 1)] ==
        IF i > n THEN {}
        ELSE IF content[i] \in Quotes THEN scan[literal(content, escapes, i)]
        ELSE LET j == FirstFrom(content, i, Quotes)
             IN  Shift(rewriteCode(SubSeq(content, i, j - 1)), i - 1) \cup scan[j]
  IN  scan[1]

(* Mutant: a backslash in a literal is a character like any other. *)
rewriteActionNoEscape(content) == Scan(content, {})

rewriteAction(content) == Scan(content, {Quote})

(* actionRegex: from "{{" to the first "}}" after it, be they of a comment *)
(* or not.                                                                 *)
preprocessTemplate(s) ==
  LET from[i \in 1..(Len(s) + 1)] ==
        LET open  == FirstFrom(s, i, Begins)
            close == FirstFrom(s, open, Ends)
        IN  IF close > Len(s) THEN {}
            ELSE Shift(rewriteAction(SubSeq(s, open + 1, close - 1)), open)
                   \cup from[close + 1]
  IN  from[1]

-----------------------------------------------------------------------------
(* External: the lexer of text/template.  lex(s)[i] is its state before    *)
(* the token at i, lex(s)[Len(s) + 1] the one it ends in.  A character     *)
(* constant is one character or escape, or else the parser rejects it, so  *)
(* none has room for a reference or a delimiter.                           *)
lexChar(state, t) ==
  IF t \in Begins \cup Ends \cup {ContextVar, BareVar} THEN "error"
  ELSE IF state = "char" /\ t = Apos THEN "code"
  ELSE IF state = "char" /\ t = Esc THEN "charescape" ELSE "char"

lexStep(state, t) ==
  CASE state = "text"   -> IF t = Open THEN "code"
                           ELSE IF t = OpenComment THEN "comment" ELSE "text"
    [] state = "comment" -> IF t = CloseComment THEN "text" ELSE "comment"
    [] state = "code"   -> IF t = Quote THEN "quoted" ELSE IF t = Tick THEN "raw"
                           ELSE IF t = Apos THEN "char" ELSE IF t = Close THEN "text"
                           ELSE IF t \in Begins \cup Ends THEN "error" ELSE "code"
    [] state \in {"char", "charescape"} -> lexChar(state, t)
    [] state = "quoted" -> IF t = Quote THEN "code" ELSE IF t = Esc THEN "escape"
                           ELSE "quoted"
    [] state = "escape" -> "quoted"
    [] state = "raw"    -> IF t = Tick THEN "code" ELSE "raw"
    [] state = "error"  -> "error"

lex(s) ==
  LET state[i \in 1..(Len(s) + 1)] ==
        IF i = 1 THEN "text" ELSE lexStep(state[i - 1], s[i - 1])
  IN  state

(* The references of a text: identifiers in the code of an action. *)
References(s) ==
  {i \in DOMAIN s :
    /\ lex(s)[i] = "code" /\ s[i] \in {ContextVar, BareVar}
    /\ i = 1 \/ s[i - 1] \notin Identifiers
    /\ s[i] = BareVar => i = Len(s) \/ s[i + 1] \notin Identifiers}

Lexes(s) == lex(s)[Len(s) + 1] = "text"

-----------------------------------------------------------------------------
(* The places where preprocessTemplate and the lexer may part: a "}}" in a *)
(* string literal, a quote in a character constant, which is taken for the *)
(* begin of a string, and a reference behind something that is no          *)
(* separator.                                                              *)
Ordinary(s) ==
  /\ \A i \in DOMAIN s : s[i] \in Ends => lex(s)[i] \notin {"quoted", "escape", "raw"}
  /\ \A i \in DOMAIN s : s[i] \in Quotes => lex(s)[i] \notin {"char", "charescape"}
  /\ \A i \in References(s) : s[i - 1] \in Separators \cup {Open} \cup Quotes

(* Whatever literals, escapes, actions and comments come before it, a      *)
(* reference is given its dot exactly if it stands outside the literals.   *)
(* A dot put into a comment changes nothing and is not counted.            *)
RewriteExact ==
  Ordinary(text) /\ Lexes(text) =>
    {i \in preprocessTemplate(text) : lex(text)[i] # "comment"} = References(text)
=============================================================================
