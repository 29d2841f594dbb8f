----------------------------- MODULE DartSource -----------------------------
(***************************************************************************)
(* scripts/dart_static_check.py: strip_comments reads a Dart file line by  *)
(* line and keeps what is not a comment; every check of the script works   *)
(* on what it keeps, and check_balance (D2) counts the quotes in it.       *)
(* Beside it the module runs the lexer of the language over the same       *)
(* characters.  Both are small automata, so files of any length are        *)
(* covered.  Raw and multi-line strings and ${} are left out of the        *)
(* language here: strip_comments knows none of them.                       *)
(***************************************************************************)
EXTENDS Naturals

CONSTANT MaxDepth  \* bound: nested block comments

ASSUME DartSourceAssumption == MaxDepth \in Nat \ {0}

VARIABLES
  mode,      \* where strip_comments is
  lang,      \* where the language is
  depth,     \* of the block comment the language is in
  kept,      \* strip_comments keeps the last character
  code,      \* the last character is no part of a comment
  odd,       \* quotes check_balance has counted an odd number of
  back,      \* the last character kept is a backslash
  valid,     \* no string is cut off by the end of a line
  flat       \* no comment is nested

svars == <<mode, lang, depth, kept, code, odd, back, valid, flat>>

Quotes == {"'", "\""}
Chars == Quotes \cup {"\\", "/", "*", "x", "newline"}

String(q) == [at |-> "string", quote |-> q]
Escape(q) == [at |-> "escape", quote |-> q]
Plain(where) == [at |-> where, quote |-> "-"]
Code == Plain("code")
Block == Plain("block")
Places == {String(q) : q \in Quotes} \cup {Escape(q) : q \in Quotes}
          \cup {Plain(w) : w \in {"code", "slash", "line", "block", "star", "inner"}}

InComment(place) == place.at \in {"line", "block", "star", "inner"}
InString(place) == place.at \in {"string", "escape"}

-----------------------------------------------------------------------------
(* strip_comments                                                          *)

\* slash: a / whose successor decides; inner: the same inside a block comment.
FromCode(place, c) ==
  CASE c \in Quotes -> String(c)
    [] c = "/" -> IF place.at = "slash" THEN Plain("line") ELSE Plain("slash")
    [] c = "*" -> IF place.at = "slash" THEN Block ELSE Code
    [] OTHER -> Code

\* Mutant: a quote ends its string whatever stands before it.
InStringNoEscape(place, c) == IF c = place.quote THEN Code ELSE String(place.quote)

InsideString(place, c) ==
  CASE place.at = "escape" -> String(place.quote)
    [] place.at = "string" /\ c = "\\" -> Escape(place.quote)
    [] place.at = "string" /\ c = place.quote -> Code
    [] OTHER -> place

\* The end of a line ends everything but a block comment.
Strip(place, c) ==
  CASE c = "newline" -> IF place.at \in {"block", "star"} THEN Block ELSE Code
    [] c # "newline" /\ InString(place) -> InsideString(place, c)
    [] c # "newline" /\ place.at \in {"code", "slash"} -> FromCode(place, c)
    [] c # "newline" /\ place.at = "line" -> place
    [] c # "newline" /\ place.at \in {"block", "star"} ->
         IF c = "*" THEN Plain("star")
         ELSE IF c = "/" /\ place.at = "star" THEN Code ELSE Block

\* What ends a comment is a part of it.
Keeps(place, c) == ~InComment(place) /\ ~InComment(Strip(place, c))

-----------------------------------------------------------------------------
(* The language                                                            *)

LexString(place, c) ==
  IF place.at = "escape" THEN String(place.quote)
  ELSE IF c = "\\" THEN Escape(place.quote)
  ELSE IF c = place.quote THEN Code ELSE place

\* Block comments nest.
LexBlock(place, c) ==
  CASE c = "*" /\ place.at # "inner" -> Plain("star")
    [] c = "/" /\ place.at = "star" -> IF depth = 1 THEN Code ELSE Block
    [] c = "/" /\ place.at # "star" -> Plain("inner")
    [] OTHER -> Block

Deeper(place, c) ==
  CASE place.at = "slash" /\ c = "*" -> 1
    [] place.at = "inner" /\ c = "*" -> depth + 1
    [] place.at = "star" /\ c = "/" -> depth - 1
    [] OTHER -> depth

Lex(place, c) ==
  CASE c = "newline" -> IF depth > 0 THEN Block ELSE Code
    [] c # "newline" /\ InString(place) -> LexString(place, c)
    [] c # "newline" /\ place.at \in {"code", "slash"} -> FromCode(place, c)
    [] c # "newline" /\ place.at = "line" -> place
    [] c # "newline" /\ depth > 0 -> LexBlock(place, c)

-----------------------------------------------------------------------------
(* check_balance: '\q' is taken out, the rest of the q is counted          *)

Counted(c) == kept' /\ c \in Quotes /\ ~back

Read(c) ==
  /\ mode' = Strip(mode, c)
  /\ kept' = Keeps(mode, c)
  /\ odd' = IF ~Counted(c) THEN odd ELSE IF c \in odd THEN odd \ {c} ELSE odd \cup {c}
  /\ back' = (IF kept' THEN c = "\\" ELSE back)
  /\ depth' = Deeper(lang, c) /\ depth' <= MaxDepth
  /\ lang' = Lex(lang, c)
  /\ code' = (~InComment(lang) /\ ~InComment(lang'))
  /\ flat' = (flat /\ depth' < 2)
  /\ valid' = (valid /\ ~(c = "newline" /\ InString(lang)))

SInit ==
  /\ mode = Code /\ lang = Code /\ depth = 0
  /\ kept = TRUE /\ code = TRUE
  /\ odd = {} /\ back = FALSE
  /\ valid = TRUE /\ flat = TRUE

SNext == \E c \in Chars : Read(c)

SSpec == SInit /\ [][SNext]_svars

-----------------------------------------------------------------------------
(* Properties                                                              *)

STypeOK ==
  /\ mode \in Places /\ lang \in Places
  /\ depth \in 0..MaxDepth /\ odd \subseteq Quotes
  /\ {kept, code, back, valid, flat} \subseteq BOOLEAN

\* strip_comments keeps a character exactly when the language reads it as code:
\* no quote, escape or slash in a string or a comment leads it astray, in a file
\* without nested comments and with every string ended on its line.
StripsComments == flat /\ valid => kept = code

\* Refuted: the same with nested comments, which Dart has.
StripsNested == valid => kept = code

\* Refuted: a file that is right passes D2.  A string that ends in an escaped
\* backslash, or holds a quote of the other kind, fails it.
QuotesBalance == flat /\ valid /\ lang = Code => odd = {}
=============================================================================
