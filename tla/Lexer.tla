-------------------------------- MODULE Lexer --------------------------------
(***************************************************************************)
(* The tokenizer of query/parser.rs.  tokenize is a loop over the          *)
(* characters of the text; what one iteration does is an operator here,    *)
(* and module Sql takes the iterations as steps.                           *)
(*                                                                         *)
(* A text is a sequence of characters.  A word of the language is written  *)
(* as one letter ("SELECT" is a letter that no other word contains), so    *)
(* that an identifier is a sequence of letters and digits like any other.  *)
(* A token is a tuple tagged with its variant.                             *)
(***************************************************************************)
EXTENDS Values, Sequences, SequencesExt

CONSTANTS
    Letters,       \* what is_alphabetic accepts, and the underscore
    UpperCase(_),  \* to_ascii_uppercase of a letter
    U8             \* number of values of a u8: 256 in the code

ASSUME LexerAssumption == U8 \in Nat \ {0}

DigitValue == [d \in {"0", "1", "2", "3", "4", "5", "6", "7", "8", "9"} |->
    CASE d = "0" -> 0 [] d = "1" -> 1 [] d = "2" -> 2 [] d = "3" -> 3 [] d = "4" -> 4
      [] d = "5" -> 5 [] d = "6" -> 6 [] d = "7" -> 7 [] d = "8" -> 8 [] d = "9" -> 9]

Digits == DOMAIN DigitValue
Whitespace == {" ", "\n"}
Backtick == "backtick"
End == ""  \* None: past the last character

Keywords == {
    "CREATE", "ALTER", "TABLE", "INSERT", "INTO", "VALUES", "SELECT", "FROM", "WHERE", "NULL",
    "PRIMARY", "KEY", "BEGIN", "START", "TRANSACTION", "COMMIT", "ROLLBACK", "SET", "USE",
    "SHOW", "AS", "DROP", "ORDER", "BY", "LIMIT", "GROUP", "JOIN", "LEFT", "ON", "INNER",
    "OUTER"}

Upper(word) == [i \in DOMAIN word |-> UpperCase(word[i])]

(* keyword_from_ident *)
WordToken(word) ==
    IF Len(word) = 1 /\ UpperCase(word[1]) \in Keywords
      THEN <<"Keyword", UpperCase(word[1])>> ELSE <<"Ident", word>>

(* chars.get(i) *)
At(chars, i) == IF i \in DOMAIN chars THEN chars[i] ELSE End

(* The first position from i on that holds no character of the set. *)
RunEnd(chars, i, set) ==
    CHOOSE j \in i .. Len(chars) + 1 : At(chars, j) \notin set /\ \A k \in i .. j - 1 : chars[k] \in set

-------------------------------------------------------------------------------
(* What an iteration yields: tokens, and the position of the next one.  It *)
(* fails with next = 0, and leaves an inner text to be tokenized first.    *)
Found(token, next) == [tokens |-> <<token>>, inner |-> <<>>, next |-> next]
Skipped(next) == [tokens |-> <<>>, inner |-> <<>>, next |-> next]
Wrong == [tokens |-> <<>>, inner |-> <<>>, next |-> 0]

(* scan_string_literal and scan_backtick_ident: chars[i] is the opening    *)
(* quote, a doubled one stands for itself, next = 0 when none closes it.   *)
ScanQuoted(chars, i, quote) ==
    LET scan[n \in i + 1 .. Len(chars) + 1] ==
          IF n > Len(chars) THEN [text |-> <<>>, next |-> 0]
          ELSE IF chars[n] # quote \/ At(chars, n + 1) = quote
            THEN LET rest == scan[n + IF chars[n] = quote THEN 2 ELSE 1]
                 IN  [rest EXCEPT !.text = <<chars[n]>> \o @]
          ELSE [text |-> <<>>, next |-> n + 1]
    IN  scan[i + 1]

ScanString(chars, i) ==
    LET s == ScanQuoted(chars, i, "'")
    IN  IF s.next = 0 THEN Wrong ELSE Found(<<"Str", s.text>>, s.next)

ScanBacktick(chars, i) ==
    LET s == ScanQuoted(chars, i, Backtick)
    IN  IF s.next = 0 \/ s.text = <<>> THEN Wrong ELSE Found(<<"Ident", s.text>>, s.next)

(* scan_ident: the word that starts at i, empty if none does. *)
ScanIdent(chars, i) == SubSeq(chars, i, RunEnd(chars, i, Letters \cup Digits) - 1)

Number(digits) == FoldLeft(LAMBDA n, d : 10 * n + DigitValue[d], 0, digits)

(* scan_number: a dot starts a fraction only before a digit; the digits of *)
(* a decimal are read before its sign; its scale is cut to a u8.           *)
ScanNumber(chars, i) ==
    LET start   == IF chars[i] = "-" THEN i + 1 ELSE i
        n       == RunEnd(chars, start, Digits)
        end     == RunEnd(chars, n + 1, Digits)
        int     == SubSeq(chars, start, n - 1)
        decimal == At(chars, n) = "." /\ At(chars, n + 1) \in Digits
        value   == Number(IF decimal THEN int \o SubSeq(chars, n + 1, end - 1) ELSE int)
        signed  == IF start > i THEN -value ELSE value
    IN  CASE decimal /\ InRange(value)    -> Found(<<"Decimal", signed, (end - n - 1) % U8>>, end)
          [] ~ decimal /\ InRange(signed) -> Found(<<"Integer", signed>>, n)
          [] OTHER                        -> Wrong

(* '@': a system variable, scope and name joined by a dot, or a user       *)
(* variable, which is an identifier that starts with the '@'.              *)
ScanVariable(chars, i) ==
    LET name  == ScanIdent(chars, i + 2)
        after == i + 2 + Len(name)
        field == ScanIdent(chars, after + 1)
        user  == ScanIdent(chars, i + 1)
    IN  IF At(chars, i + 1) # "@" THEN Found(<<"Ident", <<"@">> \o user>>, i + 1 + Len(user))
        ELSE IF name = <<>> THEN Wrong
        ELSE IF At(chars, after) = "." /\ field # <<>>
          THEN Found(<<"SystemVariable", name \o <<".">> \o field>>, after + 1 + Len(field))
        ELSE Found(<<"SystemVariable", name>>, after)

(* Comparison operators: the longest one that matches. *)
ScanOperator(chars, i) ==
    LET both == <<chars[i], At(chars, i + 1)>>
    IN  CASE both = <<"<", "=">>                   -> Found(<<"<=">>, i + 2)
          [] both \in {<<"<", ">">>, <<"!", "=">>} -> Found(<<"<>">>, i + 2)
          [] both = <<">", "=">>                   -> Found(<<">=">>, i + 2)
          [] both[1] = "!" /\ both[2] # "="        -> Wrong
          [] OTHER                                 -> Found(<<chars[i]>>, i + 1)

(* A block comment ends at the first closing mark, in whatever it stands.  *)
(* What an executable one holds, after a version number, is tokenized.     *)
BlockComment(chars, i) ==
    LET closes == {j \in i + 2 .. Len(chars) - 1 : chars[j] = "*" /\ chars[j + 1] = "/"}
        j      == CHOOSE k \in closes : \A m \in closes : k <= m
        start  == RunEnd(SubSeq(chars, 1, j - 1), i + 3, Digits)
    IN  IF closes = {} THEN Wrong
        ELSE IF At(chars, i + 2) = "!"
          THEN [Skipped(j + 2) EXCEPT !.inner = SubSeq(chars, start, j - 1)]
        ELSE Skipped(j + 2)

StartsLineComment(chars, i) ==
    \/ chars[i] = "#"
    \/ /\ chars[i] = "-" /\ At(chars, i + 1) = "-"
       /\ At(chars, i + 2) \in Whitespace \cup {End}

(* One iteration of tokenize at position i. *)
Iteration(chars, i) ==
    LET c == chars[i]
    IN  CASE c \in Whitespace                          -> Skipped(i + 1)
          [] c = "/" /\ At(chars, i + 1) = "*"         -> BlockComment(chars, i)
          [] StartsLineComment(chars, i) ->
               Skipped(RunEnd(chars, i, {chars[k] : k \in DOMAIN chars} \ {"\n"}))
          [] c \in {",", "(", ")", ";", ".", "*", "?", "="} -> Found(<<c>>, i + 1)
          [] c \in {"<", ">", "!"}                     -> ScanOperator(chars, i)
          [] c = "'"                                   -> ScanString(chars, i)
          [] c = Backtick                                   -> ScanBacktick(chars, i)
          [] c = "@"                                   -> ScanVariable(chars, i)
          [] c \in Digits \/ (c = "-" /\ At(chars, i + 1) \in Digits) -> ScanNumber(chars, i)
          [] c \in Letters ->
               LET word == ScanIdent(chars, i) IN Found(WordToken(word), i + Len(word))
          [] OTHER                                     -> Wrong
===============================================================================
