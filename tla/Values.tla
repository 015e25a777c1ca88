-------------------------------- MODULE Values --------------------------------
(***************************************************************************)
(* Typed values and the conversions between them: storage::Value and       *)
(* ColumnType, rescale_decimal, retype_value (ALTER TABLE .. MODIFY) and   *)
(* coerce (INSERT).                                                        *)
(*                                                                         *)
(* A value is a tuple tagged with its type.  A text is what it can be read *)
(* as: <<"num", u, s, k>> spells the number u / 10^s with s fractional     *)
(* digits and k zeros too many in front ("01.5"), k = 0 being the spelling  *)
(* format_decimal and to_string produce; <<"date", d>> is a well-formed    *)
(* date; <<"word", w>> is neither.                                         *)
(***************************************************************************)
EXTENDS Integers

CONSTANT MaxInt  \* i64::MAX

ASSUME MaxIntAssumption == MaxInt \in Nat \ {0}

Null == <<"Null">>
Invalid == <<"Invalid">>  \* Err(Error::Execution(..)) in place of a value

InRange(n) == -(MaxInt + 1) <= n /\ n <= MaxInt

(* i64 addition in a release build: two's complement. *)
Wrap(n) == ((n + MaxInt + 1) % (2 * (MaxInt + 1))) - (MaxInt + 1)

Abs(n) == IF n < 0 THEN -n ELSE n

(* rescale_decimal: widening multiplies, narrowing rounds half away from   *)
(* zero; a factor, a divisor or a result that does not fit is an error.    *)
RescaleDecimal(unscaled, from, to) ==
    IF to >= from
      THEN LET factor == 10 ^ (to - from)
           IN  IF InRange(factor) /\ InRange(unscaled * factor)
                 THEN <<"Ok", unscaled * factor>> ELSE Invalid
      ELSE LET divisor == 10 ^ (from - to)
               rounded == (Abs(unscaled) + divisor \div 2) \div divisor
           IN  IF divisor <= 2 * MaxInt + 1 /\ InRange(rounded)
                 THEN <<"Ok", IF unscaled < 0 THEN -rounded ELSE rounded>> ELSE Invalid

(* A number u / 10^s as a value of the numeric type t. *)
ToNumeric(u, s, t) ==
    LET scaled == RescaleDecimal(u, s, IF t[1] = "Decimal" THEN t[2] ELSE 0)
    IN  CASE scaled = Invalid   -> Invalid
          [] t[1] = "Int"       -> <<"Int", scaled[2]>>
          [] t[1] = "Decimal"   -> <<"Decimal", scaled[2], t[2]>>

(* The text of a number, to_string or format_decimal, and of a date. *)
ToText(v) ==
    CASE v[1] = "Int"     -> <<"num", v[2], 0, 0>>
      [] v[1] = "Decimal" -> <<"num", v[2], v[3], 0>>
      [] v[1] = "Date"    -> <<"date", v[2]>>

(* str::parse, parse_decimal_literal and parse_date_literal.  The second   *)
(* reads the digits before it applies the sign, so it has no i64::MIN.     *)
Parse(text, t) ==
    CASE t[1] = "Int" /\ text[1] = "num" /\ text[3] = 0 /\ InRange(text[2]) ->
           <<"Int", text[2]>>
      [] t[1] = "Decimal" /\ text[1] = "num" /\ InRange(Abs(text[2])) ->
           ToNumeric(text[2], text[3], t)
      [] t[1] = "Date" /\ text[1] = "date" -> <<"Date", text[2]>>
      [] OTHER -> Invalid

(* retype_value: a stored value as a value of another column type. *)
RetypeValue(v, t) ==
    CASE v = Null                                               -> Null
      [] v[1] = t[1] /\ v[1] # "Decimal"                        -> v
      [] v[1] = "Varchar"                                       -> Parse(v[2], t)
      [] t[1] = "Varchar"                                       -> <<"Varchar", ToText(v)>>
      [] v[1] = "Int" /\ t[1] = "Decimal"                       -> ToNumeric(v[2], 0, t)
      [] v[1] = "Decimal" /\ t[1] \in {"Int", "Decimal"}        -> ToNumeric(v[2], v[3], t)
      [] OTHER                                                  -> Invalid

(* coerce: a literal, written like the value it denotes, for a column of   *)
(* type t.  Its arms are those of retype_value; an expression that is not  *)
(* a literal is an error.                                                  *)
Coerce(expr, t) ==
    IF expr[1] \in {"Null", "Int", "Decimal", "Varchar"} THEN RetypeValue(expr, t)
                                                         ELSE Invalid
===============================================================================
