------------------------------ MODULE KioFormat -----------------------------
(***************************************************************************)
(* printf and the conversions of numbers to text of kio.c.  The machine    *)
(* word is scaled down: uintmax_t and uint64_t have SIZEOF_UINTMAX bytes,  *)
(* uint32_t half of them.  A format is a sequence of items: the percent    *)
(* sign, the name of a conversion, or another character.                   *)
(***************************************************************************)
EXTENDS Integers, Sequences, FiniteSets, SequencesExt

CONSTANTS
    SIZEOF_UINTMAX,     \* bytes: 2 or 4
    Values,             \* the values printed, below 256 ^ SIZEOF_UINTMAX
    Items,              \* the items formats are made of
    MaxItems            \* the longest format

Conversions == {"u64", "h64", "x64", "u32", "h32", "x32", "s"}
\* The string that an argument of %s points to: it is printed as it is.
String == <<"%", "a">>
SizeOf(conversion) ==
    IF conversion \in {"u64", "h64", "x64"} THEN SIZEOF_UINTMAX ELSE SIZEOF_UINTMAX \div 2
Character == <<"0", "1", "2", "3", "4", "5", "6", "7", "8", "9", "A", "B", "C", "D", "E", "F">>

------------------------------------------------------------------------------
(* The conversions.                                                        *)

\* Mutant: the loop stops at the last digit.
FillDigits_Short[n \in 0 .. 256 ^ SIZEOF_UINTMAX, base \in {10, 16}] ==
    IF n < base THEN <<>> ELSE <<n % base>> \o FillDigits_Short[n \div base, base]

\* fill_digit_buffer: the digits, the least significant one first.
FillDigits[n \in 0 .. 256 ^ SIZEOF_UINTMAX, base \in {10, 16}] ==
    IF n = 0 THEN <<>> ELSE <<n % base>> \o FillDigits[n \div base, base]

fill_digit_buffer(n, base, buffer_size) ==
    LET digits == FillDigits[n, base] IN
    [i \in 1 .. buffer_size |-> IF i <= Len(digits) THEN digits[i] ELSE 0]

Text(digits) == [i \in DOMAIN digits |-> Character[digits[i] + 1]]

unsync_print_uintmax_hex(n, size_bytes) ==
    LET buffer_size == SIZEOF_UINTMAX * 2
        buffer == fill_digit_buffer(n, 16, buffer_size)
        \* from the last element of the buffer down to buffer_size - 2 * size_bytes
        printed == SubSeq(buffer, buffer_size - size_bytes * 2 + 1, buffer_size)
    IN  <<"0", "x">> \o Text(Reverse(printed))

unsync_print_uintmax_hex_not_padded(n) == <<"0", "x">> \o Text(Reverse(FillDigits[n, 16]))

\* Mutant: zero is not treated on its own.
unsync_print_uintmax_dec_NoZero(n) == Text(Reverse(FillDigits[n, 10]))

unsync_print_uintmax_dec(n) ==
    IF n = 0 THEN <<"0">> ELSE Text(Reverse(FillDigits[n, 10]))

\* va_arg(ptr, uint32_t) keeps the low half.
Argument(conversion, n) == n % (256 ^ SizeOf(conversion))

Convert(conversion, n) ==
    LET value == Argument(conversion, n) IN
    CASE conversion \in {"u64", "u32"} -> unsync_print_uintmax_dec(value)
      [] conversion \in {"h64", "h32"} -> unsync_print_uintmax_hex(value, SizeOf(conversion))
      [] conversion \in {"x64", "x32"} -> unsync_print_uintmax_hex_not_padded(value)
      [] conversion = "s" -> String

------------------------------------------------------------------------------
(* printf.                                                                 *)

VARIABLES
    format,         \* the items that are left
    token_found,
    args,           \* the arguments that are left
    out             \* the text so far
vars == <<format, token_found, args, out>>

VARIABLE call       \* the arguments of the call
Formats == UNION {[1 .. k -> Items] : k \in 0 .. MaxItems}

\* A caller passes an argument for every item, equal ones but for the first.
Init ==
    /\ format \in Formats /\ token_found = FALSE /\ out = <<>>
    /\ \E first, other \in Values :
           args = [i \in 1 .. MaxItems |-> IF i = 1 THEN first ELSE other]
    /\ call = [format |-> format, args |-> args]

\* Mutant: the flag stays set after a conversion.
TokenAfter_Kept(item) == token_found \/ item = "%"

\* A percent sign starts a conversion, and whatever follows it ends it.
TokenAfter(item) == ~token_found /\ item = "%"

\* One turn of the loop: an unknown conversion prints nothing.
PrintItem ==
    /\ format # <<>>
    /\ LET item == Head(format) IN
       /\ token_found' = TokenAfter(item)
       /\ IF token_found /\ item \in Conversions
          THEN out' = out \o Convert(item, Head(args)) /\ args' = Tail(args)
          ELSE /\ out' = IF token_found = (item = "%") THEN Append(out, item) ELSE out
               /\ UNCHANGED args
    /\ format' = Tail(format) /\ UNCHANGED call

Returned == format = <<>> /\ UNCHANGED <<vars, call>>

Next == PrintItem \/ Returned
Spec == Init /\ [][Next]_<<vars, call>>

------------------------------------------------------------------------------
(* Properties.                                                             *)

\* The types of the variables.
TypeOK ==
    /\ token_found \in BOOLEAN /\ Len(args) <= MaxItems
    /\ Range(out) \subseteq Range(Character) \cup {"x"} \cup Items

\* The text of a value with so many digits, written from the weights of the digits.
Spell(value, base, width) ==
    [i \in 1 .. width |-> Character[1 + ((value \div (base ^ (width - i))) % base)]]
Width(value, base, least) ==
    CHOOSE w \in least .. 20 : base ^ w > value /\ \A v \in least .. w - 1 : base ^ v <= value
Wanted(conversion, n) ==
    LET value == Argument(conversion, n) IN
    CASE conversion \in {"u64", "u32"} -> Spell(value, 10, Width(value, 10, 1))
      [] conversion \in {"h64", "h32"} -> <<"0", "x">> \o Spell(value, 16, 2 * SizeOf(conversion))
      [] conversion \in {"x64", "x32"} -> <<"0", "x">> \o Spell(value, 16, Width(value, 16, 0))
      [] conversion = "s" -> <<"%", "a">>

\* An item is read as a conversion when the run of percent signs in front of it
\* is of odd length.
IsConversion(f, i) ==
    LET starts == {j \in 1 .. i : \A k \in j .. i - 1 : f[k] = "%"} IN
    (i - (CHOOSE j \in starts : \A k \in starts : j <= k)) % 2 = 1

\* The items of f that take an argument, up to the i-th.
Taken(f, i) == {j \in 1 .. i : IsConversion(f, j) /\ f[j] \in Conversions}
Expected(f, i) ==
    IF IsConversion(f, i)
    THEN CASE f[i] = "%" -> <<"%">>
           [] f[i] \in Conversions -> Wanted(f[i], call.args[Cardinality(Taken(f, i))])
           [] OTHER -> <<>>
    ELSE IF f[i] = "%" THEN <<>> ELSE <<f[i]>>

\* printf prints the characters of its format in order, and in the place of each
\* conversion its own argument, as kio.h describes the conversions.
PrintsFormat ==
    /\ TypeOK
    /\ format = <<>> =>
        out = FlattenSeq([i \in DOMAIN call.format |-> Expected(call.format, i)])
=============================================================================
