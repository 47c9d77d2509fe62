----------------------------- MODULE WireFormat -----------------------------
(***************************************************************************)
(* internal/proto: the pure functions between the bytes on the wire and    *)
(* what the store keeps: decimals that travel as strings (dec.go), JSON    *)
(* string literals (unquote.go) and the validation of one pushed op        *)
(* (wrapper.go).                                                           *)
(*                                                                         *)
(* A decimal string is a sequence of digits, NoDigit standing for any      *)
(* other character. A literal is a sequence of symbols, one for each kind  *)
(* of character that the decoder tells apart; four hexadecimal digits are  *)
(* one symbol, of four bytes. A digest is the text it is the digest of.    *)
(***************************************************************************)
EXTENDS Integers, Sequences

CONSTANTS MaxUint64,    \* math.MaxUint64, scaled down
          MaxInt64,     \* math.MaxInt64, scaled down
          MaxBodyBytes, \* proto.MaxBodyBytes, 256000
          MaxDeviceIDLen

ASSUME WireAssumption ==
  /\ MaxInt64 \in Nat /\ MaxUint64 \in Nat \ {0} /\ MaxInt64 <= MaxUint64
  /\ MaxBodyBytes \in Nat \ {0} /\ MaxDeviceIDLen \in Nat \ {0}

NoDigit == -1
Refused == -1

-----------------------------------------------------------------------------
(* Decimals                                                                *)

\* No sign, no white space, no leading zero.
isCanonicalDecimal(s) ==
  /\ s # <<>> /\ (s[1] = 0 => Len(s) = 1)
  /\ \A i \in DOMAIN s : s[i] \in 0..9

\* strconv.ParseUint of a digit string, external: the value up to each digit.
ValueUpTo(s) ==
  LET value[i \in 0..Len(s)] == IF i = 0 THEN 0 ELSE 10 * value[i - 1] + s[i]
  IN  value

ParseUint(s) == ValueUpTo(s)[Len(s)]

ParseDec(s) ==
  IF isCanonicalDecimal(s) /\ ParseUint(s) <= MaxUint64 THEN ParseUint(s) ELSE Refused

ParseDecPositive(s) == IF ParseDec(s) = 0 THEN Refused ELSE ParseDec(s)

\* Dec.String, by strconv.FormatUint.
DigitsUpTo(d) ==
  LET digits[n \in 0..d] == IF n < 10 THEN <<n>> ELSE Append(digits[n \div 10], n % 10)
  IN  digits

DecString(d) == DigitsUpTo(d)[d]

\* Dec.Int64: what SQLite can store.
Int64(d) == IF d > MaxInt64 THEN Refused ELSE d

-----------------------------------------------------------------------------
(* String literals                                                         *)

\* The code units of a text: a plain character, a quote, a backslash, a control
\* character, the halves of a surrogate pair, and a pair.
Units == {"a", "quote", "backslash", "control", "high", "low", "pair"}

\* The symbols of a literal: those characters raw, letters that mean something
\* after a backslash, groups of hexadecimal digits, a byte that is not UTF-8.
Hex     == {"0061", "000a", "d83d", "de00"}
Symbols == {"a", "quote", "backslash", "control", "pair", "n", "u", "bad byte"} \cup Hex

\* The characters of a text in UTF-8: what is no character is replaced.
Runes == (Symbols \ {"bad byte"}) \cup {"U+FFFD"}

UnitOf == [h \in Hex |-> CASE h = "0061" -> "a" [] h = "000a" -> "control"
                           [] h = "d83d" -> "high" [] h = "de00" -> "low"]

\* Lengths in bytes.
SymbolBytes == [s \in Symbols |-> IF s \in Hex \cup {"pair"} THEN 4 ELSE 1]
UnitBytes   == [u \in Runes |-> IF u = "U+FFFD" THEN 3 ELSE SymbolBytes[u]]

BytesUpTo(seq, size) ==
  LET sum[i \in 0..Len(seq)] == IF i = 0 THEN 0 ELSE sum[i - 1] + size[seq[i]]
  IN  sum

Bytes(seq, size) == BytesUpTo(seq, size)[Len(seq)]

Malformed == [ok |-> FALSE, out |-> "none", size |-> 1]
Decoded(u, n) == [ok |-> TRUE, out |-> u, size |-> n]

SymbolAt(in, i) == IF i \in DOMAIN in THEN in[i] ELSE "end"

\* A mistake to catch: an unpaired surrogate takes the escape behind it along.
decodeUnicodeEscapeGreedy(in, i) ==
  LET hex  == SymbolAt(in, i + 2)
      next == SymbolAt(in, i + 3) = "backslash" /\ SymbolAt(in, i + 4) = "u" /\ SymbolAt(in, i + 5) \in Hex
  IN  IF hex \notin Hex THEN Malformed
      ELSE IF UnitOf[hex] \notin {"high", "low"} THEN Decoded(UnitOf[hex], 3)
      ELSE IF ~next THEN Decoded("U+FFFD", 3)
      ELSE Decoded(IF hex = "d83d" /\ SymbolAt(in, i + 5) = "de00" THEN "pair" ELSE "U+FFFD", 6)

\* The escape whose backslash is at i. A surrogate is paired with an escape right
\* behind it, and is otherwise U+FFFD.
decodeUnicodeEscape(in, i) ==
  LET hex  == SymbolAt(in, i + 2)
      pair == /\ hex = "d83d" /\ SymbolAt(in, i + 5) = "de00"
              /\ SymbolAt(in, i + 3) = "backslash" /\ SymbolAt(in, i + 4) = "u"
  IN  IF hex \notin Hex THEN Malformed
      ELSE IF UnitOf[hex] \notin {"high", "low"} THEN Decoded(UnitOf[hex], 3)
      ELSE IF pair THEN Decoded("pair", 6) ELSE Decoded("U+FFFD", 3)

\* One turn of the loop of UnquoteJSONString, at i.
UnquoteAt(in, i) ==
  CASE SymbolAt(in, i) \in {"quote", "control"} -> Malformed
    [] SymbolAt(in, i) = "backslash" ->
         (CASE SymbolAt(in, i + 1) \in {"quote", "backslash"} -> Decoded(SymbolAt(in, i + 1), 2)
            [] SymbolAt(in, i + 1) = "n" -> Decoded("control", 2)
            [] SymbolAt(in, i + 1) = "u" -> decodeUnicodeEscape(in, i)
            [] OTHER -> Malformed)
    [] SymbolAt(in, i) = "bad byte" -> Decoded("U+FFFD", 1)
    [] OTHER -> Decoded(SymbolAt(in, i), 1)

NoText == [ok |-> FALSE, out |-> <<>>]

\* The loop of UnquoteJSONString: the text of the last k symbols, for each k.
Unquoted(in) ==
  LET rest[k \in 0..Len(in)] ==
        IF k = 0 THEN [ok |-> TRUE, out |-> <<>>]
        ELSE LET turn == UnquoteAt(in, Len(in) + 1 - k)
             IN  IF ~turn.ok \/ ~rest[k - turn.size].ok THEN NoText
                 ELSE [ok |-> TRUE, out |-> <<turn.out>> \o rest[k - turn.size].out]
  IN  rest

\* The text of a literal, quotes included.
UnquoteJSONString(literal) ==
  LET n  == Len(literal)
      in == SubSeq(literal, 2, n - 1)
  IN  IF n < 2 \/ literal[1] # "quote" \/ literal[n] # "quote"
      THEN NoText ELSE Unquoted(in)[n - 2]

-----------------------------------------------------------------------------
(* One pushed op                                                           *)

validKinds == {"observation", "summary", "prompt", "mutation"}

MaxBodyLiteral == 6 * MaxBodyBytes + 2

\* parseBody: `fields` says that the body has its twelve keys, each once; `local`
\* is <<>> for null, which only mutations have and the code does not check.
parseBody(op) ==
  CASE ~op.fields                              -> "body_shape"
    [] op.kind \notin validKinds               -> "unknown_kind"
    [] op.id = ""                              -> "body_shape"
    [] ParseDecPositive(op.rev) = Refused      -> "entity_rev"
    [] op.dev \notin 1..MaxDeviceIDLen         -> "body_shape"
    [] op.local # <<>> /\ ParseDec(op.local) = Refused -> "body_shape"
    [] OTHER                                   -> "ok"

\* ParseOp: the reason of the first check that fails. `wrapper` says that the op
\* has its two keys, each once; `valid` that the digest is shaped like one
\* (ValidDigest). The limit on the wrapper as a whole is looser than the one on its
\* literal.
ParseOp(op) ==
  LET text == UnquoteJSONString(op.literal)
  IN  CASE ~op.wrapper \/ SymbolAt(op.literal, 1) # "quote"  -> "wrapper_shape"
        [] Bytes(op.literal, SymbolBytes) > MaxBodyLiteral    -> "too_large"
        [] ~op.valid                                          -> "wrapper_shape"
        [] ~text.ok                                           -> "body_shape"
        [] Bytes(text.out, UnitBytes) > MaxBodyBytes          -> "too_large"
        [] text.out # op.digest                               -> "digest_mismatch"
        [] OTHER                                              -> parseBody(op)

-----------------------------------------------------------------------------
(* claude-mem's client, external: what it hashes and how it may write it.  *)

\* The UTF-8 text of a sequence of code units: Node pairs surrogates where it can
\* and replaces those that are left.
Utf8At(units, i) ==
  IF units[i] = "high" /\ SymbolAt(units, i + 1) = "low" THEN <<"pair">>
  ELSE IF units[i] = "low" /\ SymbolAt(units, i - 1) = "high" THEN <<>>
  ELSE IF units[i] \in {"high", "low"} THEN <<"U+FFFD">>
  ELSE <<units[i]>>

Utf8UpTo(units) ==
  LET upTo[i \in 0..Len(units)] == IF i = 0 THEN <<>> ELSE upTo[i - 1] \o Utf8At(units, i)
  IN  upTo

Utf8(units) == Utf8UpTo(units)[Len(units)]

\* The ways JSON has of writing one code unit; JSON.stringify chooses one.
Escapes(u) ==
  {<<"backslash", "u", h>> : h \in {g \in Hex : UnitOf[g] = u}} \cup
  CASE u \in {"a", "pair"}            -> {<<u>>}
    [] u \in {"quote", "backslash"}   -> {<<"backslash", u>>}
    [] u = "control"                  -> {<<"backslash", "n">>}
    [] OTHER                          -> {}

\* The literals in X, each with a form of u behind it.
Extended(X, u) == {l \o e : l \in X, e \in Escapes(u)}

\* Every literal for a sequence of code units.
LiteralsUpTo(units) ==
  LET upTo[i \in 0..Len(units)] ==
        IF i = 0 THEN {<<"quote">>} ELSE Extended(upTo[i - 1], units[i])
  IN  upTo

Literals(units) == {Append(l, "quote") : l \in LiteralsUpTo(units)[Len(units)]}
=============================================================================
