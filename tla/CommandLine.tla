---------------------------- MODULE CommandLine -----------------------------
(***************************************************************************)
(* The command line of the backend: getopt.c, which takes options out of a   *)
(* line and moves what is left behind them, and argtable2, which counts and  *)
(* keeps what each entry of a table was given.  A word of the line is a      *)
(* sequence of characters; letters are lower case.                           *)
(***************************************************************************)
EXTENDS Integers, Sequences, FiniteSets, SequencesExt

CONSTANTS
    IntMax,     \* INT_MAX: 2^31 - 1
    LongMax,    \* LONG_MAX
    Kilo        \* 1024

ASSUME CommandLineAssumption ==
    /\ {IntMax, LongMax, Kilo} \subseteq Nat \ {0}
    /\ IntMax < LongMax /\ 2 * IntMax + 1 <= LongMax

NoText == [given |-> FALSE, text |-> <<>>]
Text(word) == [given |-> TRUE, text |-> word]
At(argv, i) == argv[i + 1]
IsOperand(word) == Len(word) < 2 \/ word[1] # "-"
DashDash == <<"-", "-">>

-----------------------------------------------------------------------------
(* getopt: one call takes one option.  The state of a scan is the static     *)
(* variables of getopt.c; code is what the call returns.                     *)

NoOption == [kind |-> "none"]
Returned(kind) == [kind |-> kind]
OptionChar(c) == [kind |-> "char", char |-> c]
OptionIndex(k) == IF k = 0 THEN NoOption ELSE [kind |-> "index", index |-> k]

_getopt_initialize(argv) ==
    [argv |-> argv, optind |-> 1, first_nonopt |-> 1, last_nonopt |-> 1, nextchar |-> <<>>,
     optarg |-> NoText, optopt |-> NoOption, code |-> NoOption]

\* argv with n words from a and from b swapped.
Swapped(argv, a, b, n) ==
    [i \in DOMAIN argv |->
        IF i - 1 \in a .. a + n - 1 THEN argv[i + b - a]
        ELSE IF i - 1 \in b .. b + n - 1 THEN argv[i + a - b] ELSE argv[i]]

\* The shorter of two neighbouring segments is swapped with the far end of the
\* longer, until one is empty.
RECURSIVE SegmentsExchanged(_, _, _, _)
SegmentsExchanged(argv, bottom, middle, top) ==
    IF ~(top > middle /\ middle > bottom) THEN argv
    ELSE IF top - middle > middle - bottom
    THEN LET len == middle - bottom
         IN  SegmentsExchanged(Swapped(argv, bottom, top - len, len), bottom, middle, top - len)
    ELSE LET len == top - middle
         IN  SegmentsExchanged(Swapped(argv, bottom, middle, len), bottom + len, middle, top)

exchange(s) ==
    [s EXCEPT !.argv = SegmentsExchanged(@, s.first_nonopt, s.last_nonopt, s.optind),
              !.first_nonopt = @ + (s.optind - s.last_nonopt),
              !.last_nonopt = s.optind]

\* The operands skipped so far are moved behind the options taken since, and
\* the operands that follow are skipped.
Moved(s) ==
    IF s.first_nonopt # s.last_nonopt /\ s.last_nonopt # s.optind THEN exchange(s)
    ELSE IF s.last_nonopt # s.optind THEN [s EXCEPT !.first_nonopt = s.optind] ELSE s
OperandsSkipped(s) ==
    LET argc == Len(s.argv)
        stop == CHOOSE i \in s.optind .. argc :
                    /\ i < argc => ~IsOperand(At(s.argv, i))
                    /\ \A j \in s.optind .. i - 1 : IsOperand(At(s.argv, j))
    IN  [s EXCEPT !.optind = stop, !.last_nonopt = stop]
Permuted(s) == OperandsSkipped(Moved(s))

\* "--" is skipped like an option, and everything behind it like an operand.
EndOfOptions(s) ==
    LET after == [s EXCEPT !.optind = @ + 1]
        moved == IF s.first_nonopt # s.last_nonopt /\ s.last_nonopt # after.optind THEN exchange(after)
                 ELSE IF s.first_nonopt = s.last_nonopt THEN [after EXCEPT !.first_nonopt = after.optind]
                 ELSE after
    IN  [moved EXCEPT !.last_nonopt = Len(s.argv), !.optind = Len(s.argv)]

\* For a caller who has moved optind back.
Clamped(s) ==
    [s EXCEPT !.last_nonopt = IF @ > s.optind THEN s.optind ELSE @,
              !.first_nonopt = IF @ > s.optind THEN s.optind ELSE @]
PastOperands(o, s) == IF o.ordering = "PERMUTE" THEN Permuted(s) ELSE s
PastDashes(s) ==
    IF s.optind # Len(s.argv) /\ At(s.argv, s.optind) = DashDash THEN EndOfOptions(s) ELSE s
ElementAt(o, s) ==
    LET word == At(s.argv, s.optind)
    IN  IF s.optind = Len(s.argv)
        THEN [s EXCEPT !.code = Returned("end"),
                       !.optind = IF s.first_nonopt # s.last_nonopt THEN s.first_nonopt ELSE @]
        ELSE IF IsOperand(word)
        THEN IF o.ordering = "REQUIRE_ORDER" THEN [s EXCEPT !.code = Returned("end")]
             ELSE [s EXCEPT !.optarg = Text(word), !.optind = @ + 1, !.code = Returned("operand")]
        ELSE [s EXCEPT !.nextchar = SubSeq(word, IF o.api # "getopt" /\ word[2] = "-" THEN 3 ELSE 2,
                                           Len(word))]

\* The next word that holds an option, or the end of the scan.
NextElement(o, s) == ElementAt(o, PastDashes(PastOperands(o, Clamped(s))))

\* The option table o: api is the function called, short the option letters
\* with the colons behind them, long the long options, ordering what becomes of
\* operands, missing what is returned when an argument is missing.
getopt(short, ordering) ==
    [api |-> "getopt", short |-> short, long |-> <<>>, ordering |-> ordering, missing |-> "?"]
getopt_long(short, long, ordering) ==
    [api |-> "long", short |-> short, long |-> long, ordering |-> ordering, missing |-> ":"]
getopt_long_only(short, long, ordering) ==
    [getopt_long(short, long, ordering) EXCEPT !.api = "only"]

Letter(o, c) == {i \in DOMAIN o.short : o.short[i].char = c}
IsLong(o, s) ==
    LET word == At(s.argv, s.optind)
    IN  \/ o.api # "getopt" /\ word[2] = "-"
        \/ o.api = "only" /\ (Len(word) > 2 \/ Letter(o, word[2]) = {})

\* A long option is named in full, or by the first letters of its name when
\* these belong to no other.
UpToEquals(text) ==
    LET signs == {i \in DOMAIN text : text[i] = "="}
    IN  IF signs = {} THEN text ELSE SubSeq(text, 1, (CHOOSE i \in signs : \A j \in signs : i <= j) - 1)
LongMatch(o, name) ==
    LET begun == {k \in DOMAIN o.long : IsPrefix(name, o.long[k].name)}
        exact == {k \in begun : o.long[k].name = name}
        first(K) == CHOOSE k \in K : \A j \in K : k <= j
    IN  IF exact # {} THEN [kind |-> "one", index |-> first(exact)]
        ELSE IF begun = {} THEN [kind |-> "unknown"]
        ELSE IF Cardinality(begun) > 1 THEN [kind |-> "ambiguous"]
        ELSE [kind |-> "one", index |-> first(begun)]

Passed(s) == [s EXCEPT !.nextchar = <<>>, !.optind = @ + 1]
Missing(o, s, option) == [s EXCEPT !.optopt = option, !.code = Returned(o.missing)]
Unknown(s, option) == [s EXCEPT !.optopt = option, !.code = Returned("?")]

TakeLong(o, s, k, name) ==
    LET option == o.long[k]
        passed == Passed(s)
        argc == Len(s.argv)
        found(t) == [t EXCEPT !.code = [kind |-> "long", value |-> option.val]]
    IN  IF Len(name) < Len(s.nextchar)
        THEN IF option.has_arg = 0 THEN Unknown(passed, OptionIndex(option.val))
             ELSE found([passed EXCEPT !.optarg = Text(SubSeq(s.nextchar, Len(name) + 2, Len(s.nextchar)))])
        ELSE IF option.has_arg # 1 THEN found(passed)
        ELSE IF passed.optind < argc
        THEN found([passed EXCEPT !.optarg = Text(At(s.argv, passed.optind)), !.optind = @ + 1])
        ELSE Missing(o, passed, OptionIndex(option.val))

\* The letter W of an option table with "W;": its argument is a long option.
\* After an ambiguous name the next word is skipped with it.
LongOfW(o, s) ==
    LET name == UpToEquals(s.optarg.text)
        match == LongMatch(o, name)
        named == [s EXCEPT !.nextchar = s.optarg.text, !.optind = @ - 1]
    IN  CASE match.kind = "one" -> [TakeLong(o, named, match.index, name) EXCEPT !.optopt = s.optopt]
          [] match.kind = "ambiguous" -> [s EXCEPT !.optind = @ + 1, !.code = Returned("?")]
          [] match.kind = "unknown" -> [s EXCEPT !.code = OptionChar("W")]

\* An option letter, and its argument: the rest of the word or the next word.
\* The W of "W;" has the semicolon for its colons.
TakeShort(o, s) ==
    LET c == Head(s.nextchar)
        rest == Tail(s.nextchar)
        entries == Letter(o, c)
        colons == o.short[CHOOSE i \in entries : \A j \in entries : i <= j].colons
        ahead == [s EXCEPT !.nextchar = rest, !.optind = IF rest = <<>> THEN @ + 1 ELSE @]
        found(t) == IF colons = ";" THEN LongOfW(o, t) ELSE [t EXCEPT !.code = OptionChar(c)]
        done == [ahead EXCEPT !.nextchar = <<>>]
    IN  IF entries = {} \/ c = ":" THEN Unknown(ahead, OptionChar(c))
        ELSE IF colons = "" THEN found(ahead)
        ELSE IF rest # <<>> THEN found([done EXCEPT !.optarg = Text(rest), !.optind = @ + 1])
        ELSE IF colons = "::" THEN found(done)
        ELSE IF done.optind = Len(s.argv) THEN Missing(o, done, OptionChar(c))
        ELSE found([done EXCEPT !.optarg = Text(At(s.argv, done.optind)), !.optind = @ + 1])

\* The option that the word, or what is left of it, goes on with.
OptionAt(o, s) ==
    LET name == UpToEquals(s.nextchar)
        match == LongMatch(o, name)
        word == At(s.argv, s.optind)
        asLetter == o.api = "only" /\ word[2] # "-" /\ Letter(o, s.nextchar[1]) # {}
    IN  IF s.code # NoOption THEN s
        ELSE IF ~IsLong(o, s) THEN TakeShort(o, s)
        ELSE CASE match.kind = "one" -> TakeLong(o, s, match.index, name)
               [] match.kind = "ambiguous" -> Unknown(Passed(s), NoOption)
               [] match.kind = "unknown" -> IF asLetter THEN TakeShort(o, s) ELSE Unknown(Passed(s), NoOption)

\* One call.
_getopt_internal(o, s) ==
    LET cleared == [s EXCEPT !.optarg = NoText, !.code = NoOption]
    IN  OptionAt(o, IF s.nextchar = <<>> THEN NextElement(o, cleared) ELSE cleared)

-----------------------------------------------------------------------------
(* argtable2: the entries of a table, and what each makes of an argument.    *)
(* A state is the count and the values of an entry; it keeps the values of   *)
(* an earlier parse until they are overwritten.                              *)

\* What the constructors have in common: the flags of the header as value, and
\* good, the arguments a library conversion takes (external).
Entry(kind, short, long, value, min, max) ==
    [kind |-> kind, short |-> short, long |-> long, value |-> value,
     min |-> min, max |-> IF max < min THEN min ELSE max, good |-> {}]
Matching(entry, good) == [entry EXCEPT !.good = good]

arg_litn(short, long, min, max) == Entry("lit", short, long, "none", min, max)
arg_strn(short, long, min, max) == Entry("str", short, long, "needed", min, max)
arg_intn(short, long, min, max) == Entry("int", short, long, "needed", min, max)
arg_uintn(short, long, min, max) == Entry("uint", short, long, "needed", min, max)
arg_filen(short, long, min, max) == Entry("file", short, long, "needed", min, max)
arg_dbln(short, long, doubles, min, max) ==
    Matching(Entry("dbl", short, long, "needed", min, max), doubles)
arg_daten(short, long, dates, min, max) ==
    Matching(Entry("date", short, long, "needed", min, max), dates)
arg_rexn(short, long, matches, min, max) ==
    Matching(Entry("rex", short, long, "needed", min, max), matches)
arg_rem == Entry("rem", <<>>, <<>>, "none", 1, 1)
arg_end(maxcount) == Entry("end", <<>>, <<>>, "none", 1, maxcount)

Scans(entry) == entry.kind \notin {"rem", "end"}
Fresh(entry) == [count |-> 0, values |-> [i \in 1 .. entry.max |-> NoText], programs |-> 0]

Scanned(state, error) == [state |-> state, error |-> error]
Counted(state) == [state EXCEPT !.count = @ + 1]
Stored(state, value) == [state EXCEPT !.count = @ + 1, !.values[state.count + 1] = value]

\* What the scans of entries with a value have in common: no room, no value
\* given, a value that is good, a value that is not.
ScanValue(entry, state, arg, good, value, badValue) ==
    IF state.count = entry.max THEN Scanned(state, "EMAXCOUNT")
    ELSE IF ~arg.given THEN Scanned(Counted(state), "")
    ELSE IF good THEN Scanned(Stored(state, value), "") ELSE Scanned(state, badValue)

ScanLit(entry, state) ==
    IF state.count < entry.max THEN Scanned(Counted(state), "") ELSE Scanned(state, "EMAXCOUNT")
ScanStr(entry, state, arg) == ScanValue(entry, state, arg, TRUE, arg, "")
ScanDbl(entry, state, arg) ==
    ScanValue(entry, state, arg, arg.text \in entry.good, arg, "EBADDOUBLE")
ScanDate(entry, state, arg) ==
    ScanValue(entry, state, arg, arg.text \in entry.good, arg, "EBADDATE")
ScanRex(entry, state, arg) ==
    ScanValue(entry, state, arg, arg.text \in entry.good, arg, "REG_NOMATCH")

\* A file name, its part behind the last separator, and its extension.
LastOf(text, char) ==
    LET places == {i \in DOMAIN text : text[i] = char}
    IN  IF places = {} THEN 0 ELSE CHOOSE i \in places : \A j \in places : j <= i
arg_basename(filename) ==
    LET base == SubSeq(filename, LastOf(filename, "/") + 1, Len(filename))
    IN  IF base \in {<<".">>, <<".", ".">>} THEN <<>> ELSE base
arg_extension(basename) ==
    LET dot == LastOf(basename, ".")
    IN  IF dot <= 1 \/ dot = Len(basename) THEN <<>> ELSE SubSeq(basename, dot, Len(basename))
ScanFile(entry, state, arg) ==
    LET base == arg_basename(arg.text)
    IN  ScanValue(entry, state, arg, TRUE,
                  [filename |-> arg.text, basename |-> base, extension |-> arg_extension(base)], "")

-----------------------------------------------------------------------------
(* Numbers.                                                                  *)

DigitChars == <<"0", "1", "2", "3", "4", "5", "6", "7", "8", "9", "a", "b", "c", "d", "e", "f">>
Digit(c) == (CHOOSE i \in DOMAIN DigitChars : DigitChars[i] = c) - 1
IsDigit(c, base) == \E i \in 1 .. base : DigitChars[i] = c
RECURSIVE WithoutBlanks(_)
WithoutBlanks(text) == IF text # <<>> /\ Head(text) = " " THEN WithoutBlanks(Tail(text)) ELSE text
Signed(text) == text # <<>> /\ Head(text) \in {"+", "-"}
SignOf(text) == IF Signed(text) /\ Head(text) = "-" THEN -1 ELSE 1
Unsigned(text) == IF Signed(text) THEN Tail(text) ELSE text

\* strtol and strtoul of the C library (external): the number, clamped to limit,
\* and what follows it; a text that does not begin with a number is given back.
RECURSIVE DigitsValue(_, _, _, _)
DigitsValue(text, base, limit, value) ==
    IF text = <<>> \/ ~IsDigit(Head(text), base) THEN [value |-> value, rest |-> text]
    ELSE DigitsValue(Tail(text), base, limit,
                     IF value > limit THEN value ELSE value * base + Digit(Head(text)))
Converted(text, base, limit) ==
    LET digits == Unsigned(WithoutBlanks(text))
        read == DigitsValue(digits, base, limit, 0)
    IN  IF read.rest = digits THEN [value |-> 0, rest |-> text]
        ELSE [read EXCEPT !.value = SignOf(WithoutBlanks(text)) * (IF @ > limit THEN limit ELSE @)]
strtol(text, base) == Converted(text, base, LongMax)
ULongMax == 2 * LongMax + 1
strtoul(text, base) == [Converted(text, base, ULongMax) EXCEPT !.value = @ % (ULongMax + 1)]

\* A number behind a sign, 0 and a letter, in the base the letter stands for.
strtol0X(text, letter, base) ==
    LET digits == Unsigned(WithoutBlanks(text))
        behind == SubSeq(digits, 3, Len(digits))
        read == strtol(behind, base)
    IN  IF ~IsPrefix(<<"0", letter>>, digits) \/ read.rest = behind
        THEN [value |-> 0, rest |-> text]
        ELSE [read EXCEPT !.value = SignOf(WithoutBlanks(text)) * @]

\* The same for arg_uint, which looks for no sign before the 0.
strtoul0X(text, letter, base) ==
    LET digits == WithoutBlanks(text)
        behind == SubSeq(digits, 3, Len(digits))
        read == strtoul(behind, base)
    IN  IF ~IsPrefix(<<"0", letter>>, digits) \/ read.rest = behind
        THEN [value |-> 0, rest |-> text] ELSE read

\* The first of the four notations that the text begins with.
FirstRead(text, hex, octal, binary, decimal) ==
    IF hex.rest # text THEN hex ELSE IF octal.rest # text THEN octal
    ELSE IF binary.rest # text THEN binary ELSE decimal

detectsuffix(text, suffix) ==
    IsPrefix(suffix, text) /\ \A i \in Len(suffix) + 1 .. Len(text) : text[i] = " "
ByteSuffixes == {[text |-> <<>>, factor |-> 1], [text |-> <<"k", "b">>, factor |-> Kilo],
             [text |-> <<"m", "b">>, factor |-> Kilo * Kilo],
             [text |-> <<"g", "b">>, factor |-> Kilo * Kilo * Kilo]}
SuffixOf(text) == {x \in ByteSuffixes : detectsuffix(text, x.text)}

FactorOf(read) == (CHOOSE x \in SuffixOf(read.rest) : TRUE).factor
ScanNumber(entry, state, arg, isGood, isOver, number) ==
    ScanValue(entry, state, arg, isGood /\ ~isOver, [number |-> number],
              IF isGood THEN "EOVERFLOW" ELSE "EBADINT")
IsNumber(read, text) == read.rest # text /\ SuffixOf(read.rest) # {}

\* A number that was read, times its suffix.
IntOf(entry, state, arg, read) ==
    LET factor == FactorOf(read)
        isOver == \/ read.value > IntMax \/ read.value < -IntMax - 1
                  \/ read.value > IntMax \div factor \/ read.value < -((IntMax + 1) \div factor)
    IN  ScanNumber(entry, state, arg, IsNumber(read, arg.text), isOver, read.value * factor)
ScanInt(entry, state, arg) ==
    IntOf(entry, state, arg,
          FirstRead(arg.text, strtol0X(arg.text, "x", 16), strtol0X(arg.text, "o", 8),
                    strtol0X(arg.text, "b", 2), strtol(arg.text, 10)))

\* Only a number with a suffix is compared with UINT_MAX; another is cut to the
\* bits of an unsigned int, and a minus is taken modulo the range of a long.
UintOf(entry, state, arg, read) ==
    LET factor == FactorOf(read)
        uintMax == 2 * IntMax + 1
        isOver == factor > 1 /\ read.value > uintMax \div factor
    IN  ScanNumber(entry, state, arg, IsNumber(read, arg.text), isOver, (read.value * factor) % (uintMax + 1))
ScanUint(entry, state, arg) ==
    UintOf(entry, state, arg,
           FirstRead(arg.text, strtoul0X(arg.text, "x", 16), strtoul0X(arg.text, "o", 8),
                     strtoul0X(arg.text, "b", 2), strtoul(arg.text, 10)))

-----------------------------------------------------------------------------
(* argtable2: the parse.                                                     *)

Scan(entry, state, arg) ==
    CASE entry.kind = "lit" -> ScanLit(entry, state)
      [] entry.kind = "str" -> ScanStr(entry, state, arg)
      [] entry.kind = "int" -> ScanInt(entry, state, arg)
      [] entry.kind = "uint" -> ScanUint(entry, state, arg)
      [] entry.kind = "dbl" -> ScanDbl(entry, state, arg)
      [] entry.kind = "date" -> ScanDate(entry, state, arg)
      [] entry.kind = "rex" -> ScanRex(entry, state, arg)
      [] entry.kind = "file" -> ScanFile(entry, state, arg)

\* A parse p: the states of the entries and the errors so far.
EndOf(table) == table[Len(table)]
arg_register_error(table, p, error) ==
    [p EXCEPT !.errors = IF Len(@) < EndOf(table).max THEN Append(@, error)
                         ELSE [@ EXCEPT ![Len(@)] = "ELIMIT"]]
Kept(table, p, k, scan) ==
    LET kept == [p EXCEPT !.states[k] = scan.state]
    IN  IF scan.error = "" THEN kept ELSE arg_register_error(table, kept, scan.error)
ScannedBy(table, p, k, arg) == Kept(table, p, k, Scan(table[k], p.states[k], arg))

arg_reset(table, states) ==
    [k \in DOMAIN table |->
        [states[k] EXCEPT !.count = 0, !.programs = IF table[k].kind = "rex" THEN @ + 1 ELSE @]]

\* The counts are checked, and with them the programs of the regular
\* expressions are freed.
arg_parse_check(table, p) ==
    LET checked(q, k) ==
            LET freed == IF table[k].kind = "rex" THEN [q EXCEPT !.states[k].programs = @ - 1] ELSE q
            IN  IF Scans(table[k]) /\ q.states[k].count < table[k].min
                THEN arg_register_error(table, freed, "EMINCOUNT") ELSE freed
    IN  FoldLeft(checked, p, [k \in DOMAIN table |-> k])

Options(table) == 1 .. Len(table) - 1
HasArg(entry) == CASE entry.value = "none" -> 0 [] entry.value = "needed" -> 1 [] entry.value = "optional" -> 2

\* The option table of a table.  A value that is optional sets both flags of the
\* header.
alloc_longoptions(table) ==
    FlattenSeq([k \in Options(table) |->
        [n \in DOMAIN table[k].long |->
            [name |-> table[k].long[n], has_arg |-> HasArg(table[k]), val |-> k - 1]]])
alloc_shortoptions(table) ==
    FlattenSeq([k \in Options(table) |->
        [n \in DOMAIN table[k].short |->
            [char |-> table[k].short[n],
             colons |-> CASE HasArg(table[k]) = 0 -> "" [] HasArg(table[k]) = 1 -> ":" [] OTHER -> "::"]]])
find_shortoption(table, c) ==
    CHOOSE k \in Options(table) :
        /\ Contains(table[k].short, c)
        /\ \A j \in 1 .. k - 1 : ~Contains(table[j].short, c)

\* What an option that was found, or was not, does to the parse.
TakeOption(table, p, s) ==
    LET k == IF s.code.kind = "long" THEN s.code.value + 1 ELSE find_shortoption(table, s.code.char)
        scanned(q) == IF Scans(table[k]) THEN ScannedBy(table, q, k, s.optarg) ELSE q
        wantsMore == s.code.kind = "long" /\ s.optarg = Text(<<>>) /\ table[k].value # "none"
    IN  CASE s.code.kind = "?" -> arg_register_error(table, p, IF s.optopt = NoOption THEN "ELONGOPT" ELSE "option")
          [] s.code.kind = ":" -> arg_register_error(table, p, "EMISSARG")
          [] OTHER -> scanned(IF wantsMore THEN arg_register_error(table, p, "EMISSARG") ELSE p)

RECURSIVE TaggedFrom(_, _, _, _)
TaggedFrom(table, o, p, s) ==
    LET next == _getopt_internal(o, s)
    IN  IF next.code.kind = "end" THEN [parse |-> p, scan |-> next]
        ELSE TaggedFrom(table, o, TakeOption(table, p, next), next)
arg_parse_tagged(table, argv, p) ==
    TaggedFrom(table, getopt_long(alloc_shortoptions(table), alloc_longoptions(table), "PERMUTE"),
               p, _getopt_initialize(argv))

RECURSIVE NoMatch(_, _, _)
NoMatch(table, p, words) ==
    IF words = <<>> THEN p ELSE NoMatch(table, arg_register_error(table, p, "ENOMATCH"), Tail(words))

\* The words that are left, for the entries without options: an entry takes
\* words until it refuses one, which the next entry is then asked to take.  The
\* refusal counts when no later entry took a word.
RECURSIVE UntaggedFrom(_, _, _, _, _)
UntaggedFrom(table, p, k, words, refusal) ==
    LET scan == Scan(table[k], p.states[k], Text(Head(words)))
    IN  IF k = Len(table)
        THEN IF refusal = "" THEN NoMatch(table, p, words)
             ELSE NoMatch(table, arg_register_error(table, p, refusal), SubSeq(words, 2, Len(words)))
        ELSE IF words = <<>> THEN p
        ELSE IF table[k].long # <<>> \/ table[k].short # <<>> \/ ~Scans(table[k])
        THEN UntaggedFrom(table, p, k + 1, words, refusal)
        ELSE IF scan.error = ""
        THEN UntaggedFrom(table, [p EXCEPT !.states[k] = scan.state], k, Tail(words), "")
        ELSE UntaggedFrom(table, p, k + 1, words, scan.error)
arg_parse_untagged(table, tagged) ==
    LET s == tagged.scan
    IN  UntaggedFrom(table, tagged.parse, 1, SubSeq(s.argv, s.optind + 1, Len(s.argv)), "")

\* A parse: the counts start again, the options are taken, then the words that
\* are left; without errors the counts are checked.  Failing allocations are
\* left out.
Checked(table, p) == IF p.errors = <<>> THEN arg_parse_check(table, p) ELSE p
arg_parse(table, argv, states) ==
    LET start == [states |-> arg_reset(table, states), errors |-> <<>>]
    IN  IF argv = <<>> THEN arg_parse_check(table, start)
        ELSE Checked(table, arg_parse_untagged(table, arg_parse_tagged(table, argv, start)))

-----------------------------------------------------------------------------
(* argtable2: the usage, and the memory of a table.                          *)

\* The usage names an entry by its place in the table.  Switches come first,
\* the mandatory ones before the optional.
Part(k, optional, more) == [entry |-> k, optional |-> optional, more |-> more]
IsSwitch(entry) == entry.short # <<>> /\ entry.value = "none"
arg_print_gnuswitch(table) ==
    LET switches == SelectSeq([k \in Options(table) |-> k], LAMBDA k : IsSwitch(table[k]))
        optional(k) == table[k].min = 0
        parts(given) == [i \in DOMAIN given |-> Part(given[i], optional(given[i]), FALSE)]
    IN  parts(SelectSeq(switches, LAMBDA k : ~optional(k))) \o parts(SelectSeq(switches, optional))
Repeated(table, k) ==
    LET optionals == table[k].max - table[k].min
    IN  [i \in 1 .. table[k].min |-> Part(k, FALSE, FALSE)]
            \o (IF optionals > 2 THEN <<Part(k, TRUE, TRUE)>>
                ELSE [i \in 1 .. optionals |-> Part(k, TRUE, FALSE)])
arg_print_syntax(table) ==
    arg_print_gnuswitch(table)
        \o FlattenSeq([k \in Options(table) |->
                IF IsSwitch(table[k]) \/ table[k].kind = "rem" THEN <<>> ELSE Repeated(table, k)])
\* The other form names every entry, the switches and the remarks too (which
\* have no datatype here).
arg_print_syntaxv(table) == FlattenSeq([k \in Options(table) |-> Repeated(table, k)])

\* The memory of a table: a block for each entry, or NULL where there was none.
NULL == "NULL"
arg_nullcheck(blocks) == \E k \in DOMAIN blocks : blocks[k] = NULL
arg_free(blocks) ==
    [k \in DOMAIN blocks |-> IF \E j \in 1 .. k : blocks[j] = NULL THEN blocks[k] ELSE NULL]
arg_freetable(blocks, n) == [k \in DOMAIN blocks |-> IF k <= n THEN NULL ELSE blocks[k]]
=============================================================================
