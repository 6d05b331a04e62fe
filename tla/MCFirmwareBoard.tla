-------------------------- MODULE MCFirmwareBoard ---------------------------
(***************************************************************************)
(* A model-checking instance of BackendStart, with FirmwareBoard in it: an   *)
(* EEPROM of two banks of three blocks, hex files of up to two data lines,   *)
(* and the command lines of a start.  The pure operators of CommandLine and  *)
(* ByteBuffer are compared with what they should compute.                    *)
(***************************************************************************)
EXTENDS BackendStart

Low == Record("data", 0, <<1, 2, 3, 4>>)
Over == Record("data", 2, <<5>>)
High == Record("data", 7, <<6, 7>>)
Third == Record("segment", 3, <<>>)

\* Two lines that overlap, that leave a small hole and that leave a large one;
\* a line of the second segment; files that are empty, junk and cut short.
MCHexFiles ==
    {<<Low, Over, EofRecord>>, <<Over, Low, EofRecord>>, <<Low, High, EofRecord>>,
     <<High, Over, EofRecord>>, <<Over, Third, Over, EofRecord>>, <<Third, High, EofRecord>>,
     <<EofRecord>>, <<Low>>, <<Record("junk", 0, <<>>), EofRecord>>}

\* Two builds that differ, with the VID:PID (9) and the DID (0) at places of
\* their own; the one for the EEPROM has a hole, so that it has two records.
MCRamBuild == <<Record("data", 0, <<11, 9, 0, 12>>), EofRecord>>
MCEepromBuild == <<Record("data", 0, <<13>>), Record("data", 6, <<9, 0, 14>>), EofRecord>>
MCChip == [vp |-> 20, did |-> 5]
Chip == <<"c">>
Board == <<"a">>
BoardOfDid == <<"a", ":", "3">>
MCIdentity == (Chip :> [vp |-> 20, did |-> 0]) @@ (Board :> [vp |-> 21, did |-> 0])
                  @@ (BoardOfDid :> [vp |-> 21, did |-> 3])

\* The board alone, with the chip to load and as its own source; in short, in
\* long and in shortened form; with a bad identity, and a line that is refused.
Short(c) == <<"-", c>>
MCStartLines ==
    {<<Short("v"), Board>>, <<Short("v"), Board, Short("i"), Chip>>,
     <<<<"-", "-", "i", "=", "c">>, <<"-", "-", "v", "p", "=", "a", ":", "3">>>>,
     <<Short("y"), <<"-", "l", "i", "a">>, <<"-", "v", "c">>>>, <<Short("v"), <<"?">>, Short("i"), Chip>>,
     <<Short("v"), Board, Chip>>}

-----------------------------------------------------------------------------
(* Command lines.                                                            *)

LinesOf(words, n) == BoundedSeq(words, n)
MainWords ==
    {Short("v"), Short("i"), Board, <<"-", "l", "v", "c">>, <<"-", "-", "v", "p", "=", "a">>, <<"-", "-", "i">>,
     <<"-", "-", "h", "e", "l", "p", "=">>, Short("y"), <<"-", "x">>, DashDash}

\* A line is read without an error just when it is good; then each option has
\* the value that stands with it, and with errors too no option counts more
\* than it may.
ASSUME LinesAreRead ==
    \A words \in LinesOf(MainWords, 4) :
        LET p == Parsed(words)
        IN  /\ (p.errors = <<>>) = IsGood(words)
            /\ \A k \in Options(argTable) :
                   /\ p.states[k].count <= argTable[k].max
                   /\ p.errors = <<>> =>
                          /\ p.states[k].count = Len(SaidOf(words, k))
                          /\ argTable[k].value = "needed" /\ SaidOf(words, k) # <<>> =>
                                 Given(p, k) = SaidOf(words, k)[1].arg

\* Operands are moved behind the options, and nothing else is changed: options
\* keep their order and their values, and operands theirs.
ASSUME PermutingMovesOperands ==
    \A words \in LinesOf({Short("y"), Short("v"), Board, Chip, DashDash}, 5) :
        LET inOrder == Said(words)
            operands(said) == SelectSeq(said, LAMBDA x : x.code.kind = "operand")
            options(said) == SelectSeq(said, LAMBDA x : x.code.kind # "operand")
        IN  SaidOrdered(argTable, words, "PERMUTE") = options(inOrder) \o operands(inOrder)

\* A table with entries of other kinds: an optional number, a date, a pattern
\* and, without an option, numbers and then files.
Pattern == {<<"p">>}
ATable(room) ==
    <<[arg_intn(<<"n">>, <<<<"n", "o">>>>, 0, 2) EXCEPT !.value = "optional"],
      arg_daten(<<"d">>, <<>>, {<<"7">>}, 0, 1), arg_rexn(<<"r">>, <<>>, Pattern, 0, 1), arg_rem,
      arg_uintn(<<>>, <<>>, 0, 1), arg_filen(<<>>, <<>>, 1, 2), arg_end(room)>>
TableWords ==
    {<<"-", "n", "7">>, <<"-", "-", "n", "o">>, <<"-", "d">>, <<"7">>, <<"-", "r", "p">>, <<"p">>, <<"u", "/", "p", ".", "x">>}
Fresher(table) == [k \in DOMAIN table |-> Fresh(table[k])]

\* The words without an option go to the first entry that takes them, in order
\* and none lost, and are refused only for want of an entry; the errors stay
\* within the room for them; a second parse of the line finds what the first
\* found; after a parse without errors no program of a pattern is left.
ASSUME TablesAreFilled ==
    \A words \in LinesOf(TableWords, 3), room \in 1 .. 2 :
        LET table == ATable(room)
            argv == <<Chip>> \o words
            p == arg_parse(table, argv, Fresher(table))
            again == arg_parse(table, argv, p.states)
            operands == SelectSeq(SaidOrdered(table, words, "RETURN_IN_ORDER"), LAMBDA x : x.code.kind = "operand")
            files == [i \in 1 .. p.states[6].count |-> p.states[6].values[i].filename]
        IN  /\ Len(p.errors) <= room
            /\ again.errors = p.errors /\ \A k \in DOMAIN table : again.states[k].count = p.states[k].count
            /\ \A k \in Options(table) : p.states[k].count <= table[k].max
            /\ p.errors = <<>> =>
                   /\ p.states[3].programs = 0
                   /\ \A k \in Options(table) : Scans(table[k]) => p.states[k].count >= table[k].min
                   /\ files = [i \in 1 .. Len(files) |-> operands[p.states[5].count + i].arg.text]
                   /\ Len(operands) = p.states[5].count + Len(files)
            /\ Len(operands) = Len(words) =>
                   (p.errors = <<>>) = (Len(words) - (IF IsPrefix(<<<<"7">>>>, words) THEN 1 ELSE 0) \in 1 .. 2)

\* "-W name" and "-Wname" take the option that "--name" takes, when there is one.
ASSUME LongOptionsOfW ==
    \A name \in {<<"v">>, <<"v", "p">>, <<"i", "v">>, <<"h", "e">>, <<"b", "i", "d">>, <<"l">>, <<"x">>},
       value \in {<<>>, <<"=">>, <<"=", "a">>}, others \in LinesOf({Board, Short("y")}, 1) :
        LET o == getopt_long(<<[char |-> "W", colons |-> ";"]>>, alloc_longoptions(argTable), "PERMUTE")
            next(words) == _getopt_internal(o, _getopt_initialize(<<<<"flcli">>>> \o words \o others))
            long == next(<<DashDash \o name \o value>>)
            apart == next(<<Short("W"), name \o value>>)
            joined == next(<<Short("W") \o name \o value>>)
        IN  LongMatch(o, name).kind = "one" =>
                /\ apart.code = long.code /\ joined.code = long.code
                /\ joined.optind = long.optind /\ apart.optind = long.optind + 1
                /\ long.optarg.given => apart.optarg = long.optarg /\ joined.optarg = long.optarg

-----------------------------------------------------------------------------
(* Numbers, names, usage and memory.                                         *)

Notations == {[mark |-> <<>>, base |-> 10], [mark |-> <<"0", "x">>, base |-> 16],
              [mark |-> <<"0", "o">>, base |-> 8], [mark |-> <<"0", "b">>, base |-> 2]}
ValueOf(digits, base) == FoldLeft(LAMBDA v, c : v * base + Digit(c), 0, digits)
AnInt == arg_intn(<<"n">>, <<>>, 0, 1)
AUint == arg_uintn(<<"n">>, <<>>, 0, 1)

\* An integer in any notation, with a sign and a suffix, is taken just when what
\* it stands for is an int, and kept as that; of an unsigned one without a sign
\* this holds for what an unsigned int holds, and for others with a suffix.
ASSUME NumbersAreRead ==
    \A sign \in {<<>>, <<"-">>, <<"+">>}, notation \in Notations, suffix \in ByteSuffixes,
       digits \in LinesOf({"0", "1", "7", "f"}, 3) :
        LET text == <<" ">> \o sign \o notation.mark \o digits \o suffix.text \o <<" ">>
            value == (IF sign = <<"-">> THEN -1 ELSE 1) * ValueOf(digits, notation.base) * suffix.factor
            int == ScanInt(AnInt, Fresh(AnInt), Text(text))
            uint == ScanUint(AUint, Fresh(AUint), Text(text))
            isNumber == digits # <<>> /\ \A i \in DOMAIN digits : IsDigit(digits[i], notation.base)
            uintMax == 2 * IntMax + 1
        IN  isNumber =>
                /\ (int.error = "") = (value \in -IntMax - 1 .. IntMax)
                /\ int.error = "" => int.state.values[1].number = value
                /\ sign = <<>> /\ value <= uintMax =>
                       uint.error = "" /\ uint.state.values[1].number = value
                /\ sign = <<>> /\ suffix.factor > 1 => (uint.error = "") = (value <= uintMax)

\* A file name is its directory, and its base name with the extension at the
\* end; an extension is never the whole name, and never a dot alone.
ASSUME NamesAreSplit ==
    \A name \in LinesOf({"a", ".", "/"}, 5) :
        LET base == arg_basename(name)
            extension == arg_extension(base)
        IN  /\ IsSuffix(extension, base) /\ IsSuffix(base, name) /\ ~Contains(base, "/")
            /\ extension # <<>> => /\ extension[1] = "." /\ ~Contains(Tail(extension), ".")
                                   /\ Len(extension) \in 2 .. Len(base) - 1

\* The usage has every option: a switch once, another as often as it must be
\* given, and what may be added to that.
ASSUME UsageIsComplete ==
    \A min \in 0 .. 1, more \in 0 .. 4, value \in {"none", "needed"} :
        LET table == <<Entry("str", <<"v">>, <<>>, value, min, min + more), arg_rem>> \o argTable
            parts(k, optional) ==
                Len(SelectSeq(arg_print_syntax(table), LAMBDA x : x.entry = k /\ x.optional = optional))
            wanted(k) == IF IsSwitch(table[k]) /\ table[k].min > 0 THEN 1 ELSE table[k].min
        IN  min + more > 0 => \A k \in Options(table) \ {2} :
                /\ parts(k, FALSE) = wanted(k)
                /\ (parts(k, TRUE) > 0) = (table[k].min < table[k].max /\ (IsSwitch(table[k]) => table[k].min = 0))
                /\ parts(k, TRUE) <= table[k].max - table[k].min
                /\ {x.entry : x \in Range(arg_print_syntaxv(table))} = Options(table)
                /\ (Part(k, TRUE, TRUE) \in Range(arg_print_syntaxv(table))) = (table[k].max > table[k].min + 2)

\* A table in which every entry was allocated is freed by either function; one
\* with a hole only by arg_freetable.
ASSUME TablesAreFreed ==
    \A blocks \in [1 .. 4 -> {NULL, "block"}] :
        LET left(memory) == {k \in DOMAIN memory : memory[k] # NULL}
        IN  /\ left(arg_freetable(blocks, 4)) = {}
            /\ ~arg_nullcheck(blocks) => left(arg_free(blocks)) = {}
            /\ left(arg_free(blocks)) = {k \in left(blocks) : \E j \in 1 .. k : blocks[j] = NULL}

-----------------------------------------------------------------------------
(* Buffers.                                                                  *)

Buffers == INSTANCE ByteBuffer WITH MemoryBytes <- 12, HoleBytes <- 3
NewBuffer(size) == Buffers!bufInitialise(size, 0).buffer
BufferOf(size, content) == Buffers!bufAppendBlock(NewBuffer(size), content).buffer

\* Blocks that are appended, written across the end and behind it; the buffer
\* is emptied, copied into one of another size, and taken through a file.
Blocks == {<<1>>, <<2, 3, 4>>}
BufferSteps ==
    [kind : {"append", "through a file"}, block : Blocks] \cup [kind : {"write"}, at : {0, 2, 5}, block : Blocks]
        \cup [kind : {"copy"}, to : {Buffers!NoBuffer, BufferOf(1, <<9>>), BufferOf(6, <<9, 9, 9, 9, 9>>)}]
        \cup [kind : {"empty"}]
Stepped(step, buffer) ==
    CASE step.kind = "append" -> Buffers!bufAppendBlock(buffer, step.block)
      [] step.kind = "through a file" ->
             LET block == BufferOf(1, step.block)
                 file == Buffers!bufWriteBinaryFile(block, 0, block.length)
             IN  Buffers!bufAppendFromBinaryFile(buffer, file, Len(file))
      [] step.kind = "write" -> Buffers!bufWriteBlock(buffer, step.at, step.block)
      [] step.kind = "copy" -> Buffers!bufDeepCopy(step.to, buffer)
      [] step.kind = "empty" -> Buffers!Done(Buffers!bufZeroLength(buffer))
MeantBy(step, content) ==
    CASE step.kind \in {"append", "through a file"} -> content \o step.block
      [] step.kind = "write" -> bufWriteBlock(content, step.at, step.block)
      [] step.kind = "copy" -> content
      [] step.kind = "empty" -> <<>>

\* However it grows, a buffer holds what was put into it, its free storage is
\* filled, and a step that is refused, for want of memory, leaves it alone.
ASSUME BuffersHoldTheirBytes ==
    \A steps \in LinesOf(BufferSteps, 3), size \in 1 .. 3 :
        LET take(p, step) ==
                LET next == Stepped(step, p.buffer)
                    meant == MeantBy(step, p.content)
                IN  IF next.ok THEN [p EXCEPT !.buffer = next.buffer, !.content = meant]
                    ELSE [p EXCEPT !.good = @ /\ next.buffer = p.buffer /\ 2 * Len(meant) > 12]
            end == FoldLeft(take, [buffer |-> NewBuffer(size), content |-> <<>>, good |-> TRUE], steps)
            storage == end.buffer.storage
        IN  /\ end.good /\ Buffers!Content(end.buffer) = end.content
            /\ Len(storage) = end.buffer.capacity
            /\ \A i \in end.buffer.length + 1 .. Len(storage) : storage[i] = 0

\* A buffer that is written to a hex file with the mask derived from it is read
\* back as it was, up to zeros at its end, and no hole is shorter than it must
\* be; and a word is its two bytes.
ASSUME MasksAreDerived ==
    /\ \A content \in LinesOf({0, 7}, 8) :
           LET mask == Buffers!bufDeriveMask(BufferOf(8, content), BufferOf(8, <<5>>)).buffer
               lines == bufWriteToIntelHexFile([data |-> content, mask |-> Buffers!Content(mask)])
               read == bufReadFromIntelHexFile(lines).image.data
           IN  /\ Cardinality({i \in DOMAIN content : mask.storage[i] = 0}) \notin {1, 2}
               /\ Len(read) <= Len(content)
               /\ \A i \in DOMAIN content : content[i] = IF i <= Len(read) THEN read[i] ELSE 0
    /\ \A word \in {0, 1, 255, 256, 770} : Buffers!BigEndian(word, 2) = WordBE(word)
=============================================================================
