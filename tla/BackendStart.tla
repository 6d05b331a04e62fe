---------------------------- MODULE BackendStart ----------------------------
(***************************************************************************)
(* How the backend finds its board: main.c from the command line to the open *)
(* link, the search of the USB bus (libusbwrap.c), and the standard firmware *)
(* that is given an identity and loaded or flashed (mkfw, fx2.c).  An        *)
(* identity is the pair of a VID:PID and a DID.                              *)
(***************************************************************************)
EXTENDS FirmwareBoard, CommandLine

CONSTANTS
    Identity,       \* what the words that are good identities mean; 0: no DID
    ChipIdentity,   \* of the chip without firmware
    BankIds,        \* banks there are: 32
    RamBuild,       \* the standard firmware as built for RAM: a hex file
    EepromBuild,    \* the same sources built with -DEEPROM: another
    StandardVp,     \* stands in both where the VID:PID is, and before the DID
    MaxPolls,       \* looks for the board after a load: 60
    StartLines      \* command lines there are

VARIABLES
    stage,      \* where main is
    line,       \* its command line
    asked,      \* the words given for -v and -i
    polls,      \* looks that are left
    shown,      \* what the bus shows of the board
    begun       \* history: failures when the program was started

startVars == <<stage, line, asked, polls, begun>>
systemVars == <<vars, startVars, shown>>

-----------------------------------------------------------------------------
(* The command line.                                                         *)

argTable ==
    << arg_strn(<<"i">>, <<<<"i", "v", "p">>>>, 0, 1), arg_strn(<<"v">>, <<<<"v", "p">>>>, 1, 1),
       arg_strn(<<"b">>, <<<<"b", "i", "d">>>>, 0, 1), arg_litn(<<"y">>, <<<<"a", "t", "m">>>>, 0, 1),
       arg_litn(<<"l">>, <<<<"l", "o", "g">>>>, 0, 1), arg_litn(<<"h">>, <<<<"h", "e", "l", "p">>>>, 0, 1),
       arg_end(20) >>
ivpOpt == 1
vpOpt == 2
bankIdOpt == 3
helpOpt == 6

Parsed(words) ==
    arg_parse(argTable, <<<<"flcli">>>> \o words, [k \in DOMAIN argTable |-> Fresh(argTable[k])])
Given(p, k) == IF p.states[k].count > 0 THEN p.states[k].values[1] ELSE NoText
atoi(text) == strtol(text, 10).value

\* The bank is looked at before the help, and the help before the errors.
Verdict(p) ==
    IF Given(p, bankIdOpt).given /\ atoi(Given(p, bankIdOpt).text) \notin 0 .. BankIds - 1 THEN "bad bank"
    ELSE IF p.states[helpOpt].count > 0 THEN "help"
    ELSE IF p.errors # <<>> THEN "bad line" ELSE "start"

-----------------------------------------------------------------------------
(* The standard firmware.                                                    *)

\* What mkfw makes of a build: its code, or the records to boot it from.
mkfw(build, format) ==
    LET image == bufReadFromIntelHexFile(build).image
    IN  IF format = "iic" THEN PromOf(image) ELSE image.data

\* Where the one VID:PID is; the first byte is not looked at, and a file with
\* none or several is refused.
dumpCode(bytes) == {i \in 2 .. Len(bytes) : bytes[i] = StandardVp}

ramFirmware == mkfw(RamBuild, "bix")
eepromNoBootFirmware == mkfw(EepromBuild, "iic")

\* The builds are for this chip, and have one VID:PID, with the DID behind it:
\* mkfw looks for the first in the records too, and for the second not at all.
Builds == {RamBuild, EepromBuild}
ASSUME BuildsAssumption ==
    /\ \A build \in Builds :
           /\ bufReadFromIntelHexFile(build).ok
           /\ Len(mkfw(build, "bix")) <= RamBytes /\ Cardinality(dumpCode(mkfw(build, "bix"))) = 1
    /\ Len(eepromNoBootFirmware) <= EepromBytes /\ Cardinality(dumpCode(eepromNoBootFirmware)) = 1
    /\ \A i \in dumpCode(eepromNoBootFirmware), a \in dumpCode(mkfw(EepromBuild, "bix")) :
           SubSeq(eepromNoBootFirmware, i, i + 1) = SubSeq(mkfw(EepromBuild, "bix"), a, a + 1)

\* Mutant: the DID is written, the VID:PID stays.
copyFirmwareHalfRewritten(firmware, identity) ==
    LET vp == CHOOSE i \in dumpCode(firmware) : TRUE
    IN  [firmware EXCEPT ![vp + 1] = identity.did]

copyFirmwareAndRewriteIDs(firmware, identity) ==
    LET vp == CHOOSE i \in dumpCode(firmware) : TRUE
    IN  [firmware EXCEPT ![vp] = identity.vp, ![vp + 1] = identity.did]

\* What is meant by it: the build with the identity in its place.
StandardAs(build, identity) ==
    LET meant == MeantByHex(build)
        vp == CHOOSE a \in DOMAIN meant : meant[a] = StandardVp
    IN  [known |-> TRUE, at |-> [meant EXCEPT ![vp] = identity.vp, ![vp + 1] = identity.did]]

\* The running firmware is a build of the standard one; its identity is in its bytes.
VpOf(build) == (CHOOSE i \in dumpCode(mkfw(build, "bix")) : TRUE) - 1
IsBuild(memory, build) ==
    LET code == mkfw(build, "bix")
    IN  \A a \in 0 .. Len(code) - 1 : a \in {VpOf(build), VpOf(build) + 1} \/ memory[a] = code[a + 1]
IsStandard(memory) == \E build \in Builds : IsBuild(memory, build)
NoBoard == [vp |-> 0, did |-> 0]
ShownBy(memory, processor) ==
    IF processor = "held" THEN ChipIdentity
    ELSE IF ~IsStandard(memory) THEN NoBoard
    ELSE LET build == CHOOSE b \in Builds : IsBuild(memory, b)
         IN  [vp |-> memory[VpOf(build)], did |-> memory[VpOf(build) + 1]]

-----------------------------------------------------------------------------
(* The bus.                                                                  *)

usbValidateVidPid(word) == word \in DOMAIN Identity

\* A word without a DID finds a board of any DID.
IsFound(word) ==
    /\ usbValidateVidPid(word) /\ shown # NoBoard
    /\ shown.vp = Identity[word].vp /\ Identity[word].did \in {0, shown.did}

\* A board that was released or lost its power is off the bus until it has been
\* enumerated again.
Enumerated ==
    /\ shown = NoBoard /\ shown' = ShownBy(ram, cpu) /\ shown' # NoBoard
    /\ UNCHANGED <<vars, startVars>>
Released == ReleaseCpu /\ shown' = IF cpu' = "running" THEN NoBoard ELSE shown
Repowered == PowerCycle /\ shown' = NoBoard

-----------------------------------------------------------------------------
(* main, up to the open link.                                                *)

NotAsked == [vp |-> <<>>, ivp |-> NoText]
Outside == stage = "off" /\ job.kind = "idle" /\ jobs < MaxJobs

SystemInit ==
    /\ Init
    /\ stage = "off" /\ line = <<>> /\ asked = NotAsked /\ polls = 0 /\ begun = 0
    /\ shown = ShownBy(ram, cpu)

GoesTo(next) == stage' = next /\ UNCHANGED <<line, asked, begun, shown>>
Fails == failures < MaxFailures /\ failures' = failures + 1
OnlyFailures ==
    UNCHANGED <<boardVars, job, kept, result, jobs, holds, runs, before>>

Starts(words, p) ==
    LET starts == Verdict(p) = "start"
    IN  /\ Outside
        /\ stage' = IF starts THEN "opening" ELSE "stopped"
        /\ asked' = IF starts THEN [vp |-> Given(p, vpOpt).text, ivp |-> Given(p, ivpOpt)] ELSE asked
        /\ line' = words /\ begun' = failures
        /\ UNCHANGED <<vars, polls, shown>>
main(words) == Starts(words, Parsed(words))

\* A board is opened when it is on the bus and answers the request for its
\* status, as the standard firmware does.
Answers == cpu = "running" /\ IsStandard(ram)
flOpen ==
    /\ stage \in {"opening", "reopening"}
    /\ \/ /\ IsFound(asked.vp) /\ Answers
          /\ GoesTo("connected") /\ UNCHANGED failures
       \/ /\ \/ Fails
             \/ ~(IsFound(asked.vp) /\ Answers) /\ UNCHANGED failures
          /\ GoesTo(IF stage = "opening" /\ asked.ivp.given THEN "loading" ELSE "stopped")
    /\ OnlyFailures /\ UNCHANGED polls

flLoadStandardFirmware ==
    LET identity == Identity[asked.vp]
    IN  /\ stage = "loading"
        /\ \/ /\ usbValidateVidPid(asked.vp) /\ IsFound(asked.ivp.text)
              /\ Begin("hold", copyFirmwareAndRewriteIDs(ramFirmware, identity), StandardAs(RamBuild, identity))
              /\ GoesTo("loaded") /\ UNCHANGED <<boardVars, kept, holds, runs>>
           \/ /\ \/ Fails
                 \/ ~(usbValidateVidPid(asked.vp) /\ IsFound(asked.ivp.text)) /\ UNCHANGED failures
              /\ GoesTo("stopped") /\ OnlyFailures
        /\ UNCHANGED polls

FirmwareSent ==
    /\ stage = "loaded" /\ job.kind = "idle"
    /\ IF result = "FL_SUCCESS" THEN GoesTo("waiting") /\ polls' = MaxPolls
       ELSE GoesTo("stopped") /\ UNCHANGED polls
    /\ UNCHANGED vars

\* One look for the board; the last that does not find it ends the program.
flIsDeviceAvailable ==
    /\ stage = "waiting"
    /\ \/ Fails /\ GoesTo("stopped")
       \/ IsFound(asked.vp) /\ GoesTo("reopening") /\ UNCHANGED failures
       \/ ~IsFound(asked.vp) /\ GoesTo(IF polls = 1 THEN "stopped" ELSE "waiting") /\ UNCHANGED failures
    /\ polls' = polls - 1
    /\ OnlyFailures

\* The end of the program.
flClose ==
    /\ stage \in {"connected", "stopped"} /\ job.kind = "idle"
    /\ stage' = "off" /\ line' = <<>> /\ asked' = NotAsked /\ polls' = 0 /\ begun' = 0
    /\ UNCHANGED <<vars, shown>>

\* A client with an open link flashes the standard firmware.
flFlashStandardFirmware(word) ==
    /\ stage = "connected" /\ Ready /\ usbValidateVidPid(word)
    /\ Begin("flash", copyFirmwareAndRewriteIDs(eepromNoBootFirmware, Identity[word]),
             StandardAs(EepromBuild, Identity[word]))
    /\ holds' = NoImage
    /\ UNCHANGED <<boardVars, kept, runs, startVars, shown>>

SystemNext ==
    \/ stage = "off" /\ JobAsked /\ UNCHANGED <<startVars, shown>>
    \/ JobStep /\ UNCHANGED <<startVars, shown>>
    \/ (Released \/ Repowered) /\ UNCHANGED startVars
    \/ Enumerated
    \/ \E words \in StartLines : main(words)
    \/ flOpen \/ flLoadStandardFirmware \/ FirmwareSent \/ flIsDeviceAvailable \/ flClose
    \/ \E word \in DOMAIN Identity : flFlashStandardFirmware(word)

SystemSpec == SystemInit /\ [][SystemNext]_systemVars

-----------------------------------------------------------------------------
(* What a command line says: its options from left to right, with nothing    *)
(* moved, and the words that are no options.                                 *)

RECURSIVE SaidFrom(_, _)
SaidFrom(o, s) ==
    LET next == _getopt_internal(o, s)
        said == [code |-> next.code, arg |-> next.optarg]
    IN  IF next.code.kind = "end"
        THEN [i \in 1 .. Len(s.argv) - next.optind |->
                [code |-> Returned("operand"), arg |-> Text(next.argv[next.optind + i])]]
        ELSE <<said>> \o SaidFrom(o, next)
SaidOrdered(table, words, ordering) ==
    SaidFrom(getopt_long(alloc_shortoptions(table), alloc_longoptions(table), ordering),
             _getopt_initialize(<<<<"flcli">>>> \o words))
Said(words) == SaidOrdered(argTable, words, "RETURN_IN_ORDER")
Names(k, code) ==
    \/ code.kind = "char" /\ code.char = argTable[k].short[1]
    \/ code.kind = "long" /\ code.value = k - 1
SaidOf(words, k) == SelectSeq(Said(words), LAMBDA said : Names(k, said.code))

\* A line is good when it holds options only, each with its value and as often
\* as the table has it.
IsGood(words) ==
    /\ \A i \in DOMAIN Said(words) :
           /\ Said(words)[i].code.kind \in {"char", "long"}
           /\ Said(words)[i].code.kind = "long" => Said(words)[i].arg # Text(<<>>)
    /\ \A k \in Options(argTable) : Len(SaidOf(words, k)) \in argTable[k].min .. argTable[k].max

-----------------------------------------------------------------------------
(* Properties.                                                               *)

\* A start ends as its line asks.  The program that gets a link gets it to the
\* board the line names, with the standard firmware running.  One that has loaded
\* the firmware, and met no failure, gives up only on a board that has not come
\* back to the bus: one that is back is what it was asked to become.
StartsAsAsked ==
    [][/\ (stage # "connected" /\ stage' = "connected") =>
              (IsGood(line) /\ IsFound(SaidOf(line, vpOpt)[1].arg.text) /\ Answers)
       /\ (stage \in {"waiting", "reopening"} /\ stage' = "stopped" /\ failures' = begun) =>
              (shown = NoBoard)]_systemVars
=============================================================================
