---- MODULE MakeDeploy ----
(***************************************************************************)
(* tools/make_deploy.py: a hex is built in a scratch copy of the checkout,  *)
(* with one robot's facts written into the copy, triaged, and flashed.      *)
(* Runs follow each other on one machine; what an earlier run left behind   *)
(* (scratch copies, object caches, a hex) is there when the next one        *)
(* starts.  A run is a list of steps, any of which may end it by sys.exit.  *)
(***************************************************************************)
EXTENDS Integers, Sequences, FiniteSets

CONSTANTS
    Config,         \* robot -> what radio-robot-lib's file says of it
    Requests,       \* command lines the operator gives
    Units,          \* the translation units pxt.json declares
    ExpectedUnits,  \* EXPECTED_CPP_FILES
    Absent,         \* a key, a file or a value that is not there
    Malformed,      \* one that is there and cannot be used
    MaxBuilds, MaxBuildEdits

DeployRobots == DOMAIN Config

ASSUME DeployAssumption ==
    /\ ExpectedUnits \subseteq Units
    /\ Absent \notin Requests
    /\ \A q \in Requests :
         /\ q.robot \in DeployRobots
         /\ {q.flash, q.testrig, q.faultSpin, q.noOtos} \subseteq BOOLEAN
    /\ {MaxBuilds, MaxBuildEdits} \subseteq Nat

CheckedIn == "checked-in"   \* the placeholder a tracked source carries

VARIABLES
    source,     \* version of the checkout
    run,        \* the command line of the current run, or Absent
    todo,       \* the steps it still has to take
    scratch,    \* directory -> its sources and what was written into them
    objects,    \* directory -> unit -> the image it was last compiled from
    hex,        \* directory -> built/binary.hex, or Absent
    output,     \* what the last `pxt build` printed
    attempt,
    flashed,    \* robot -> what mbdeploy put on it, and for which run
    runs

deployVars == <<source, run, todo, scratch, objects, hex, output, attempt,
                flashed, runs>>

---------------------------------------------------------------------------
(* Radio addresses.  A micro:bit friendly name is five letters, each a      *)
(* base-5 digit of its alphabet, the first the most significant.            *)

Names == [1 .. 5 -> 0 .. 4]
NameValues == 0 .. 3124

NameToValue(name) ==
    ((((name[1] * 5) + name[2]) * 5 + name[3]) * 5 + name[4]) * 5 + name[5]

PlaceValue == <<625, 125, 25, 5, 1>>
ValueToName(n) == [i \in 1 .. 5 |-> (n \div PlaceValue[i]) % 5]

\* Mutant: the retired map, whose channels are every other one of fifty.
DeriveRadioOldMap(name) ==
    LET n == NameToValue(name) IN <<25 + 2 * (n % 25), 15 + (n % 241)>>

DeriveRadio(name) ==
    LET n == NameToValue(name) IN <<11 + (n % 73), 15 + (n % 241)>>

\* The one name whose derived pair is <<channel, group>>, or Absent.
AddressToName(channel, group) ==
    LET c == channel - 11
        g == group - 15
        n == c + (73 * (((g - c + 241) * 208) % 241))
    IN IF channel \in 11 .. 83 /\ group \in 15 .. 255 /\ n \in NameValues
       THEN ValueToName(n) ELSE Absent

DefaultRadioGroup == 10

\* A config whose channel is the one derived from the robot's own name but
\* that names no group is refused.
HalfMigrated(c) ==
    /\ c.group = Absent
    /\ c.name # Absent
    /\ c.channel = DeriveRadio(c.name)[1]

GroupRefused(c) == HalfMigrated(c) \/ c.group = Malformed

RadioGroup(c) == IF c.group = Absent THEN DefaultRadioGroup ELSE c.group

---------------------------------------------------------------------------
(* The injections: what each refuses, and what it writes into the copy.     *)

Readable(c) == c.file = "ok"

RadioRefused(q) ==
    LET c == Config[q.robot]
    IN ~Readable(c) \/ c.channel = Absent \/ GroupRefused(c)

Radio(q) == LET c == Config[q.robot] IN <<c.channel, RadioGroup(c)>>

\* kProfile is robot and suffix, at most 31 bytes.
ProfileRefused(q) == ~Readable(Config[q.robot]) \/ q.suffix = "too long"
Profile(q) == <<q.robot, IF q.faultSpin THEN "-faultspin" ELSE q.suffix>>

\* An absent secrets file leaves the link disabled; a malformed one is fatal.
WifiRefused(q) == q.secrets = "malformed"
Wifi(q) == q.secrets = "present"

\* geometry.firmware_bake is optional, and so is the file, but not its shape.
FirmwareBake(q, key) ==
    IF Config[q.robot].file = "missing" THEN Absent
    ELSE Config[q.robot].bake[key]
BakeUnreadable(q) == Config[q.robot].file = "broken"

Baked(q, key) ==
    IF FirmwareBake(q, key) = Absent THEN CheckedIn ELSE FirmwareBake(q, key)

BoardRefused(q) ==
    BakeUnreadable(q) \/ FirmwareBake(q, "board") \notin
                            {Absent, "nezha", "cutebot-pro"}

GeometryRefused(q) == BakeUnreadable(q) \/ FirmwareBake(q, "geometry") = Malformed

\* The retired key is baked under its new name, which wins when both are there.
Geometry(q) ==
    IF FirmwareBake(q, "geometry") = "retired key" THEN "measured"
    ELSE Baked(q, "geometry")

MotorsRefused(q) ==
    \/ BakeUnreadable(q)
    \/ FirmwareBake(q, "motors") \notin {Absent, "wiring"}
    \/ FirmwareBake(q, "motors") # Absent
         /\ FirmwareBake(q, "board") = "cutebot-pro"

\* test.ts only: the flag, else the config's word, else off.
RadioLink(q) ==
    IF q.radioLink # Absent THEN q.radioLink
    ELSE Readable(Config[q.robot]) /\ Config[q.robot].radioLink

\* identity.ts, linefollow.ts and test.ts declare the banner's placeholders.
BannerRefused(q) == q.program = "testrig"

---------------------------------------------------------------------------
(* main(): which scratch copy a run uses and which steps it takes.          *)

Dir(q) ==
    IF q.faultSpin THEN "faultspin"
    ELSE IF q.program # "test" THEN q.program
    ELSE IF q.testrig THEN "testrig" ELSE "head"

Dirs == {Dir(q) : q \in Requests}

ArgsRefused(q) ==
    \/ q.noOtos /\ (q.faultSpin \/ q.testrig \/ q.program # "test")
    \/ q.suffix # "" /\ (q.faultSpin \/ q.testrig \/ q.program # "test")
    \/ q.suffix = "ill-formed"
    \/ q.faultSpin /\ (q.testrig \/ q.program # "test")
    \/ q.program = "test" /\ q.testrig /\ q.flash

FaultSpinSteps ==
    <<"sync", "radio", "profile", "wifi", "board", "geometry", "motors",
      "version", "banner", "radioLink", "faultSpin", "build">>
ProgramSteps ==
    <<"sync", "radio", "profile", "wifi", "board", "geometry", "version",
      "banner", "build">>
TestrigSteps == <<"sync", "build">>
PrimarySteps ==
    <<"sync", "otos", "radio", "profile", "wifi", "board", "geometry",
      "motors", "version", "banner", "radioLink", "build">>

Steps(q) ==
    (CASE q.faultSpin -> FaultSpinSteps
       [] ~q.faultSpin /\ q.program # "test" -> ProgramSteps
       [] ~q.faultSpin /\ q.program = "test" /\ q.testrig -> TestrigSteps
       [] OTHER -> PrimarySteps)
    \o (IF q.flash THEN <<"flash">> ELSE <<>>)

Refused(q, step) ==
    CASE step = "radio" -> RadioRefused(q)
      [] step = "profile" -> ProfileRefused(q)
      [] step = "wifi" -> WifiRefused(q)
      [] step = "board" -> BoardRefused(q)
      [] step = "geometry" -> GeometryRefused(q)
      [] step = "motors" -> MotorsRefused(q)
      [] step = "banner" -> BannerRefused(q)
      [] OTHER -> FALSE

\* A fresh copy: every declared file again, one test program promoted.
\* --testrig means nothing to a build of another program.
Promoted(q) == IF q.testrig /\ q.program = "test" THEN "testrig" ELSE q.program

Fresh(q) ==
    [src |-> source, program |-> Promoted(q),
     radio |-> CheckedIn, profile |-> CheckedIn, wifi |-> FALSE,
     board |-> CheckedIn, geometry |-> CheckedIn, motors |-> CheckedIn,
     version |-> CheckedIn, banner |-> CheckedIn, radioLink |-> FALSE,
     faultSpin |-> FALSE, otos |-> TRUE]

Injected(q, step, copy) ==
    CASE step = "sync" -> Fresh(q)
      [] step = "otos" -> [copy EXCEPT !.otos = ~q.noOtos]
      [] step = "radio" -> [copy EXCEPT !.radio = Radio(q)]
      [] step = "profile" -> [copy EXCEPT !.profile = Profile(q)]
      [] step = "wifi" -> [copy EXCEPT !.wifi = Wifi(q)]
      [] step = "board" -> [copy EXCEPT !.board = Baked(q, "board")]
      [] step = "geometry" -> [copy EXCEPT !.geometry = Geometry(q)]
      [] step = "motors" -> [copy EXCEPT !.motors = Baked(q, "motors")]
      [] step = "version" -> [copy EXCEPT !.version = copy.src]
      [] step = "banner" -> [copy EXCEPT !.banner = <<copy.src, q.robot>>]
      [] step = "radioLink" -> [copy EXCEPT !.radioLink = RadioLink(q)]
      [] step = "faultSpin" -> [copy EXCEPT !.faultSpin = TRUE]

---------------------------------------------------------------------------
(* `pxt build`.  Whatever is not compiled again is linked from the object   *)
(* cache of that directory, which the log does not show.                    *)

NoOutput == [compiled |-> {}, shape |-> "clean"]

Shapes == {"clean", "compile error", "packaging abort", "other"}

\* The hex a link makes: each unit from the sources just compiled, or from
\* whatever image its cached object has.
Linked(d, compiled) ==
    [u \in Units |-> IF u \in compiled THEN scratch[d] ELSE objects[d][u]]

\* Mutant: a build that ends without a hex leaves the previous one there.
PxtBuildKeepsHex(d) ==
    \E shape \in Shapes, compiled \in SUBSET Units :
        LET objs == Linked(d, compiled) IN
        /\ output' = [compiled |-> compiled, shape |-> shape]
        /\ objects' = [objects EXCEPT ![d] = objs]
        /\ \/ UNCHANGED hex
           \/ /\ shape \in {"clean", "compile error"}
              /\ \E universal \in BOOLEAN, short \in BOOLEAN :
                    /\ short \/ \A u \in Units : objs[u] # Absent
                    /\ hex' = [hex EXCEPT ![d] =
                                 [objs |-> objs, universal |-> universal,
                                  short |-> short]]

\* The old hex is removed before the build starts.
PxtBuild(d) ==
    \E shape \in Shapes, compiled \in SUBSET Units :
        LET objs == Linked(d, compiled) IN
        /\ output' = [compiled |-> compiled, shape |-> shape]
        /\ objects' = [objects EXCEPT ![d] = objs]
        /\ \/ hex' = [hex EXCEPT ![d] = Absent]
           \/ /\ shape \in {"clean", "compile error"}
              /\ \E universal \in BOOLEAN, short \in BOOLEAN :
                    /\ short \/ \A u \in Units : objs[u] # Absent
                    /\ hex' = [hex EXCEPT ![d] =
                                 [objs |-> objs, universal |-> universal,
                                  short |-> short]]

Verdict(d) ==
    CASE output.shape = "compile error" -> "hard_failure"
      [] output.shape # "compile error" /\ hex[d] # Absent -> "success"
      [] output.shape = "packaging abort" /\ hex[d] = Absent -> "benign"
      [] OTHER -> "unknown"

UniversalHex(d) == hex[d].universal
HexTooSmall(d) == hex[d].short
\* Mutant: the log is not looked at.
MissingUnitsUnchecked == {}

MissingUnits == ExpectedUnits \ output.compiled

Accepted(d) ==
    /\ Verdict(d) = "success"
    /\ ~UniversalHex(d)
    /\ ~HexTooSmall(d)
    /\ MissingUnits = {}

---------------------------------------------------------------------------

DeployInit ==
    /\ source = 0
    /\ run = Absent
    /\ todo = <<>>
    /\ scratch = [d \in Dirs |-> Absent]
    /\ objects = [d \in Dirs |-> [u \in Units |-> Absent]]
    /\ hex = [d \in Dirs |-> Absent]
    /\ output = NoOutput
    /\ attempt = 0
    /\ flashed = [r \in DeployRobots |-> Absent]
    /\ runs = 0

\* The checkout moves on between two runs.
EditSource ==
    /\ run = Absent
    /\ source < MaxBuildEdits
    /\ source' = source + 1
    /\ UNCHANGED <<run, todo, scratch, objects, hex, output, attempt, flashed, runs>>

StartBuild(q) ==
    /\ run = Absent
    /\ runs < MaxBuilds
    /\ ~ArgsRefused(q)
    /\ run' = q
    /\ todo' = Steps(q)
    /\ runs' = runs + 1
    /\ UNCHANGED <<source, scratch, objects, hex, output, attempt, flashed>>

\* sys.exit(), or the end of main().
Leave ==
    /\ run' = Absent
    /\ todo' = <<>>
    /\ output' = NoOutput
    /\ attempt' = 0

Inject ==
    /\ run # Absent
    /\ todo # <<>>
    /\ Head(todo) \notin {"build", "flash"}
    /\ ~Refused(run, Head(todo))
    /\ scratch' = [scratch EXCEPT ![Dir(run)] = Injected(run, Head(todo), @)]
    /\ todo' = Tail(todo)
    /\ UNCHANGED <<source, run, objects, hex, output, attempt, flashed, runs>>

Exit ==
    /\ run # Absent
    /\ todo # <<>>
    /\ Refused(run, Head(todo))
    /\ Leave
    /\ UNCHANGED <<source, scratch, objects, hex, flashed, runs>>

\* The first attempt, or the one retry a benign abort is given.
Attempt ==
    /\ run # Absent
    /\ todo # <<>> /\ Head(todo) = "build"
    /\ \/ attempt = 0
       \/ attempt = 1 /\ Verdict(Dir(run)) = "benign"
    /\ attempt' = attempt + 1
    /\ PxtBuild(Dir(run))
    /\ UNCHANGED <<source, run, todo, scratch, flashed, runs>>

BuildReady ==
    /\ run # Absent
    /\ todo # <<>> /\ Head(todo) = "build"
    /\ attempt > 0
    /\ Accepted(Dir(run))
    /\ todo' = Tail(todo)
    /\ UNCHANGED <<source, run, scratch, objects, hex, output, attempt, flashed, runs>>

BuildFailed ==
    /\ run # Absent
    /\ todo # <<>> /\ Head(todo) = "build"
    /\ attempt > 0
    /\ ~Accepted(Dir(run))
    /\ ~(attempt = 1 /\ Verdict(Dir(run)) = "benign")
    /\ Leave
    /\ UNCHANGED <<source, scratch, objects, hex, flashed, runs>>

\* mbdeploy may fail and leave the board as it was.
Flash ==
    /\ run # Absent
    /\ todo # <<>> /\ Head(todo) = "flash"
    /\ \/ flashed' = [flashed EXCEPT ![run.robot] =
                        [hex |-> hex[Dir(run)], run |-> run,
                         src |-> scratch[Dir(run)].src]]
       \/ UNCHANGED flashed
    /\ Leave
    /\ UNCHANGED <<source, scratch, objects, hex, runs>>

Done ==
    /\ run # Absent
    /\ todo = <<>>
    /\ Leave
    /\ UNCHANGED <<source, scratch, objects, hex, flashed, runs>>

DeployNext ==
    \/ EditSource
    \/ \E q \in Requests : StartBuild(q)
    \/ Inject
    \/ Exit
    \/ Attempt
    \/ BuildReady
    \/ BuildFailed
    \/ Flash
    \/ Done

---------------------------------------------------------------------------

(***************************************************************************)
(* What is asked of a build: this checkout, this robot's address, profile,  *)
(* board, geometry and wiring, whatever the earlier runs were for.          *)
(***************************************************************************)
Wanted(q, version) ==
    [src |-> version, program |-> q.program, radio |-> Radio(q),
     profile |-> Profile(q), wifi |-> Wifi(q), board |-> Baked(q, "board"),
     geometry |-> Geometry(q), motors |-> Baked(q, "motors"),
     version |-> version, banner |-> <<version, q.robot>>,
     radioLink |-> RadioLink(q), faultSpin |-> q.faultSpin, otos |-> ~q.noOtos]

\* What a --program build leaves at the tracked value.
NotForPrograms(q, image) ==
    IF q.program = "test" THEN image
    ELSE [image EXCEPT !.motors = CheckedIn, !.radioLink = FALSE]

\* A board is only given a plain, whole hex whose expected units were all
\* compiled in this run, from this run's copy with this robot's values in it:
\* never one an earlier run, another robot or an object cache left there.
FlashedIsThisBuild ==
    \A r \in DeployRobots : flashed[r] # Absent =>
        LET f == flashed[r] IN
        /\ ~f.hex.universal /\ ~f.hex.short
        /\ \A u \in ExpectedUnits :
              f.hex.objs[u] = NotForPrograms(f.run, Wanted(f.run, f.src))

\* The same of every unit and every value a robot's config bakes.
WholeBuildIsFlashed ==
    \A r \in DeployRobots : flashed[r] # Absent =>
        LET f == flashed[r] IN
        \A u \in Units : f.hex.objs[u] = Wanted(f.run, f.src)

\* All 3125 names derive different addresses, and the reverse map of the
\* addressing rules finds the name again: two robots of different names are
\* never led to one address by the derivation.
AddressesApart ==
    \A name \in Names :
        AddressToName(DeriveRadio(name)[1], DeriveRadio(name)[2]) = name

\* What is flashed is this build for this robot, with the pair its
\* configuration names; of that pair only the derived half is checked to be
\* apart.  Nothing in the program compares two configurations: two boards that
\* share a name, or are configured onto one pair, do answer one relay.
DeploysAreSound == FlashedIsThisBuild /\ AddressesApart

DeployTypeOK ==
    /\ source \in 0 .. MaxBuildEdits
    /\ run \in Requests \cup {Absent}
    /\ \A d \in Dirs : hex[d] # Absent => DOMAIN hex[d].objs = Units
    /\ output.compiled \subseteq Units /\ output.shape \in Shapes
    /\ attempt \in 0 .. 2
    /\ runs \in 0 .. MaxBuilds

DeploySpec == DeployInit /\ [][DeployNext]_deployVars
====
