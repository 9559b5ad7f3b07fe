------------------------ MODULE DeveloperTools_proofs -------------------------
(***************************************************************************)
(* Theorems about the programs that change what the developer keeps, for   *)
(* any inputs.                                                             *)
(*                                                                         *)
(* make_deploy.py: any fleet, any command lines and any units, whatever    *)
(* the earlier builds on the machine left behind.                          *)
(*                                                                         *)
(* publish_extension.py: any number of publishers, with any options, and   *)
(* however often the checkout is edited meanwhile.                         *)
(*                                                                         *)
(* blocks_env.py: any command lines, however often it is run, over what an *)
(* earlier run, an interrupted one, the editor and its user left.          *)
(* ScratchInv says how far the scratch project is made, PhaseInv what the  *)
(* steps that are over have left, TabInv which tab can have written a      *)
(* history.                                                                *)
(*                                                                         *)
(* gen_config_field_enum.py: any tables of rows, however often it is run   *)
(* and they are edited.                                                    *)
(***************************************************************************)
EXTENDS GeneratedSources, MakeDeploy, PublishExtension, BlocksWorkspace, FiniteSetTheorems, TLAPS

-----------------------------------------------------------------------------
(* make_deploy.py.                                                           *)

(* Radio addresses: the reverse map undoes the derivation for every name.   *)

\* 208 is the inverse of 73 modulo 241: the channel's and the group's
\* remainders give the number back.
LEMMA RemaindersGiveNumber ==
  ASSUME NEW n \in NameValues
  PROVE  /\ n % 73 \in 0 .. 72 /\ n % 241 \in 0 .. 240
         /\ (n % 73) + 73 * ((((n % 241) - (n % 73) + 241) * 208) % 241) = n
<1> DEFINE c == n % 73
           a == n \div 73
           g == n % 241
           b == n \div 241
           k == 63 * a - 208 * b + 208
<1>1. n \in Int /\ n >= 0 /\ n <= 3124
  BY DEF NameValues
<1>2. c \in 0 .. 72 /\ a \in 0 .. 42 /\ n = 73 * a + c
  BY <1>1
<1>3. g \in 0 .. 240 /\ b \in 0 .. 12 /\ n = 241 * b + g
  BY <1>1
<1> HIDE DEF a, b, c, g
<1>4. (g - c + 241) * 208 = a + 241 * k /\ k \in Int
  BY <1>2, <1>3
<1> HIDE DEF k
<1>5. (a + 241 * k) % 241 = a
  BY <1>2, <1>4
<1>6. c + 73 * (((g - c + 241) * 208) % 241) = n
  BY <1>2, <1>4, <1>5
<1> QED BY <1>2, <1>3, <1>6 DEF c, g

\* A name's number, and its letters back.
LEMMA LettersGiveNumber ==
  ASSUME NEW name \in Names
  PROVE  NameToValue(name) \in NameValues /\ ValueToName(NameToValue(name)) = name
<1> DEFINE n == NameToValue(name)
<1>1. PICK a \in 0 .. 4, b \in 0 .. 4, c \in 0 .. 4, d \in 0 .. 4, e \in 0 .. 4 :
        name[1] = a /\ name[2] = b /\ name[3] = c /\ name[4] = d /\ name[5] = e
  <2>1. \A i \in 1 .. 5 : name[i] \in 0 .. 4
    BY DEF Names
  <2>2. /\ name[1] \in 0 .. 4 /\ name[2] \in 0 .. 4 /\ name[3] \in 0 .. 4
        /\ name[4] \in 0 .. 4 /\ name[5] \in 0 .. 4
    BY <2>1
  <2> QED BY <2>2, Zenon
<1>2. n = ((((a * 5) + b) * 5 + c) * 5 + d) * 5 + e
  BY <1>1 DEF NameToValue
<1> HIDE DEF n
<1>3. /\ n \in NameValues
      /\ (n \div 625) % 5 = name[1] /\ (n \div 125) % 5 = name[2] /\ (n \div 25) % 5 = name[3]
      /\ (n \div 5) % 5 = name[4] /\ (n \div 1) % 5 = name[5]
  <2>1. n \in Int /\ n >= 0 /\ n <= 3124
    BY <1>2
  <2>2. n = 625 * a + (125 * b + 25 * c + 5 * d + e)
    BY <1>2
  <2>3. n = 125 * (5 * a + b) + (25 * c + 5 * d + e)
    BY <1>2
  <2>4. n = 25 * (25 * a + 5 * b + c) + (5 * d + e)
    BY <1>2
  <2>5. n = 5 * (125 * a + 25 * b + 5 * c + d) + e
    BY <1>2
  <2>6. n \div 625 = a
    BY <2>1, <2>2
  <2>7. n \div 125 = 5 * a + b
    BY <2>1, <2>3
  <2>8. n \div 25 = 5 * (5 * a + b) + c
    BY <2>1, <2>4
  <2>9. n \div 5 = 5 * (25 * a + 5 * b + c) + d
    BY <2>1, <2>5
  <2>10. n \div 1 = 5 * (125 * a + 25 * b + 5 * c + d) + e
    BY <2>1, <2>5
  <2>11. \A k \in Int, r \in 0 .. 4 : (5 * k + r) % 5 = r
    OBVIOUS
  <2>12. a % 5 = a
    OBVIOUS
  <2>13. n \in NameValues
    BY <2>1 DEF NameValues
  <2> QED BY <1>1, <2>6, <2>7, <2>8, <2>9, <2>10, <2>11, <2>12, <2>13
<1>4. \A i \in 1 .. 5 : (n \div PlaceValue[i]) % 5 = name[i]
  <2> TAKE i \in 1 .. 5
  <2>1. i = 1 \/ i = 2 \/ i = 3 \/ i = 4 \/ i = 5
    OBVIOUS
  <2>2. /\ PlaceValue[1] = 625 /\ PlaceValue[2] = 125 /\ PlaceValue[3] = 25
        /\ PlaceValue[4] = 5 /\ PlaceValue[5] = 1
    BY DEF PlaceValue
  <2> QED BY <1>3, <2>1, <2>2
<1>5. name = [i \in 1 .. 5 |-> name[i]]
  BY DEF Names
<1>6. ValueToName(n) = name
  BY <1>4, <1>5 DEF ValueToName
<1> QED BY <1>3, <1>6 DEF n

(* No two names derive one address (make_deploy.py, "all 3125 names get     *)
(* distinct pairs"): the reverse map of the addressing rules finds each.    *)
(* Boards that share a name, or pairs a configuration names, are outside.   *)
THEOREM AddressesAreApart == AddressesApart
<1> SUFFICES ASSUME NEW name \in Names
             PROVE  AddressToName(DeriveRadio(name)[1], DeriveRadio(name)[2]) = name
  BY DEF AddressesApart
<1> DEFINE n == NameToValue(name)
           channel == 11 + (n % 73)
           group == 15 + (n % 241)
<1>1. n \in NameValues /\ ValueToName(n) = name
  BY LettersGiveNumber
<1>2. DeriveRadio(name)[1] = channel /\ DeriveRadio(name)[2] = group
  BY DEF DeriveRadio
<1> HIDE DEF n
<1>3. /\ n % 73 \in 0 .. 72 /\ n % 241 \in 0 .. 240
      /\ (n % 73) + 73 * ((((n % 241) - (n % 73) + 241) * 208) % 241) = n
  BY <1>1, RemaindersGiveNumber
<1>4. /\ channel \in 11 .. 83 /\ group \in 15 .. 255
      /\ channel - 11 = n % 73 /\ group - 15 = n % 241
  BY <1>3
<1> HIDE DEF channel, group
<1>5. AddressToName(channel, group) = ValueToName(n)
  <2> DEFINE c == channel - 11
             g == group - 15
  <2>1. c + (73 * (((g - c + 241) * 208) % 241)) = n
    <3>1. c = n % 73 /\ g = n % 241
      BY <1>4
    <3> HIDE DEF c, g
    <3> QED BY <1>3, <3>1, Zenon
  <2> QED BY <1>1, <1>4, <2>1, Zenon DEF AddressToName
<1> QED BY <1>1, <1>2, <1>5

-----------------------------------------------------------------------------
(* The steps of a run.                                                      *)

\* The steps up to and with the build.
BuildSteps(q) ==
    IF q.faultSpin THEN FaultSpinSteps
    ELSE IF q.program # "test" THEN ProgramSteps
    ELSE IF q.testrig THEN TestrigSteps ELSE PrimarySteps

Injections ==
    {"otos", "radio", "profile", "wifi", "board", "geometry", "motors", "version", "banner",
     "radioLink", "faultSpin"}
Words == Injections \cup {"sync", "build", "flash"}

\* A run writes into its copy, after a fresh start, until the build, and then
\* flashes if it was asked to.
Shaped(s) ==
    /\ s \in Seq(Words) /\ Len(s) > 1 /\ s[1] = "sync" /\ s[Len(s)] = "build"
    /\ \A i \in 2 .. Len(s) - 1 : s[i] \in Injections

\* What steps a list holds.
Firsts(s, n) == {s[i] : i \in 1 .. n}
StepSet(s) == {s[i] : i \in 1 .. Len(s)}

\* Each of the four lists has that shape.
LEMMA FaultSpinStepsShaped ==
  /\ Shaped(FaultSpinSteps) /\ Len(FaultSpinSteps) = 12
  /\ StepSet(FaultSpinSteps) = {"sync", "radio", "profile", "wifi", "board", "geometry",
                            "motors", "version", "banner", "radioLink", "faultSpin", "build"}
<1>1. FaultSpinSteps \in Seq(Words) /\ Len(FaultSpinSteps) = 12
  BY DEF FaultSpinSteps, Words, Injections
<1>2. /\ FaultSpinSteps[1] = "sync" /\ FaultSpinSteps[2] = "radio"
      /\ FaultSpinSteps[3] = "profile" /\ FaultSpinSteps[4] = "wifi"
      /\ FaultSpinSteps[5] = "board" /\ FaultSpinSteps[6] = "geometry"
      /\ FaultSpinSteps[7] = "motors" /\ FaultSpinSteps[8] = "version"
      /\ FaultSpinSteps[9] = "banner" /\ FaultSpinSteps[10] = "radioLink"
      /\ FaultSpinSteps[11] = "faultSpin" /\ FaultSpinSteps[12] = "build"
  BY DEF FaultSpinSteps
<1>3. \A i \in 1 .. 12 : i = 1 \/ i = 2 \/ i = 3 \/ i = 4 \/ i = 5 \/ i = 6
                             \/ i = 7 \/ i = 8 \/ i = 9 \/ i = 10
            \/ i = 11 \/ i = 12
  OBVIOUS
<1>4. \A i \in 2 .. 11 : FaultSpinSteps[i] \in Injections
  BY <1>2, <1>3 DEF Injections
<1> QED BY <1>1, <1>2, <1>3, <1>4 DEF Shaped, StepSet

LEMMA ProgramStepsShaped ==
  /\ Shaped(ProgramSteps) /\ Len(ProgramSteps) = 9
  /\ StepSet(ProgramSteps) = {"sync", "radio", "profile", "wifi", "board", "geometry",
                            "version", "banner", "build"}
<1>1. ProgramSteps \in Seq(Words) /\ Len(ProgramSteps) = 9
  BY DEF ProgramSteps, Words, Injections
<1>2. /\ ProgramSteps[1] = "sync" /\ ProgramSteps[2] = "radio" /\ ProgramSteps[3] = "profile"
      /\ ProgramSteps[4] = "wifi" /\ ProgramSteps[5] = "board" /\ ProgramSteps[6] = "geometry"
      /\ ProgramSteps[7] = "version" /\ ProgramSteps[8] = "banner" /\ ProgramSteps[9] = "build"
  BY DEF ProgramSteps
<1>3. \A i \in 1 .. 9 : i = 1 \/ i = 2 \/ i = 3 \/ i = 4 \/ i = 5 \/ i = 6
                            \/ i = 7 \/ i = 8 \/ i = 9
  OBVIOUS
<1>4. \A i \in 2 .. 8 : ProgramSteps[i] \in Injections
  BY <1>2, <1>3 DEF Injections
<1> QED BY <1>1, <1>2, <1>3, <1>4 DEF Shaped, StepSet

LEMMA TestrigStepsShaped ==
  /\ Shaped(TestrigSteps) /\ Len(TestrigSteps) = 2
  /\ StepSet(TestrigSteps) = {"sync", "build"}
<1>1. TestrigSteps \in Seq(Words) /\ Len(TestrigSteps) = 2
  BY DEF TestrigSteps, Words, Injections
<1>2. /\ TestrigSteps[1] = "sync" /\ TestrigSteps[2] = "build"
  BY DEF TestrigSteps
<1>3. \A i \in 1 .. 2 : i = 1 \/ i = 2
  OBVIOUS
<1> QED BY <1>1, <1>2, <1>3 DEF Shaped, StepSet

LEMMA PrimaryStepsShaped ==
  /\ Shaped(PrimarySteps) /\ Len(PrimarySteps) = 12
  /\ StepSet(PrimarySteps) = {"sync", "otos", "radio", "profile", "wifi", "board", "geometry",
                            "motors", "version", "banner", "radioLink", "build"}
<1>1. PrimarySteps \in Seq(Words) /\ Len(PrimarySteps) = 12
  BY DEF PrimarySteps, Words, Injections
<1>2. /\ PrimarySteps[1] = "sync" /\ PrimarySteps[2] = "otos" /\ PrimarySteps[3] = "radio"
      /\ PrimarySteps[4] = "profile" /\ PrimarySteps[5] = "wifi" /\ PrimarySteps[6] = "board"
      /\ PrimarySteps[7] = "geometry" /\ PrimarySteps[8] = "motors"
      /\ PrimarySteps[9] = "version" /\ PrimarySteps[10] = "banner"
      /\ PrimarySteps[11] = "radioLink" /\ PrimarySteps[12] = "build"
  BY DEF PrimarySteps
<1>3. \A i \in 1 .. 12 : i = 1 \/ i = 2 \/ i = 3 \/ i = 4 \/ i = 5 \/ i = 6
                             \/ i = 7 \/ i = 8 \/ i = 9 \/ i = 10
            \/ i = 11 \/ i = 12
  OBVIOUS
<1>4. \A i \in 2 .. 11 : PrimarySteps[i] \in Injections
  BY <1>2, <1>3 DEF Injections
<1> QED BY <1>1, <1>2, <1>3, <1>4 DEF Shaped, StepSet

\* The steps of a run are one of them and, if asked for, the flash.
LEMMA StepsOfRun ==
  ASSUME NEW q \in Requests
  PROVE  /\ Shaped(BuildSteps(q))
         /\ Steps(q) \in Seq(Words) /\ q.flash \in BOOLEAN
         /\ q.flash => /\ Len(Steps(q)) = Len(BuildSteps(q)) + 1
                       /\ Steps(q)[Len(BuildSteps(q)) + 1] = "flash"
         /\ ~q.flash => Len(Steps(q)) = Len(BuildSteps(q))
         /\ \A i \in 1 .. Len(BuildSteps(q)) : Steps(q)[i] = BuildSteps(q)[i]
<1> DEFINE b == BuildSteps(q)
           f == IF q.flash THEN <<"flash">> ELSE <<>>
<1>1. Shaped(b)
  BY FaultSpinStepsShaped, ProgramStepsShaped, TestrigStepsShaped, PrimaryStepsShaped DEF BuildSteps
<1>2. q.flash \in BOOLEAN /\ q.testrig \in BOOLEAN /\ q.faultSpin \in BOOLEAN
  BY DeployAssumption
<1>3. Steps(q) = b \o f
  BY <1>2 DEF Steps, BuildSteps
<1>4. b \in Seq(Words)
  BY <1>1 DEF Shaped
<1>5. f \in Seq(Words) /\ (q.flash => Len(f) = 1 /\ f[1] = "flash") /\ (~q.flash => Len(f) = 0)
  <2>1. CASE q.flash
    <3>1. f = <<"flash">> /\ "flash" \in Words
      BY <2>1 DEF Words
    <3> QED BY <2>1, <3>1
  <2>2. CASE ~q.flash
    <3>1. f = <<>>
      BY <2>2
    <3> QED BY <2>2, <3>1
  <2> QED BY <2>1, <2>2
<1> HIDE DEF b, f
<1>6. /\ Steps(q) \in Seq(Words) /\ Len(Steps(q)) = Len(b) + Len(f)
      /\ \A i \in 1 .. Len(b) : Steps(q)[i] = b[i]
      /\ \A i \in 1 .. Len(f) : Steps(q)[Len(b) + i] = f[i]
  BY <1>3, <1>4, <1>5
<1>7. Len(b) \in Nat
  BY <1>4
<1> QED BY <1>1, <1>2, <1>5, <1>6, <1>7 DEF b

-----------------------------------------------------------------------------
(* What a run has written into its scratch copy.                            *)

CopyOf(src, program, radio, profile, wifi, board, geometry, motors, version, banner, radioLink,
       faultSpin, otos) ==
    [src |-> src, program |-> program, radio |-> radio, profile |-> profile, wifi |-> wifi,
     board |-> board, geometry |-> geometry, motors |-> motors, version |-> version,
     banner |-> banner, radioLink |-> radioLink, faultSpin |-> faultSpin, otos |-> otos]

IsCopy(c) ==
    c = CopyOf(c.src, c.program, c.radio, c.profile, c.wifi, c.board, c.geometry, c.motors,
               c.version, c.banner, c.radioLink, c.faultSpin, c.otos)

\* Whether the OTOS is set up at boot.
OtosOf(q) == ~q.noOtos

\* The copy after the steps in done: what they wrote, and the tracked values
\* where none of them wrote.
Written(c, q, done) ==
    /\ IsCopy(c)
    /\ c.program = Promoted(q)
    /\ "radio" \in done => c.radio = Radio(q)
    /\ "profile" \in done => c.profile = Profile(q)
    /\ "wifi" \in done => c.wifi = Wifi(q)
    /\ "board" \in done => c.board = Baked(q, "board")
    /\ "geometry" \in done => c.geometry = Geometry(q)
    /\ c.motors = IF "motors" \in done THEN Baked(q, "motors") ELSE CheckedIn
    /\ "version" \in done => c.version = c.src
    /\ "banner" \in done => c.banner = <<c.src, q.robot>>
    /\ "radioLink" \in done => c.radioLink = RadioLink(q)
    /\ "radioLink" \notin done => c.radioLink = FALSE
    /\ "faultSpin" \in done => c.faultSpin = TRUE
    /\ "faultSpin" \notin done => c.faultSpin = FALSE
    /\ "otos" \in done => c.otos = OtosOf(q)
    /\ "otos" \notin done => c.otos = TRUE

\* Copies with the same fields are the same.
LEMMA SameCopy ==
  ASSUME NEW a, NEW b, IsCopy(a), IsCopy(b),
         a.src = b.src, a.program = b.program, a.radio = b.radio, a.profile = b.profile,
         a.wifi = b.wifi, a.board = b.board, a.geometry = b.geometry, a.motors = b.motors,
         a.version = b.version, a.banner = b.banner, a.radioLink = b.radioLink,
         a.faultSpin = b.faultSpin, a.otos = b.otos
  PROVE  a = b
BY Zenon DEF IsCopy

\* What each injection makes of the copy.
LEMMA InjectionsDo ==
  ASSUME NEW c, NEW q
  PROVE  /\ Injected(q, "otos", c) = [c EXCEPT !.otos = OtosOf(q)]
         /\ Injected(q, "radio", c) = [c EXCEPT !.radio = Radio(q)]
         /\ Injected(q, "profile", c) = [c EXCEPT !.profile = Profile(q)]
         /\ Injected(q, "wifi", c) = [c EXCEPT !.wifi = Wifi(q)]
         /\ Injected(q, "board", c) = [c EXCEPT !.board = Baked(q, "board")]
         /\ Injected(q, "geometry", c) = [c EXCEPT !.geometry = Geometry(q)]
         /\ Injected(q, "motors", c) = [c EXCEPT !.motors = Baked(q, "motors")]
         /\ Injected(q, "version", c) = [c EXCEPT !.version = c.src]
         /\ Injected(q, "banner", c) = [c EXCEPT !.banner = <<c.src, q.robot>>]
         /\ Injected(q, "radioLink", c) = [c EXCEPT !.radioLink = RadioLink(q)]
         /\ Injected(q, "faultSpin", c) = [c EXCEPT !.faultSpin = TRUE]
BY DEF Injected, OtosOf

\* An injection leaves what the others wrote.
LEMMA CopyWritten ==
  ASSUME NEW c, NEW q, NEW done, Written(c, q, done), NEW step \in Injections
  PROVE  Written(Injected(q, step, c), q, done \cup {step}) /\ Injected(q, step, c).src = c.src
<1> DEFINE now == Injected(q, step, c)
<1>0. c = CopyOf(c.src, c.program, c.radio, c.profile, c.wifi, c.board, c.geometry, c.motors,
                 c.version, c.banner, c.radioLink, c.faultSpin, c.otos)
  BY DEF Written, IsCopy
<1>1. CASE step = "otos"
  <2> DEFINE z == OtosOf(q)
  <2>1. now = [c EXCEPT !.otos = z]
    BY <1>1, InjectionsDo
  <2> HIDE DEF z, now
  <2>2. /\ now.src = c.src /\ now.program = c.program /\ IsCopy(now) /\ now.otos = z
        /\ now.radio = c.radio /\ now.profile = c.profile /\ now.wifi = c.wifi
        /\ now.board = c.board /\ now.geometry = c.geometry
        /\ now.motors = c.motors /\ now.version = c.version /\ now.banner = c.banner
        /\ now.radioLink = c.radioLink /\ now.faultSpin = c.faultSpin
    BY <1>0, <2>1 DEF CopyOf, IsCopy
  <2> QED BY <1>1, <2>2 DEF Written, z, now
<1>2. CASE step = "radio"
  <2> DEFINE z == Radio(q)
  <2>1. now = [c EXCEPT !.radio = z]
    BY <1>2, InjectionsDo
  <2> HIDE DEF z, now
  <2>2. /\ now.src = c.src /\ now.program = c.program /\ IsCopy(now) /\ now.radio = z
        /\ now.profile = c.profile /\ now.wifi = c.wifi /\ now.board = c.board
        /\ now.geometry = c.geometry
        /\ now.motors = c.motors /\ now.version = c.version /\ now.banner = c.banner
        /\ now.radioLink = c.radioLink /\ now.faultSpin = c.faultSpin /\ now.otos = c.otos
    BY <1>0, <2>1 DEF CopyOf, IsCopy
  <2> QED BY <1>2, <2>2 DEF Written, z, now
<1>3. CASE step = "profile"
  <2> DEFINE z == Profile(q)
  <2>1. now = [c EXCEPT !.profile = z]
    BY <1>3, InjectionsDo
  <2> HIDE DEF z, now
  <2>2. /\ now.src = c.src /\ now.program = c.program /\ IsCopy(now) /\ now.profile = z
        /\ now.radio = c.radio /\ now.wifi = c.wifi /\ now.board = c.board
        /\ now.geometry = c.geometry
        /\ now.motors = c.motors /\ now.version = c.version /\ now.banner = c.banner
        /\ now.radioLink = c.radioLink /\ now.faultSpin = c.faultSpin /\ now.otos = c.otos
    BY <1>0, <2>1 DEF CopyOf, IsCopy
  <2> QED BY <1>3, <2>2 DEF Written, z, now
<1>4. CASE step = "wifi"
  <2> DEFINE z == Wifi(q)
  <2>1. now = [c EXCEPT !.wifi = z]
    BY <1>4, InjectionsDo
  <2> HIDE DEF z, now
  <2>2. /\ now.src = c.src /\ now.program = c.program /\ IsCopy(now) /\ now.wifi = z
        /\ now.radio = c.radio /\ now.profile = c.profile /\ now.board = c.board
        /\ now.geometry = c.geometry
        /\ now.motors = c.motors /\ now.version = c.version /\ now.banner = c.banner
        /\ now.radioLink = c.radioLink /\ now.faultSpin = c.faultSpin /\ now.otos = c.otos
    BY <1>0, <2>1 DEF CopyOf, IsCopy
  <2> QED BY <1>4, <2>2 DEF Written, z, now
<1>5. CASE step = "board"
  <2> DEFINE z == Baked(q, "board")
  <2>1. now = [c EXCEPT !.board = z]
    BY <1>5, InjectionsDo
  <2> HIDE DEF z, now
  <2>2. /\ now.src = c.src /\ now.program = c.program /\ IsCopy(now) /\ now.board = z
        /\ now.radio = c.radio /\ now.profile = c.profile /\ now.wifi = c.wifi
        /\ now.geometry = c.geometry
        /\ now.motors = c.motors /\ now.version = c.version /\ now.banner = c.banner
        /\ now.radioLink = c.radioLink /\ now.faultSpin = c.faultSpin /\ now.otos = c.otos
    BY <1>0, <2>1 DEF CopyOf, IsCopy
  <2> QED BY <1>5, <2>2 DEF Written, z, now
<1>6. CASE step = "geometry"
  <2> DEFINE z == Geometry(q)
  <2>1. now = [c EXCEPT !.geometry = z]
    BY <1>6, InjectionsDo
  <2> HIDE DEF z, now
  <2>2. /\ now.src = c.src /\ now.program = c.program /\ IsCopy(now) /\ now.geometry = z
        /\ now.radio = c.radio /\ now.profile = c.profile /\ now.wifi = c.wifi
        /\ now.board = c.board
        /\ now.motors = c.motors /\ now.version = c.version /\ now.banner = c.banner
        /\ now.radioLink = c.radioLink /\ now.faultSpin = c.faultSpin /\ now.otos = c.otos
    BY <1>0, <2>1 DEF CopyOf, IsCopy
  <2> QED BY <1>6, <2>2 DEF Written, z, now
<1>7. CASE step = "motors"
  <2> DEFINE z == Baked(q, "motors")
  <2>1. now = [c EXCEPT !.motors = z]
    BY <1>7, InjectionsDo
  <2> HIDE DEF z, now
  <2>2. /\ now.src = c.src /\ now.program = c.program /\ IsCopy(now) /\ now.motors = z
        /\ now.radio = c.radio /\ now.profile = c.profile /\ now.wifi = c.wifi
        /\ now.board = c.board /\ now.geometry = c.geometry
        /\ now.version = c.version /\ now.banner = c.banner /\ now.radioLink = c.radioLink
        /\ now.faultSpin = c.faultSpin /\ now.otos = c.otos
    BY <1>0, <2>1 DEF CopyOf, IsCopy
  <2> QED BY <1>7, <2>2 DEF Written, z, now
<1>8. CASE step = "version"
  <2> DEFINE z == c.src
  <2>1. now = [c EXCEPT !.version = z]
    BY <1>8, InjectionsDo
  <2> HIDE DEF z, now
  <2>2. /\ now.src = c.src /\ now.program = c.program /\ IsCopy(now) /\ now.version = z
        /\ now.radio = c.radio /\ now.profile = c.profile /\ now.wifi = c.wifi
        /\ now.board = c.board /\ now.geometry = c.geometry
        /\ now.motors = c.motors /\ now.banner = c.banner /\ now.radioLink = c.radioLink
        /\ now.faultSpin = c.faultSpin /\ now.otos = c.otos
    BY <1>0, <2>1 DEF CopyOf, IsCopy
  <2> QED BY <1>8, <2>2 DEF Written, z, now
<1>9. CASE step = "banner"
  <2> DEFINE z == <<c.src, q.robot>>
  <2>1. now = [c EXCEPT !.banner = z]
    BY <1>9, InjectionsDo
  <2> HIDE DEF z, now
  <2>2. /\ now.src = c.src /\ now.program = c.program /\ IsCopy(now) /\ now.banner = z
        /\ now.radio = c.radio /\ now.profile = c.profile /\ now.wifi = c.wifi
        /\ now.board = c.board /\ now.geometry = c.geometry
        /\ now.motors = c.motors /\ now.version = c.version /\ now.radioLink = c.radioLink
        /\ now.faultSpin = c.faultSpin /\ now.otos = c.otos
    BY <1>0, <2>1 DEF CopyOf, IsCopy
  <2> QED BY <1>9, <2>2 DEF Written, z, now
<1>10. CASE step = "radioLink"
  <2> DEFINE z == RadioLink(q)
  <2>1. now = [c EXCEPT !.radioLink = z]
    BY <1>10, InjectionsDo
  <2> HIDE DEF z, now
  <2>2. /\ now.src = c.src /\ now.program = c.program /\ IsCopy(now) /\ now.radioLink = z
        /\ now.radio = c.radio /\ now.profile = c.profile /\ now.wifi = c.wifi
        /\ now.board = c.board /\ now.geometry = c.geometry
        /\ now.motors = c.motors /\ now.version = c.version /\ now.banner = c.banner
        /\ now.faultSpin = c.faultSpin /\ now.otos = c.otos
    BY <1>0, <2>1 DEF CopyOf, IsCopy
  <2> QED BY <1>10, <2>2 DEF Written, z, now
<1>11. CASE step = "faultSpin"
  <2> DEFINE z == TRUE
  <2>1. now = [c EXCEPT !.faultSpin = z]
    BY <1>11, InjectionsDo
  <2> HIDE DEF z, now
  <2>2. /\ now.src = c.src /\ now.program = c.program /\ IsCopy(now) /\ now.faultSpin = z
        /\ now.radio = c.radio /\ now.profile = c.profile /\ now.wifi = c.wifi
        /\ now.board = c.board /\ now.geometry = c.geometry
        /\ now.motors = c.motors /\ now.version = c.version /\ now.banner = c.banner
        /\ now.radioLink = c.radioLink /\ now.otos = c.otos
    BY <1>0, <2>1 DEF CopyOf, IsCopy
  <2> QED BY <1>11, <2>2 DEF Written, z, now
<1> QED BY <1>1, <1>2, <1>3, <1>4, <1>5, <1>6, <1>7, <1>8, <1>9, <1>10, <1>11 DEF Injections

\* A fresh copy holds what the checkout tracks.
LEMMA FreshWritten ==
  ASSUME NEW q, NEW x
  PROVE  Written(Injected(q, "sync", x), q, {"sync"})
<1>1. Injected(q, "sync", x) = Fresh(q)
  BY DEF Injected
<1>2. /\ Fresh(q).program = Promoted(q) /\ Fresh(q).motors = CheckedIn
      /\ Fresh(q).radioLink = FALSE /\ Fresh(q).faultSpin = FALSE /\ Fresh(q).otos = TRUE
  BY DEF Fresh
<1>3. IsCopy(Fresh(q))
  BY DEF Fresh, IsCopy, CopyOf
<1> QED BY <1>1, <1>2, <1>3 DEF Written

\* What `pxt build` and the flash find once every step before them is done:
\* the build that was asked for.
LEMMA WrittenIsWanted ==
  ASSUME NEW q \in Requests, ~ArgsRefused(q), q.flash, NEW c,
         Written(c, q, StepSet(BuildSteps(q)))
  PROVE  c = NotForPrograms(q, Wanted(q, c.src))
<1> DEFINE done == StepSet(BuildSteps(q))
<1>1. /\ q.faultSpin \in BOOLEAN /\ q.noOtos \in BOOLEAN /\ q.testrig \in BOOLEAN
      /\ q.faultSpin => ~q.testrig /\ q.program = "test" /\ ~q.noOtos
      /\ q.program # "test" => ~q.noOtos
      /\ q.program = "test" => ~q.testrig
  BY DeployAssumption DEF ArgsRefused
<1>2. LET w == Wanted(q, c.src) IN
      /\ IsCopy(w)
      /\ w.src = c.src /\ w.program = q.program /\ w.radio = Radio(q) /\ w.profile = Profile(q)
      /\ w.wifi = Wifi(q) /\ w.board = Baked(q, "board") /\ w.geometry = Geometry(q)
      /\ w.motors = Baked(q, "motors") /\ w.version = c.src /\ w.banner = <<c.src, q.robot>>
      /\ w.radioLink = RadioLink(q) /\ w.faultSpin = q.faultSpin /\ w.otos = OtosOf(q)
  BY DEF Wanted, IsCopy, CopyOf, OtosOf
<1>3. Promoted(q) = q.program
  BY <1>1 DEF Promoted
<1>4. IsCopy(c)
  BY DEF Written
<1>5. /\ ~q.noOtos => OtosOf(q) = TRUE
      /\ q.faultSpin => q.faultSpin = TRUE
      /\ ~q.faultSpin => q.faultSpin = FALSE
  BY <1>1 DEF OtosOf
<1>6. CASE q.program = "test"
  <2>1. /\ {"radio", "profile", "wifi", "board", "geometry", "motors", "version", "banner",
            "radioLink"} \subseteq done
        /\ "faultSpin" \in done <=> q.faultSpin
        /\ "otos" \in done <=> ~q.faultSpin
    BY <1>1, <1>6, FaultSpinStepsShaped, PrimaryStepsShaped DEF BuildSteps
  <2> HIDE DEF done
  <2>2. /\ c.program = q.program /\ c.radio = Radio(q) /\ c.profile = Profile(q) /\ c.wifi = Wifi(q)
        /\ c.board = Baked(q, "board") /\ c.geometry = Geometry(q) /\ c.motors = Baked(q, "motors")
        /\ c.version = c.src /\ c.banner = <<c.src, q.robot>> /\ c.radioLink = RadioLink(q)
    BY <1>3, <2>1 DEF Written, done
  <2>3. c.otos = OtosOf(q)
    BY <1>1, <1>5, <2>1 DEF Written, done
  <2>4. c.faultSpin = q.faultSpin
    <3>1. CASE q.faultSpin
      BY <1>5, <2>1, <3>1, Zenon DEF Written, done
    <3>2. CASE ~q.faultSpin
      BY <1>5, <2>1, <3>2, Zenon DEF Written, done
    <3> QED BY <3>1, <3>2
  <2>5. c = Wanted(q, c.src)
    BY <1>2, <1>4, <2>2, <2>3, <2>4, SameCopy
  <2> QED BY <1>6, <2>5 DEF NotForPrograms
<1>7. CASE q.program # "test"
  <2>1. /\ {"radio", "profile", "wifi", "board", "geometry", "version", "banner"} \subseteq done
        /\ "faultSpin" \notin done /\ "otos" \notin done /\ "motors" \notin done
        /\ "radioLink" \notin done
    BY <1>1, <1>7, ProgramStepsShaped DEF BuildSteps
  <2> HIDE DEF done
  <2>2. /\ c.program = q.program /\ c.radio = Radio(q) /\ c.profile = Profile(q) /\ c.wifi = Wifi(q)
        /\ c.board = Baked(q, "board") /\ c.geometry = Geometry(q) /\ c.motors = CheckedIn
        /\ c.version = c.src /\ c.banner = <<c.src, q.robot>> /\ c.radioLink = FALSE
    BY <1>3, <2>1 DEF Written, done
  <2>3. c.otos = OtosOf(q) /\ c.faultSpin = q.faultSpin
    <3>1. ~q.faultSpin /\ ~q.noOtos
      BY <1>1, <1>7
    <3> QED BY <1>5, <2>1, <3>1, Zenon DEF Written, done
  <2> DEFINE w == Wanted(q, c.src)
             no == FALSE
             p == [w EXCEPT !.motors = CheckedIn, !.radioLink = no]
  <2>4. /\ IsCopy(p) /\ p.motors = CheckedIn /\ p.radioLink = no
        /\ p.src = w.src /\ p.program = w.program /\ p.radio = w.radio /\ p.profile = w.profile
        /\ p.wifi = w.wifi /\ p.board = w.board /\ p.geometry = w.geometry /\ p.version = w.version
        /\ p.banner = w.banner /\ p.faultSpin = w.faultSpin /\ p.otos = w.otos
    <3> HIDE DEF w, no
    <3>1. IsCopy(w)
      BY <1>2 DEF w
    <3>2. w = CopyOf(w.src, w.program, w.radio, w.profile, w.wifi, w.board, w.geometry, w.motors,
                     w.version, w.banner, w.radioLink, w.faultSpin, w.otos)
      BY <3>1 DEF IsCopy
    <3>3. p = [w EXCEPT !.motors = CheckedIn, !.radioLink = no]
      OBVIOUS
    <3> HIDE DEF p
    <3> QED BY <3>2, <3>3 DEF CopyOf, IsCopy
  <2>5. c = p
    <3> HIDE DEF p
    <3>1. /\ w.src = c.src /\ w.program = q.program /\ w.radio = Radio(q)
          /\ w.profile = Profile(q) /\ w.wifi = Wifi(q) /\ w.board = Baked(q, "board")
          /\ w.geometry = Geometry(q) /\ w.version = c.src /\ w.banner = <<c.src, q.robot>>
          /\ w.faultSpin = q.faultSpin /\ w.otos = OtosOf(q)
      BY <1>2
    <3>2. IsCopy(c) /\ IsCopy(p)
      BY <1>4, <2>4
    <3> HIDE DEF w
    <3>3. /\ c.src = p.src /\ c.program = p.program /\ c.radio = p.radio
          /\ c.profile = p.profile /\ c.wifi = p.wifi /\ c.board = p.board
          /\ c.geometry = p.geometry /\ c.motors = p.motors /\ c.version = p.version
          /\ c.banner = p.banner /\ c.radioLink = p.radioLink
          /\ c.faultSpin = p.faultSpin /\ c.otos = p.otos
      BY <2>2, <2>3, <2>4, <3>1
    <3> QED BY <3>2, <3>3, SameCopy, Zenon
  <2> QED BY <1>7, <2>5 DEF NotForPrograms
<1> QED BY <1>6, <1>7

-----------------------------------------------------------------------------
(* The invariant of the machine.                                            *)

MachineInv ==
    /\ scratch = [d \in Dirs |-> scratch[d]]
    /\ objects = [d \in Dirs |-> objects[d]]
    /\ hex = [d \in Dirs |-> hex[d]]
    /\ \A d \in Dirs : hex[d] # Absent => DOMAIN hex[d].objs = Units
    /\ flashed = [r \in DeployRobots |-> flashed[r]]
    /\ output.compiled \subseteq Units /\ output.shape \in Shapes
    /\ source \in 0 .. MaxBuildEdits /\ attempt \in 0 .. 2 /\ runs \in 0 .. MaxBuilds
    /\ run = Absent => attempt = 0

\* The run is past its first `at` steps.  From its fresh copy on it has
\* written what they write; a hex of its own attempt holds that copy in every
\* unit the log names; the accepted one in every expected unit.
AtStep(at) ==
    LET d == Dir(run)
        build == Len(BuildSteps(run))
    IN /\ todo \in Seq(Words) /\ Len(todo) = Len(Steps(run)) - at
       /\ \A i \in 1 .. Len(todo) : todo[i] = Steps(run)[at + i]
       /\ at > 0 => Written(scratch[d], run, Firsts(Steps(run), at))
       /\ at < build - 1 => attempt = 0
       /\ at = build - 1 /\ attempt > 0 /\ hex[d] # Absent =>
            \A u \in output.compiled : hex[d].objs[u] = scratch[d]
       /\ at = build =>
            /\ ~hex[d].universal /\ ~hex[d].short
            /\ \A u \in ExpectedUnits : hex[d].objs[u] = scratch[d]

RunInv ==
    run # Absent =>
        /\ run \in Requests /\ ~ArgsRefused(run)
        /\ \E at \in 0 .. Len(Steps(run)) : AtStep(at)

DeployInv == MachineInv /\ RunInv /\ FlashedIsThisBuild

\* A fresh machine.
LEMMA DeployStarts == DeployInit => DeployInv
<1> SUFFICES ASSUME DeployInit PROVE DeployInv
  OBVIOUS
<1>1. MachineInv
  BY DeployAssumption DEF DeployInit, MachineInv, NoOutput, Shapes
<1>2. RunInv
  BY DEF DeployInit, RunInv
<1>3. FlashedIsThisBuild
  BY DEF DeployInit, FlashedIsThisBuild
<1> QED BY <1>1, <1>2, <1>3 DEF DeployInv

\* Where a run is by the head of its list.
LEMMA HeadOfRun ==
  ASSUME run \in Requests, NEW at \in 0 .. Len(Steps(run)), AtStep(at)
  PROVE  LET build == Len(BuildSteps(run)) IN
         /\ build \in Nat /\ build > 1
         /\ Len(Steps(run)) \in Nat
         /\ todo # <<>> => /\ at < Len(Steps(run)) /\ Head(todo) = Steps(run)[at + 1]
                           /\ Head(todo) \in Words
         /\ todo # <<>> /\ Head(todo) = "build" => at = build - 1
         /\ todo # <<>> /\ Head(todo) = "flash" => at = build /\ run.flash
         /\ todo # <<>> /\ Head(todo) \notin {"build", "flash"} =>
              /\ at < build - 1
              /\ at = 0 => Head(todo) = "sync"
              /\ at > 0 => Head(todo) \in Injections
<1> DEFINE s == Steps(run)
           b == BuildSteps(run)
<1>1. /\ Shaped(b) /\ s \in Seq(Words) /\ run.flash \in BOOLEAN
      /\ run.flash => Len(s) = Len(b) + 1 /\ s[Len(b) + 1] = "flash"
      /\ ~run.flash => Len(s) = Len(b)
      /\ \A i \in 1 .. Len(b) : s[i] = b[i]
  BY StepsOfRun
<1>2. /\ todo \in Seq(Words) /\ Len(todo) = Len(s) - at
      /\ \A i \in 1 .. Len(todo) : todo[i] = s[at + i]
  BY DEF AtStep
<1> HIDE DEF s, b
<1>3. /\ b \in Seq(Words) /\ Len(b) > 1 /\ b[1] = "sync" /\ b[Len(b)] = "build"
      /\ \A i \in 2 .. Len(b) - 1 : b[i] \in Injections
      /\ Len(b) \in Nat /\ Len(s) \in Nat /\ Len(todo) \in Nat
  BY <1>1, <1>2 DEF Shaped
<1>4. \A x \in Injections : x # "sync" /\ x # "build" /\ x # "flash"
  BY DEF Injections
<1>5. ASSUME todo # <<>>
      PROVE  at < Len(s) /\ Head(todo) = s[at + 1] /\ Head(todo) \in Words
  BY <1>2, <1>3, <1>5 DEF s
<1>6. ASSUME todo # <<>>
      PROVE  \/ at + 1 = 1 /\ Head(todo) = "sync"
             \/ at + 1 \in 2 .. Len(b) - 1 /\ Head(todo) \in Injections
             \/ at + 1 = Len(b) /\ Head(todo) = "build"
             \/ at = Len(b) /\ run.flash /\ Head(todo) = "flash"
  <2>1. at \in Nat /\ at < Len(s) /\ Head(todo) = s[at + 1]
    BY <1>3, <1>5, <1>6
  <2>2. CASE at + 1 <= Len(b)
    <3>1. s[at + 1] = b[at + 1]
      BY <1>1, <1>3, <2>1, <2>2
    <3> QED BY <1>3, <2>1, <2>2, <3>1
  <2>3. CASE at + 1 > Len(b)
    BY <1>1, <1>3, <2>1, <2>3
  <2> QED BY <1>3, <2>1, <2>2, <2>3
<1>7. at \in Nat
  BY <1>3 DEF s
<1> QED BY <1>3, <1>4, <1>5, <1>6, <1>7 DEF s, b

\* A run that leaves, its copy and the hex as they were.
LEMMA LeaveKeeps ==
  ASSUME DeployInv, Leave, UNCHANGED <<source, scratch, objects, hex, flashed, runs>>
  PROVE  DeployInv'
<1>1. MachineInv'
  <2>1. attempt' = 0 /\ output' = [compiled |-> {}, shape |-> "clean"]
    BY DEF Leave, NoOutput
  <2>2. 0 \in 0 .. 2 /\ {} \subseteq Units /\ "clean" \in Shapes
    BY DEF Shapes
  <2> QED BY <2>1, <2>2 DEF DeployInv, MachineInv
<1>2. RunInv'
  BY DEF Leave, RunInv
<1>3. FlashedIsThisBuild'
  BY DEF DeployInv, FlashedIsThisBuild
<1> QED BY <1>1, <1>2, <1>3 DEF DeployInv

\* t is the list s without its first `at` steps.
Rest(t, s, at) ==
    t \in Seq(Words) /\ Len(t) = Len(s) - at /\ \A i \in 1 .. Len(t) : t[i] = s[at + i]

\* The list goes on by one step.
LEMMA ListGoesOn ==
  \A s \in Seq(Words) : \A at \in 0 .. Len(s) : \A t : t # <<>> /\ Rest(t, s, at) =>
    /\ at + 1 \in 0 .. Len(s) /\ Rest(Tail(t), s, at + 1)
    /\ Firsts(s, at + 1) = Firsts(s, at) \cup {s[at + 1]}
<1> SUFFICES ASSUME NEW s \in Seq(Words), NEW at \in 0 .. Len(s), NEW t, t # <<>>, Rest(t, s, at)
             PROVE  /\ at + 1 \in 0 .. Len(s) /\ Rest(Tail(t), s, at + 1)
                    /\ Firsts(s, at + 1) = Firsts(s, at) \cup {s[at + 1]}
  OBVIOUS
<1>0. t \in Seq(Words) /\ Len(t) = Len(s) - at /\ \A i \in 1 .. Len(t) : t[i] = s[at + i]
  BY DEF Rest
<1>1. Len(s) \in Nat /\ Len(t) \in Nat /\ Len(t) > 0
  BY <1>0
<1>2. Tail(t) \in Seq(Words) /\ Len(Tail(t)) = Len(t) - 1
      /\ \A i \in 1 .. Len(t) - 1 : Tail(t)[i] = t[i + 1]
  BY <1>0, <1>1
<1>3. at + 1 \in 0 .. Len(s) /\ Len(Tail(t)) = Len(s) - (at + 1)
  BY <1>0, <1>1, <1>2
<1>4. ASSUME NEW i \in 1 .. Len(Tail(t)) PROVE Tail(t)[i] = s[at + 1 + i]
  <2>1. i \in 1 .. Len(t) - 1 /\ i + 1 \in 1 .. Len(t)
    BY <1>1, <1>2
  <2>2. at + (i + 1) = at + 1 + i
    BY <1>1
  <2> QED BY <1>0, <1>2, <2>1, <2>2
<1>5. Firsts(s, at + 1) = Firsts(s, at) \cup {s[at + 1]}
  <2>1. at \in Nat
    BY <1>1
  <2> QED BY <2>1 DEF Firsts
<1> QED BY <1>2, <1>3, <1>4, <1>5 DEF Rest

\* The checkout moves on.
LEMMA EditSourceKeeps ==
  ASSUME DeployInv, EditSource
  PROVE  DeployInv'
<1>1. MachineInv'
  BY DeployAssumption DEF DeployInv, MachineInv, EditSource
<1>2. RunInv'
  BY DEF EditSource, RunInv
<1>3. FlashedIsThisBuild'
  BY DEF DeployInv, FlashedIsThisBuild, EditSource
<1> QED BY <1>1, <1>2, <1>3 DEF DeployInv

\* A run starts, with nothing of it written yet.
LEMMA StartBuildKeeps ==
  ASSUME DeployInv, NEW q \in Requests, StartBuild(q)
  PROVE  DeployInv'
<1>1. /\ run = Absent /\ ~ArgsRefused(q) /\ run' = q /\ todo' = Steps(q) /\ attempt = 0
      /\ runs < MaxBuilds /\ runs' = runs + 1
      /\ UNCHANGED <<source, scratch, objects, hex, output, attempt, flashed>>
  BY DEF StartBuild, DeployInv, MachineInv
<1>2. MachineInv'
  BY <1>1, DeployAssumption DEF DeployInv, MachineInv
<1>3. RunInv'
  <2>1. /\ Shaped(BuildSteps(q)) /\ Steps(q) \in Seq(Words) /\ Len(Steps(q)) \in Nat
        /\ Len(BuildSteps(q)) > 1 /\ Len(BuildSteps(q)) \in Nat
    BY StepsOfRun DEF Shaped
  <2>2. AtStep(0)'
    BY <1>1, <2>1 DEF AtStep
  <2>3. 0 \in 0 .. Len(Steps(q))
    BY <2>1
  <2> QED BY <1>1, <2>2, <2>3 DEF RunInv
<1>4. FlashedIsThisBuild'
  BY <1>1 DEF DeployInv, FlashedIsThisBuild
<1> QED BY <1>2, <1>3, <1>4 DEF DeployInv

\* Writing into the copy, which is no build's any more or not yet.
LEMMA InjectKeeps ==
  ASSUME DeployInv, Inject
  PROVE  DeployInv'
<1> DEFINE d == Dir(run)
           step == Head(todo)
           build == Len(BuildSteps(run))
<1>1. /\ run # Absent /\ run \in Requests /\ ~ArgsRefused(run) /\ todo # <<>>
      /\ step \notin {"build", "flash"}
      /\ scratch' = [scratch EXCEPT ![d] = Injected(run, step, @)] /\ todo' = Tail(todo)
      /\ UNCHANGED <<source, run, objects, hex, output, attempt, flashed, runs>>
  BY DEF Inject, DeployInv, RunInv
<1>2. d \in Dirs
  BY <1>1 DEF Dirs
<1>3. PICK at \in 0 .. Len(Steps(run)) : AtStep(at)
  BY <1>1 DEF DeployInv, RunInv
<1>4. /\ build \in Nat /\ build > 1 /\ at < build - 1 /\ step = Steps(run)[at + 1]
      /\ at = 0 => step = "sync"
      /\ at > 0 => step \in Injections
      /\ Len(Steps(run)) \in Nat /\ at \in Nat
  BY <1>1, <1>3, HeadOfRun
<1>5. scratch'[d] = Injected(run, step, scratch[d])
  <2>1. scratch = [e \in Dirs |-> scratch[e]]
    BY DEF DeployInv, MachineInv
  <2> QED BY <1>1, <1>2, <2>1
<1>6. MachineInv'
  BY <1>1 DEF DeployInv, MachineInv
<1>7. /\ at + 1 \in 0 .. Len(Steps(run)) /\ todo' \in Seq(Words)
      /\ Len(todo') = Len(Steps(run)) - (at + 1)
      /\ \A i \in 1 .. Len(todo') : todo'[i] = Steps(run)[at + 1 + i]
      /\ Firsts(Steps(run), at + 1) = Firsts(Steps(run), at) \cup {step}
  <2>1. todo \in Seq(Words) /\ Len(todo) = Len(Steps(run)) - at
        /\ \A i \in 1 .. Len(todo) : todo[i] = Steps(run)[at + i]
    BY <1>3 DEF AtStep
  <2>2. Steps(run) \in Seq(Words)
    BY <1>1, StepsOfRun
  <2> DEFINE s == Steps(run)
  <2>3. s \in Seq(Words) /\ at \in 0 .. Len(s) /\ todo # <<>> /\ Rest(todo, s, at)
    BY <1>1, <2>1, <2>2 DEF Rest
  <2> HIDE DEF s
  <2>4. /\ at + 1 \in 0 .. Len(s) /\ Rest(Tail(todo), s, at + 1)
        /\ Firsts(s, at + 1) = Firsts(s, at) \cup {s[at + 1]}
    BY <2>3, ListGoesOn
  <2> QED BY <1>1, <1>4, <2>4 DEF s, Rest
<1>8. Written(scratch'[d], run, Firsts(Steps(run), at + 1))
  <2>1. CASE at = 0
    <3>1. Firsts(Steps(run), at) = {}
      BY <2>1 DEF Firsts
    <3>2. Firsts(Steps(run), at + 1) = {"sync"}
      BY <1>4, <1>7, <2>1, <3>1
    <3>3. Written(Injected(run, "sync", scratch[d]), run, {"sync"})
      BY FreshWritten
    <3> QED BY <1>4, <1>5, <2>1, <3>2, <3>3
  <2>2. CASE at > 0
    <3> DEFINE done == Firsts(Steps(run), at)
    <3>1. Written(scratch[d], run, done) /\ step \in Injections
      BY <1>3, <1>4, <2>2 DEF AtStep
    <3> HIDE DEF done, step
    <3>2. Written(Injected(run, step, scratch[d]), run, done \cup {step})
      BY <3>1, CopyWritten
    <3> QED BY <1>5, <1>7, <3>2 DEF done
  <2> QED BY <1>4, <2>1, <2>2
<1>9. AtStep(at + 1)'
  <2>1. attempt' = 0
    BY <1>1, <1>3, <1>4 DEF AtStep
  <2>2. /\ run' = run /\ BuildSteps(run)' = BuildSteps(run)
        /\ Steps(run)' = Steps(run) /\ Dir(run)' = d
    BY <1>1
  <2> QED BY <1>4, <1>7, <1>8, <2>1, <2>2 DEF AtStep
<1>10. RunInv'
  BY <1>1, <1>7, <1>9 DEF RunInv
<1>11. FlashedIsThisBuild'
  BY <1>1 DEF DeployInv, FlashedIsThisBuild
<1> QED BY <1>6, <1>10, <1>11 DEF DeployInv

\* An attempt removes the old hex: one that is there is of this copy.
LEMMA AttemptKeeps ==
  ASSUME DeployInv, Attempt
  PROVE  DeployInv'
<1> DEFINE d == Dir(run)
           build == Len(BuildSteps(run))
<1>1. /\ run # Absent /\ run \in Requests /\ ~ArgsRefused(run) /\ todo # <<>>
      /\ Head(todo) = "build"
      /\ attempt \in {0, 1} /\ attempt' = attempt + 1 /\ PxtBuild(d)
      /\ UNCHANGED <<source, run, todo, scratch, flashed, runs>>
  BY DEF Attempt, DeployInv, RunInv
<1>2. d \in Dirs
  BY <1>1 DEF Dirs
<1>3. PICK at \in 0 .. Len(Steps(run)) : AtStep(at)
  BY <1>1 DEF DeployInv, RunInv
<1>4. at = build - 1 /\ build \in Nat /\ build > 1
  BY <1>1, <1>3, HeadOfRun
<1>4a. PICK shape \in Shapes, compiled \in SUBSET Units :
        /\ output' = [compiled |-> compiled, shape |-> shape]
        /\ objects' = [objects EXCEPT ![d] = Linked(d, compiled)]
        /\ \E image : /\ hex' = [hex EXCEPT ![d] = image]
                      /\ image # Absent => image.objs = Linked(d, compiled)
  <2>1. PICK shape \in Shapes, compiled \in SUBSET Units :
          LET objs == Linked(d, compiled) IN
          /\ output' = [compiled |-> compiled, shape |-> shape]
          /\ objects' = [objects EXCEPT ![d] = objs]
          /\ \/ hex' = [hex EXCEPT ![d] = Absent]
             \/ \E universal \in BOOLEAN, short \in BOOLEAN :
                  hex' = [hex EXCEPT ![d] = [objs |-> objs, universal |-> universal, short |-> short]]
    BY <1>1 DEF PxtBuild
  <2>2. CASE hex' = [hex EXCEPT ![d] = Absent]
    BY <2>1, <2>2
  <2>3. ASSUME NEW universal \in BOOLEAN, NEW short \in BOOLEAN,
               hex' = [hex EXCEPT ![d] =
                         [objs |-> Linked(d, compiled), universal |-> universal, short |-> short]]
        PROVE  \E image : /\ hex' = [hex EXCEPT ![d] = image]
                          /\ image # Absent => image.objs = Linked(d, compiled)
    <3> DEFINE image == [objs |-> Linked(d, compiled), universal |-> universal, short |-> short]
    <3>1. hex' = [hex EXCEPT ![d] = image] /\ image.objs = Linked(d, compiled)
      BY <2>3
    <3> QED BY <3>1
  <2> QED BY <2>1, <2>2, <2>3
<1>5. PICK image : /\ hex' = [hex EXCEPT ![d] = image]
                   /\ image # Absent => image.objs = Linked(d, compiled)
  BY <1>4a
<1>6. /\ hex'[d] = image /\ \A e \in Dirs \ {d} : hex'[e] = hex[e]
      /\ hex' = [e \in Dirs |-> hex'[e]] /\ objects' = [e \in Dirs |-> objects'[e]]
      /\ output'.compiled = compiled /\ output'.shape = shape
  <2>1. hex = [e \in Dirs |-> hex[e]] /\ objects = [e \in Dirs |-> objects[e]]
    BY DEF DeployInv, MachineInv
  <2> DEFINE objs == Linked(d, compiled)
  <2>2. objects' = [objects EXCEPT ![d] = objs] /\ hex' = [hex EXCEPT ![d] = image]
    <3>1. objects' = [objects EXCEPT ![d] = objs]
      BY <1>4a
    <3>2. hex' = [hex EXCEPT ![d] = image]
      BY <1>5
    <3> QED BY <3>1, <3>2
  <2>3. d \in Dirs
    BY <1>2
  <2> HIDE DEF d, objs
  <2>4. hex'[d] = image /\ \A e \in Dirs \ {d} : hex'[e] = hex[e]
    BY <2>1, <2>2, <2>3
  <2>5. hex' = [e \in Dirs |-> hex'[e]]
    BY <2>1, <2>2
  <2>6. objects' = [e \in Dirs |-> objects'[e]]
    BY <2>1, <2>2
  <2>7. output'.compiled = compiled /\ output'.shape = shape
    BY <1>4a
  <2> QED BY <2>4, <2>5, <2>6, <2>7
<1>7. DOMAIN Linked(d, compiled) = Units /\ \A u \in compiled : Linked(d, compiled)[u] = scratch[d]
  BY DEF Linked
<1>8. MachineInv'
  <2>1. \A e \in Dirs : hex'[e] # Absent => DOMAIN hex'[e].objs = Units
    BY <1>4a, <1>5, <1>6, <1>7 DEF DeployInv, MachineInv
  <2>2. /\ attempt' \in 0 .. 2 /\ source' \in 0 .. MaxBuildEdits /\ runs' \in 0 .. MaxBuilds
        /\ scratch' = [e \in Dirs |-> scratch'[e]]
        /\ flashed' = [r \in DeployRobots |-> flashed'[r]]
    BY <1>1 DEF DeployInv, MachineInv
  <2>3. output'.compiled \subseteq Units /\ output'.shape \in Shapes
    BY <1>4a, <1>6
  <2> QED BY <1>1, <1>6, <2>1, <2>2, <2>3 DEF MachineInv
<1>9. AtStep(at)'
  <2>1. \A u \in compiled : hex'[d] # Absent => hex'[d].objs[u] = scratch[d]
    BY <1>4a, <1>5, <1>6, <1>7
  <2>2. /\ run' = run /\ BuildSteps(run)' = BuildSteps(run)
        /\ Steps(run)' = Steps(run) /\ Dir(run)' = d
    BY <1>1
  <2>3. at # build /\ ~(at < build - 1)
    BY <1>4
  <2> QED BY <1>1, <1>3, <1>6, <2>1, <2>2, <2>3 DEF AtStep
<1>10. RunInv'
  BY <1>1, <1>9 DEF RunInv
<1>11. FlashedIsThisBuild'
  BY <1>1 DEF DeployInv, FlashedIsThisBuild
<1> QED BY <1>8, <1>10, <1>11 DEF DeployInv

\* A build is accepted when it is whole and the log names every expected unit.
LEMMA BuildReadyKeeps ==
  ASSUME DeployInv, BuildReady
  PROVE  DeployInv'
<1> DEFINE d == Dir(run)
           build == Len(BuildSteps(run))
<1>1. /\ run # Absent /\ run \in Requests /\ ~ArgsRefused(run) /\ todo # <<>>
      /\ Head(todo) = "build"
      /\ attempt > 0 /\ Accepted(d) /\ todo' = Tail(todo)
      /\ UNCHANGED <<source, run, scratch, objects, hex, output, attempt, flashed, runs>>
  BY DEF BuildReady, DeployInv, RunInv
<1>2. PICK at \in 0 .. Len(Steps(run)) : AtStep(at)
  BY <1>1 DEF DeployInv, RunInv
<1>3. /\ at = build - 1 /\ build \in Nat /\ build > 1 /\ Head(todo) = Steps(run)[at + 1]
      /\ Len(Steps(run)) \in Nat
  BY <1>1, <1>2, HeadOfRun
<1>4. /\ at + 1 \in 0 .. Len(Steps(run)) /\ todo' \in Seq(Words)
      /\ Len(todo') = Len(Steps(run)) - (at + 1)
      /\ \A i \in 1 .. Len(todo') : todo'[i] = Steps(run)[at + 1 + i]
      /\ Firsts(Steps(run), at + 1) = Firsts(Steps(run), at) \cup {"build"}
  <2>1. todo \in Seq(Words) /\ Len(todo) = Len(Steps(run)) - at
        /\ \A i \in 1 .. Len(todo) : todo[i] = Steps(run)[at + i]
    BY <1>2 DEF AtStep
  <2>2. Steps(run) \in Seq(Words)
    BY <1>1, StepsOfRun
  <2> DEFINE s == Steps(run)
  <2>3. s \in Seq(Words) /\ at \in 0 .. Len(s) /\ todo # <<>> /\ Rest(todo, s, at)
    BY <1>1, <2>1, <2>2 DEF Rest
  <2> HIDE DEF s
  <2>4. /\ at + 1 \in 0 .. Len(s) /\ Rest(Tail(todo), s, at + 1)
        /\ Firsts(s, at + 1) = Firsts(s, at) \cup {s[at + 1]}
    BY <2>3, ListGoesOn
  <2> QED BY <1>1, <1>3, <2>4 DEF s, Rest
<1>5. /\ hex[d] # Absent /\ ~hex[d].universal /\ ~hex[d].short
      /\ ExpectedUnits \subseteq output.compiled
  <2>1. Verdict(d) = "success" /\ ~hex[d].universal /\ ~hex[d].short /\ MissingUnits = {}
    BY <1>1 DEF Accepted, UniversalHex, HexTooSmall
  <2>2. hex[d] # Absent
    BY <2>1 DEF Verdict
  <2> QED BY <2>1, <2>2 DEF MissingUnits
<1>6. \A u \in ExpectedUnits : hex[d].objs[u] = scratch[d]
  BY <1>1, <1>2, <1>3, <1>5 DEF AtStep
<1>7. Written(scratch[d], run, Firsts(Steps(run), at + 1))
  <2> DEFINE done == Firsts(Steps(run), at)
  <2>1. Written(scratch[d], run, done)
    BY <1>2, <1>3 DEF AtStep
  <2> HIDE DEF done
  <2>2. Written(scratch[d], run, done \cup {"build"})
    BY <2>1 DEF Written
  <2> QED BY <1>4, <2>2 DEF done
<1>8. AtStep(at + 1)'
  <2>1. /\ run' = run /\ BuildSteps(run)' = BuildSteps(run)
        /\ Steps(run)' = Steps(run) /\ Dir(run)' = d
    BY <1>1
  <2>2. at + 1 = build /\ at \in Nat
    BY <1>3
  <2> QED BY <1>1, <1>4, <1>5, <1>6, <1>7, <2>1, <2>2 DEF AtStep
<1>9. MachineInv'
  BY <1>1 DEF DeployInv, MachineInv
<1>10. RunInv'
  BY <1>1, <1>4, <1>8 DEF RunInv
<1>11. FlashedIsThisBuild'
  BY <1>1 DEF DeployInv, FlashedIsThisBuild
<1> QED BY <1>9, <1>10, <1>11 DEF DeployInv

\* What is flashed is the accepted hex.
LEMMA FlashKeeps ==
  ASSUME DeployInv, Flash
  PROVE  DeployInv'
<1> DEFINE d == Dir(run)
           build == Len(BuildSteps(run))
<1>1. /\ run # Absent /\ run \in Requests /\ ~ArgsRefused(run) /\ todo # <<>>
      /\ Head(todo) = "flash"
      /\ Leave /\ UNCHANGED <<source, scratch, objects, hex, runs>>
  BY DEF Flash, DeployInv, RunInv
<1>2. CASE UNCHANGED flashed
  BY <1>1, <1>2, LeaveKeeps
<1>3. CASE flashed' = [flashed EXCEPT ![run.robot] =
                         [hex |-> hex[d], run |-> run, src |-> scratch[d].src]]
  <2>1. PICK at \in 0 .. Len(Steps(run)) : AtStep(at)
    BY <1>1 DEF DeployInv, RunInv
  <2>2. at = build /\ build \in Nat /\ build > 1 /\ run.flash
    BY <1>1, <2>1, HeadOfRun
  <2>3. /\ ~hex[d].universal /\ ~hex[d].short
        /\ \A u \in ExpectedUnits : hex[d].objs[u] = scratch[d]
        /\ Written(scratch[d], run, Firsts(Steps(run), at))
    BY <2>1, <2>2 DEF AtStep
  <2>4. Firsts(Steps(run), at) = StepSet(BuildSteps(run))
    <3>1. \A i \in 1 .. build : Steps(run)[i] = BuildSteps(run)[i]
      BY <1>1, StepsOfRun
    <3> QED BY <2>2, <3>1 DEF StepSet, Firsts
  <2>5. scratch[d] = NotForPrograms(run, Wanted(run, scratch[d].src))
    BY <1>1, <2>2, <2>3, <2>4, WrittenIsWanted
  <2>6. run.robot \in DeployRobots /\ flashed = [r \in DeployRobots |-> flashed[r]]
    BY <1>1, DeployAssumption DEF DeployInv, MachineInv
  <2> DEFINE board == [hex |-> hex[d], run |-> run, src |-> scratch[d].src]
  <2>7. board.hex = hex[d] /\ board.run = run /\ board.src = scratch[d].src
    OBVIOUS
  <2>8. flashed' = [flashed EXCEPT ![run.robot] = board]
    BY <1>3
  <2> HIDE DEF board
  <2>9. /\ flashed'[run.robot] = board
        /\ \A r \in DeployRobots \ {run.robot} : flashed'[r] = flashed[r]
        /\ flashed' = [r \in DeployRobots |-> flashed'[r]]
    BY <2>6, <2>8
  <2>10. MachineInv'
    <3>1. attempt' = 0 /\ output' = [compiled |-> {}, shape |-> "clean"]
      BY <1>1 DEF Leave, NoOutput
    <3>2. 0 \in 0 .. 2 /\ {} \subseteq Units /\ "clean" \in Shapes
      BY DEF Shapes
    <3> QED BY <1>1, <2>9, <3>1, <3>2 DEF DeployInv, MachineInv
  <2>11. RunInv'
    BY <1>1 DEF Leave, RunInv
  <2>12. FlashedIsThisBuild'
    <3> SUFFICES ASSUME NEW r \in DeployRobots, flashed'[r] # Absent
                 PROVE  /\ ~flashed'[r].hex.universal /\ ~flashed'[r].hex.short
                        /\ \A u \in ExpectedUnits : flashed'[r].hex.objs[u]
                             = NotForPrograms(flashed'[r].run, Wanted(flashed'[r].run, flashed'[r].src))
      BY DEF FlashedIsThisBuild
    <3>1. CASE r = run.robot
      BY <2>3, <2>5, <2>7, <2>9, <3>1
    <3>2. CASE r # run.robot
      BY <2>9, <3>2 DEF DeployInv, FlashedIsThisBuild
    <3> QED BY <3>1, <3>2
  <2> QED BY <2>10, <2>11, <2>12 DEF DeployInv
<1> QED BY <1>2, <1>3 DEF Flash

\* Every step of DeployNext keeps the invariant.
LEMMA DeploySteps == DeployInv /\ [DeployNext]_deployVars => DeployInv'
<1> SUFFICES ASSUME DeployInv, [DeployNext]_deployVars PROVE DeployInv'
  OBVIOUS
<1>1. CASE UNCHANGED deployVars
  <2>1. UNCHANGED <<source, run, todo, scratch, objects, hex, output, attempt, flashed, runs>>
    BY <1>1 DEF deployVars
  <2>2. MachineInv'
    BY <2>1 DEF DeployInv, MachineInv
  <2>3. RunInv'
    BY <2>1 DEF DeployInv, RunInv, AtStep
  <2>4. FlashedIsThisBuild'
    BY <2>1 DEF DeployInv, FlashedIsThisBuild
  <2> QED BY <2>2, <2>3, <2>4 DEF DeployInv
<1>2. CASE Exit
  BY <1>2, LeaveKeeps DEF Exit
<1>3. CASE BuildFailed
  BY <1>3, LeaveKeeps DEF BuildFailed
<1>4. CASE Done
  BY <1>4, LeaveKeeps DEF Done
<1> QED BY <1>1, <1>2, <1>3, <1>4, EditSourceKeeps, StartBuildKeeps, InjectKeeps, AttemptKeeps,
           BuildReadyKeeps, FlashKeeps DEF DeployNext

\* So it holds throughout.
LEMMA DeployInvariance == DeploySpec => []DeployInv
BY DeployStarts, DeploySteps, PTL DEF DeploySpec

(* The machine's state keeps its type: every hex has an image for every     *)
(* unit, and a build is attempted at most twice.                            *)
THEOREM DeployTypeCorrect == DeploySpec => []DeployTypeOK
<1>1. DeployInv => DeployTypeOK
  BY DEF DeployInv, MachineInv, RunInv, DeployTypeOK
<1> QED BY <1>1, DeployInvariance, PTL

(* What a board is given is this build for this robot (make_deploy.py's     *)
(* scratch copies, triage and unit check), whatever an earlier run, another *)
(* robot's build, an edit of the checkout or an object cache left on the    *)
(* machine; and no two of the 3125 names share a radio address.             *)
THEOREM DeploysSound == DeploySpec => []DeploysAreSound
<1>1. DeployInv => DeploysAreSound
  BY AddressesAreApart DEF DeployInv, DeploysAreSound
<1> QED BY <1>1, DeployInvariance, PTL


-----------------------------------------------------------------------------
(* publish_extension.py.                                                     *)

Trees == [content : Nat, version : Nat]
Commits == [tree : Trees, sha : Nat, dirty : BOOLEAN, calm : BOOLEAN]
Places == {"idle", "assemble", "clone", "push", "look", "tag"}
AnyOptions == {{}} \cup UNION {Options[p] : p \in Publishers}
Runs == [at : Places, options : AnyOptions, tree : Trees, base : Nat, sha : Nat,
         dirty : BOOLEAN, calm : BOOLEAN]
Checkouts == [tree : Trees, config : Versions, commits : Seq(Trees), edits : 0 .. MaxEdits]

CheckoutInv ==
    /\ checkout \in Checkouts /\ Len(checkout.commits) \in Nat \ {0}
    /\ checkout.tree.version \in Versions

RemoteInv ==
    /\ remote \in [branch : Seq(Commits), tags : [Versions -> Nat]]
    /\ Len(Branch) \in Nat \ {0}
    /\ \A v \in Versions : remote.tags[v] <= Len(Branch)

\* A run that assembled an untouched checkout holds that checkout's tree, and
\* once it named a commit of a clean one, that commit's.
Honest(pub) ==
    /\ pub.calm /\ pub.at = "clone" => pub.tree = checkout.tree
    /\ pub.at = "push" => pub.sha \in 1 .. Len(checkout.commits)
    /\ pub.calm /\ ~pub.dirty /\ pub.at = "push" => pub.tree = checkout.commits[pub.sha]

\* A run that may tag is on a commit of the branch with its own tree.
Placed(pub) ==
    /\ pub.at \in {"clone", "push", "look", "tag"} => pub.tree.version \in Versions
    /\ pub.base <= Len(Branch)
    /\ pub.at \in {"push", "look", "tag"} => pub.base # 0
    /\ pub.at = "look" /\ "dry run" \notin pub.options => Branch[pub.base].tree = pub.tree
    /\ pub.at = "tag" => Branch[pub.base].tree = pub.tree

CommitsInv == \A i \in 1 .. Len(Branch) : i > 1 /\ ~Branch[i].dirty /\ Branch[i].calm
                => /\ Branch[i].sha \in 1 .. Len(checkout.commits)
                   /\ Branch[i].tree = checkout.commits[Branch[i].sha]

PublishInv ==
    /\ CheckoutInv /\ RemoteInv
    /\ publisher \in [Publishers -> Runs]
    /\ \A p \in Publishers : Honest(publisher[p]) /\ Placed(publisher[p])
    /\ CommitsInv /\ TagNamesItsVersion

-----------------------------------------------------------------------------
\* The record of a publisher that is not at work is a run.
LEMMA StoppedRun == Stopped \in Runs
<1>1. Tree(0, 0) \in Trees
  BY DEF Tree, Trees
<1>2. {} \in AnyOptions
  BY DEF AnyOptions
<1> QED BY <1>1, <1>2 DEF Stopped, Runs, Places

\* A fresh checkout and a target of one commit satisfy the invariant.
LEMMA PublishStarts == PublishInit => PublishInv
<1> SUFFICES ASSUME PublishInit PROVE PublishInv
  OBVIOUS
<1>1. /\ checkout = [tree |-> Tree(1, 1), config |-> 1, commits |-> <<Tree(1, 1)>>, edits |-> 0]
      /\ remote.branch = <<[tree |-> Tree(0, 0), sha |-> 0, dirty |-> FALSE, calm |-> TRUE]>>
      /\ remote.tags = [v \in Versions |-> NoTag]
      /\ remote = [branch |-> remote.branch, tags |-> remote.tags]
      /\ publisher = [p \in Publishers |-> Stopped]
  BY DEF PublishInit
<1>2. Tree(0, 0) \in Trees /\ Tree(1, 1) \in Trees /\ Tree(1, 1).version = 1
  BY DEF Tree, Trees
<1>3. 1 \in Versions /\ 0 \in 0 .. MaxEdits
  BY PublishAssumption DEF Versions
<1>4. checkout \in Checkouts
  <2>1. <<Tree(1, 1)>> \in Seq(Trees)
    BY <1>2
  <2> QED BY <1>1, <1>2, <1>3, <2>1 DEF Checkouts
<1>5. Len(checkout.commits) = 1
  BY <1>1
<1>6. CheckoutInv
  BY <1>1, <1>2, <1>3, <1>4, <1>5 DEF CheckoutInv
<1>7. remote.branch \in Seq(Commits) /\ Len(remote.branch) = 1
  <2>1. [tree |-> Tree(0, 0), sha |-> 0, dirty |-> FALSE, calm |-> TRUE] \in Commits
    BY <1>2 DEF Commits
  <2> QED BY <1>1, <2>1
<1>8. RemoteInv
  <2>1. remote.tags \in [Versions -> Nat] /\ \A v \in Versions : remote.tags[v] = 0
    BY <1>1 DEF NoTag
  <2>2. remote \in [branch : Seq(Commits), tags : [Versions -> Nat]]
    BY <1>1, <1>7, <2>1
  <2> QED BY <1>7, <2>1, <2>2 DEF RemoteInv, Branch
<1>9. publisher \in [Publishers -> Runs]
  BY <1>1, StoppedRun
<1>10. ASSUME NEW p \in Publishers PROVE Honest(publisher[p]) /\ Placed(publisher[p])
  <2>1. publisher[p].at = "idle" /\ publisher[p].base = 0
    BY <1>1 DEF Stopped
  <2> QED BY <1>7, <2>1 DEF Honest, Placed, Branch
<1>11. CommitsInv
  BY <1>7 DEF CommitsInv, Branch
<1>12. TagNamesItsVersion
  BY <1>1 DEF TagNamesItsVersion, NoTag
<1> QED BY <1>6, <1>8, <1>9, <1>10, <1>11, <1>12 DEF PublishInv

-----------------------------------------------------------------------------
(* The checkout moves on; every run at work is touched by it.               *)

\* What an edit of the checkout leaves as it was.
Edited ==
    /\ CheckoutInv'
    /\ Len(checkout.commits) <= Len(checkout'.commits)
    /\ \A i \in 1 .. Len(checkout.commits) : checkout'.commits[i] = checkout.commits[i]

\* An edit of the checkout takes the calm from the runs at work, and nothing else.
LEMMA TouchedRuns ==
  ASSUME publisher \in [Publishers -> Runs], Touched
  PROVE  /\ publisher' \in [Publishers -> Runs]
         /\ \A p \in Publishers :
              /\ publisher'[p].at = publisher[p].at /\ publisher'[p].options = publisher[p].options
              /\ publisher'[p].tree = publisher[p].tree /\ publisher'[p].base = publisher[p].base
              /\ publisher'[p].sha = publisher[p].sha /\ publisher'[p].dirty = publisher[p].dirty
              /\ publisher[p].at # "idle" => ~publisher'[p].calm
<1>1. ASSUME NEW p \in Publishers
      PROVE  /\ publisher'[p] \in Runs
             /\ publisher'[p].at = publisher[p].at /\ publisher'[p].options = publisher[p].options
             /\ publisher'[p].tree = publisher[p].tree /\ publisher'[p].base = publisher[p].base
             /\ publisher'[p].sha = publisher[p].sha /\ publisher'[p].dirty = publisher[p].dirty
             /\ publisher[p].at # "idle" => ~publisher'[p].calm
  <2> DEFINE pub == publisher[p]
             calm == pub.calm /\ pub.at = "idle"
  <2>1. pub \in Runs
    OBVIOUS
  <2>2. publisher'[p] = [pub EXCEPT !.calm = calm]
    BY DEF Touched
  <2>3. calm \in BOOLEAN /\ (pub.at # "idle" => ~calm)
    OBVIOUS
  <2> HIDE DEF calm
  <2>4. publisher'[p] = [at |-> pub.at, options |-> pub.options, tree |-> pub.tree,
                         base |-> pub.base, sha |-> pub.sha, dirty |-> pub.dirty, calm |-> calm]
    BY <2>1, <2>2 DEF Runs
  <2> HIDE DEF pub
  <2>5. publisher'[p] \in Runs
    BY <2>1, <2>3, <2>4 DEF Runs
  <2> QED BY <2>3, <2>4, <2>5 DEF pub
<1>2. publisher' = [p \in Publishers |-> publisher'[p]]
  BY DEF Touched
<1> QED BY <1>1, <1>2

\* An edit that only adds commits leaves every run and every pushed commit honest.
LEMMA EditKeeps ==
  ASSUME PublishInv, Edited, Touched, UNCHANGED remote
  PROVE  PublishInv'
<1>1. /\ publisher' \in [Publishers -> Runs]
      /\ \A p \in Publishers :
           /\ publisher'[p].at = publisher[p].at /\ publisher'[p].options = publisher[p].options
           /\ publisher'[p].tree = publisher[p].tree /\ publisher'[p].base = publisher[p].base
           /\ publisher'[p].sha = publisher[p].sha /\ publisher'[p].dirty = publisher[p].dirty
           /\ publisher[p].at # "idle" => ~publisher'[p].calm
  BY TouchedRuns DEF PublishInv
<1>2. /\ Len(checkout.commits) \in Nat /\ Len(checkout'.commits) \in Nat
      /\ Len(checkout.commits) <= Len(checkout'.commits)
      /\ \A i \in 1 .. Len(checkout.commits) : checkout'.commits[i] = checkout.commits[i]
  BY DEF PublishInv, CheckoutInv, Edited
<1>3. ASSUME NEW p \in Publishers PROVE Honest(publisher[p])' /\ Placed(publisher[p])'
  <2>1. Honest(publisher[p]) /\ Placed(publisher[p])
    BY DEF PublishInv
  <2>2. Honest(publisher[p])'
    BY <1>1, <1>2, <2>1 DEF Honest
  <2>3. Placed(publisher[p])'
    BY <1>1, <2>1 DEF Placed, Branch
  <2> QED BY <2>2, <2>3
<1>4. CommitsInv'
  <2>. SUFFICES ASSUME NEW i \in 1 .. Len(Branch), i > 1, ~Branch[i].dirty, Branch[i].calm
       PROVE  /\ Branch[i].sha \in 1 .. Len(checkout'.commits)
              /\ Branch[i].tree = checkout'.commits[Branch[i].sha]
    BY DEF CommitsInv, Branch
  <2>1. /\ Branch[i].sha \in 1 .. Len(checkout.commits)
        /\ Branch[i].tree = checkout.commits[Branch[i].sha]
    BY DEF PublishInv, CommitsInv
  <2>. QED  BY <1>2, <2>1
<1>5. RemoteInv' /\ TagNamesItsVersion'
  BY DEF PublishInv, RemoteInv, TagNamesItsVersion, Branch
<1>6. CheckoutInv'
  BY DEF Edited
<1> QED BY <1>1, <1>3, <1>4, <1>5, <1>6 DEF PublishInv

\* The author's four steps are such edits.
LEMMA CheckoutSteps ==
  ASSUME PublishInv, EditFiles \/ BumpVersion \/ sync_version \/ CommitSource
  PROVE  PublishInv'
<1>1. /\ checkout \in Checkouts /\ Len(checkout.commits) \in Nat \ {0}
      /\ checkout.tree.version \in Versions /\ checkout.tree \in Trees
      /\ checkout.config \in Versions /\ checkout.edits \in 0 .. MaxEdits
      /\ checkout.commits \in Seq(Trees)
  BY DEF PublishInv, CheckoutInv, Checkouts
<1>2. /\ \A v \in Versions : v \in Nat
      /\ \A c \in Nat, v \in Nat : [content |-> c, version |-> v] \in Trees
  BY DEF Versions, Trees
<1>3. CASE EditFiles
  <2>1. /\ checkout' = [checkout EXCEPT !.tree.content = checkout.edits + 2, !.edits = @ + 1]
        /\ checkout.edits < MaxEdits
    BY <1>3 DEF EditFiles
  <2>2. checkout' = [tree |-> [content |-> checkout.edits + 2, version |-> checkout.tree.version],
                     config |-> checkout.config, commits |-> checkout.commits,
                     edits |-> checkout.edits + 1]
    BY <1>1, <2>1 DEF Checkouts, Trees
  <2>3. checkout.edits + 2 \in Nat /\ checkout.edits + 1 \in 0 .. MaxEdits
    BY <1>1, <2>1, PublishAssumption
  <2>4. CheckoutInv'
    BY <1>1, <1>2, <2>2, <2>3 DEF CheckoutInv, Checkouts
  <2> QED BY <1>1, <1>3, <2>2, <2>4, EditKeeps DEF Edited, EditFiles
<1>4. CASE BumpVersion
  <2>1. checkout' = [checkout EXCEPT !.config = @ + 1] /\ checkout.config < MaxVersion
    BY <1>4 DEF BumpVersion
  <2>2. checkout' = [tree |-> checkout.tree, config |-> checkout.config + 1,
                     commits |-> checkout.commits, edits |-> checkout.edits]
    BY <1>1, <2>1 DEF Checkouts
  <2>3. checkout.config + 1 \in Versions
    BY <1>1, <2>1, PublishAssumption DEF Versions
  <2>4. CheckoutInv'
    BY <1>1, <2>2, <2>3 DEF CheckoutInv, Checkouts
  <2> QED BY <1>1, <1>4, <2>2, <2>4, EditKeeps DEF Edited, BumpVersion
<1>5. CASE sync_version
  <2>1. checkout' = [checkout EXCEPT !.tree.version = checkout.config]
    BY <1>5 DEF sync_version
  <2>2. checkout' = [tree |-> [content |-> checkout.tree.content, version |-> checkout.config],
                     config |-> checkout.config, commits |-> checkout.commits,
                     edits |-> checkout.edits]
    BY <1>1, <2>1 DEF Checkouts, Trees
  <2>3. checkout.tree.content \in Nat /\ checkout.config \in Nat
    BY <1>1, <1>2 DEF Trees
  <2>4. CheckoutInv'
    BY <1>1, <1>2, <2>2, <2>3 DEF CheckoutInv, Checkouts
  <2> QED BY <1>1, <1>5, <2>2, <2>4, EditKeeps DEF Edited, sync_version
<1>6. CASE CommitSource
  <2> DEFINE more == Append(checkout.commits, checkout.tree)
  <2>1. checkout' = [checkout EXCEPT !.commits = Append(@, checkout.tree)]
    BY <1>6 DEF CommitSource
  <2>2. checkout' = [tree |-> checkout.tree, config |-> checkout.config,
                     commits |-> more, edits |-> checkout.edits]
    BY <1>1, <2>1 DEF Checkouts
  <2>3. /\ more \in Seq(Trees) /\ Len(more) = Len(checkout.commits) + 1
        /\ \A i \in 1 .. Len(checkout.commits) : more[i] = checkout.commits[i]
    BY <1>1
  <2> HIDE DEF more
  <2>4. CheckoutInv'
    BY <1>1, <2>2, <2>3 DEF CheckoutInv, Checkouts
  <2> QED BY <1>1, <1>6, <2>2, <2>3, <2>4, EditKeeps DEF Edited, CommitSource
<1> QED BY <1>3, <1>4, <1>5, <1>6

-----------------------------------------------------------------------------
(* The steps of a run.                                                      *)

\* A step of run p that leaves the checkout and the target as they were.
LEMMA RunMoves ==
  ASSUME PublishInv, NEW p \in Publishers, NEW pub \in Runs,
         publisher' = [publisher EXCEPT ![p] = pub],
         Honest(pub), Placed(pub), UNCHANGED <<checkout, remote>>
  PROVE  PublishInv'
<1>1. publisher' \in [Publishers -> Runs]
  BY DEF PublishInv
<1>2. ASSUME NEW q \in Publishers PROVE Honest(publisher[q])' /\ Placed(publisher[q])'
  <2>1. publisher'[q] = IF q = p THEN pub ELSE publisher[q]
    BY DEF PublishInv
  <2>2. Honest(publisher'[q]) /\ Placed(publisher'[q])
    BY <2>1 DEF PublishInv
  <2> QED BY <2>2 DEF Honest, Placed, Branch
<1>3. CheckoutInv' /\ RemoteInv' /\ CommitsInv' /\ TagNamesItsVersion'
  BY DEF PublishInv, CheckoutInv, RemoteInv, CommitsInv, TagNamesItsVersion, Branch
<1> QED BY <1>1, <1>2, <1>3 DEF PublishInv

\* A run that stopped claims nothing.
LEMMA RunStops ==
  ASSUME PublishInv
  PROVE  Honest(Stopped) /\ Placed(Stopped)
<1>1. Stopped.at = "idle" /\ Stopped.base = 0 /\ Len(Branch) \in Nat
  BY DEF Stopped, PublishInv, RemoteInv
<1> QED BY <1>1 DEF Honest, Placed

\* A run that ends or dies, the target as it was.
LEMMA RunEnding ==
  ASSUME PublishInv, NEW p \in Publishers, RunEnds(p), UNCHANGED <<checkout, remote>>
  PROVE  PublishInv'
BY RunStops, StoppedRun, RunMoves DEF RunEnds

\* What the invariant says of one run.
LEMMA RunFacts ==
  ASSUME PublishInv, NEW p \in Publishers
  PROVE  /\ publisher[p] \in Runs /\ Honest(publisher[p]) /\ Placed(publisher[p])
         /\ publisher[p] = [at |-> publisher[p].at, options |-> publisher[p].options,
                            tree |-> publisher[p].tree, base |-> publisher[p].base,
                            sha |-> publisher[p].sha, dirty |-> publisher[p].dirty,
                            calm |-> publisher[p].calm]
         /\ Len(Branch) \in Nat \ {0} /\ Len(checkout.commits) \in Nat \ {0}
<1>1. publisher[p] \in Runs
  BY DEF PublishInv
<1>2. publisher[p] = [at |-> publisher[p].at, options |-> publisher[p].options,
                     tree |-> publisher[p].tree, base |-> publisher[p].base,
                     sha |-> publisher[p].sha, dirty |-> publisher[p].dirty,
                     calm |-> publisher[p].calm]
  BY <1>1 DEF Runs
<1> QED BY <1>1, <1>2 DEF PublishInv, RemoteInv, CheckoutInv

\* What the steps make of a run's record.
LEMMA MovedRun ==
  ASSUME NEW was \in Runs, NEW at, NEW now, now = [was EXCEPT !.at = at]
  PROVE  now = [at |-> at, options |-> was.options, tree |-> was.tree, base |-> was.base,
                sha |-> was.sha, dirty |-> was.dirty, calm |-> was.calm]
BY DEF Runs

\* A run that starts, with its options.
LEMMA StartedRun ==
  ASSUME NEW was \in Runs, NEW at, NEW options, NEW now,
         now = [was EXCEPT !.at = at, !.options = options]
  PROVE  now = [at |-> at, options |-> options, tree |-> was.tree, base |-> was.base,
                sha |-> was.sha, dirty |-> was.dirty, calm |-> was.calm]
BY DEF Runs

\* A run that assembled a tree.
LEMMA AssembledRun ==
  ASSUME NEW was \in Runs, NEW at, NEW tree, NEW now, now = [was EXCEPT !.at = at, !.tree = tree]
  PROVE  now = [at |-> at, options |-> was.options, tree |-> tree, base |-> was.base,
                sha |-> was.sha, dirty |-> was.dirty, calm |-> was.calm]
BY DEF Runs

\* A run that pushed its commit.
LEMMA PushedRun ==
  ASSUME NEW was \in Runs, NEW at, NEW base, NEW now, now = [was EXCEPT !.at = at, !.base = base]
  PROVE  now = [at |-> at, options |-> was.options, tree |-> was.tree, base |-> base,
                sha |-> was.sha, dirty |-> was.dirty, calm |-> was.calm]
BY DEF Runs

\* A run that cloned the target and wrote its commit.
LEMMA ClonedRun ==
  ASSUME NEW was \in Runs, NEW at, NEW base, NEW sha, NEW dirty \in BOOLEAN, NEW now,
         now = [was EXCEPT !.at = at, !.base = base, !.sha = sha, !.dirty = dirty]
  PROVE  now = [at |-> at, options |-> was.options, tree |-> was.tree, base |-> base,
                sha |-> sha, dirty |-> dirty, calm |-> was.calm]
BY DEF Runs

\* A new run holds nothing yet.
LEMMA StartKeeps ==
  ASSUME PublishInv, NEW p \in Publishers, StartPublish(p)
  PROVE  PublishInv'
<1>1. PICK options \in Options[p] :
        publisher' = [publisher EXCEPT ![p] = [Stopped EXCEPT !.at = "assemble", !.options = options]]
  BY DEF StartPublish
<1> DEFINE pub == [Stopped EXCEPT !.at = "assemble", !.options = options]
<1>0. pub = [Stopped EXCEPT !.at = "assemble", !.options = options]
  OBVIOUS
<1>7. publisher' = [publisher EXCEPT ![p] = pub]
  BY <1>1
<1> HIDE DEF pub
<1>2. pub = [at |-> "assemble", options |-> options, tree |-> Stopped.tree, base |-> Stopped.base,
             sha |-> Stopped.sha, dirty |-> Stopped.dirty, calm |-> Stopped.calm]
  BY <1>0, StoppedRun, StartedRun
<1>3. options \in AnyOptions /\ Stopped.tree \in Trees
  BY StoppedRun DEF AnyOptions, Runs
<1>4. pub \in Runs
  BY <1>2, <1>3, StoppedRun DEF Runs, Places
<1>5. pub.at = "assemble" /\ pub.base = 0
  BY <1>2 DEF Stopped
<1>6. Honest(pub) /\ Placed(pub)
  <2>1. Len(Branch) \in Nat
    BY DEF PublishInv, RemoteInv
  <2> QED BY <1>5, <2>1 DEF Honest, Placed
<1> QED BY <1>7, <1>4, <1>6, RunMoves DEF StartPublish

\* assemble() takes the checkout's tree, and refuses a version that is not in step.
LEMMA AssembleKeeps ==
  ASSUME PublishInv, NEW p \in Publishers, assemble(p)
  PROVE  PublishInv'
<1>1. CASE ~check_version
  BY <1>1, RunEnding DEF assemble
<1>2. CASE check_version
  <2> DEFINE was == publisher[p]
             pub == [at |-> "clone", options |-> was.options, tree |-> checkout.tree,
                     base |-> was.base, sha |-> was.sha, dirty |-> was.dirty, calm |-> was.calm]
  <2>1. publisher' = [publisher EXCEPT ![p] = [was EXCEPT !.at = "clone", !.tree = checkout.tree]]
    BY <1>2 DEF assemble
  <2>2. [was EXCEPT !.at = "clone", !.tree = checkout.tree] = pub
    <3>1. was \in Runs
      BY RunFacts
    <3> QED BY <3>1, AssembledRun, Zenon
  <2>3. was \in Runs /\ Placed(was) /\ checkout.tree \in Trees /\ checkout.tree.version \in Versions
    BY RunFacts DEF PublishInv, CheckoutInv, Checkouts
  <2>4. pub \in Runs
    BY <2>3 DEF Runs, Places
  <2>5. Honest(pub) /\ Placed(pub)
    <3>1. /\ pub.at = "clone" /\ pub.tree = checkout.tree /\ pub.base = was.base
      OBVIOUS
    <3> HIDE DEF pub
    <3> QED BY <2>3, <3>1 DEF Honest, Placed
  <2>6. publisher' = [publisher EXCEPT ![p] = pub]
    BY <2>1, <2>2
  <2> HIDE DEF pub
  <2> QED BY <2>4, <2>5, <2>6, RunMoves DEF assemble
<1> QED BY <1>1, <1>2

\* The clone fixes the branch tip, and the commit message the source commit and its dirt.
LEMMA CloneKeeps ==
  ASSUME PublishInv, NEW p \in Publishers, CloneAndCommit(p)
  PROVE  PublishInv'
<1> DEFINE was == publisher[p]
           pub == [at |-> "push", options |-> was.options, tree |-> was.tree, base |-> Len(Branch),
                   sha |-> Len(checkout.commits), dirty |-> Dirty, calm |-> was.calm]
<1>1. publisher' = [publisher EXCEPT ![p] =
        [was EXCEPT !.at = "push", !.base = Len(Branch), !.sha = Len(checkout.commits), !.dirty = Dirty]]
  BY DEF CloneAndCommit
<1>2. /\ was \in Runs /\ Placed(was) /\ Honest(was) /\ was.at = "clone"
      /\ Len(Branch) \in Nat \ {0} /\ Len(checkout.commits) \in Nat \ {0}
  BY RunFacts DEF CloneAndCommit
<1>3. Dirty \in BOOLEAN
  BY DEF Dirty
<1>4. [was EXCEPT !.at = "push", !.base = Len(Branch), !.sha = Len(checkout.commits), !.dirty = Dirty] = pub
  <2> DEFINE dirty == Dirty
  <2>1. dirty \in BOOLEAN
    BY <1>3
  <2> HIDE DEF dirty
  <2>2. PICK now : now = [was EXCEPT !.at = "push", !.base = Len(Branch),
                                     !.sha = Len(checkout.commits), !.dirty = dirty]
    OBVIOUS
  <2>3. now = [at |-> "push", options |-> was.options, tree |-> was.tree, base |-> Len(Branch),
               sha |-> Len(checkout.commits), dirty |-> dirty, calm |-> was.calm]
    <3>1. was \in Runs
      BY <1>2
    <3> DEFINE base == Len(Branch)
               sha == Len(checkout.commits)
    <3>2. now = [was EXCEPT !.at = "push", !.base = base, !.sha = sha, !.dirty = dirty]
      BY <2>2
    <3> HIDE DEF base, sha, was
    <3>3. now = [at |-> "push", options |-> was.options, tree |-> was.tree, base |-> base,
                 sha |-> sha, dirty |-> dirty, calm |-> was.calm]
      BY <2>1, <3>1, <3>2 DEF Runs
    <3> QED BY <3>3 DEF base, sha, was
  <2> QED BY <2>2, <2>3 DEF dirty
<1>5. publisher' = [publisher EXCEPT ![p] = pub]
  BY <1>1, <1>4
<1>6. pub \in Runs
  BY <1>2, <1>3 DEF Runs, Places
<1>7. was.calm /\ ~Dirty => was.tree = checkout.commits[Len(checkout.commits)]
  BY <1>2 DEF Honest, Dirty
<1>8. Honest(pub) /\ Placed(pub)
  <2>1. /\ pub.at = "push" /\ pub.tree = was.tree /\ pub.base = Len(Branch) /\ pub.calm = was.calm
        /\ pub.sha = Len(checkout.commits)
    OBVIOUS
  <2>2. pub.dirty <=> Dirty
    OBVIOUS
  <2> HIDE DEF pub, Dirty
  <2>3. Honest(pub)
    BY <1>2, <1>7, <2>1, <2>2 DEF Honest
  <2>4. Placed(pub)
    BY <1>2, <2>1 DEF Placed
  <2> QED BY <2>3, <2>4
<1> HIDE DEF pub
<1> QED BY <1>5, <1>6, <1>8, RunMoves DEF CloneAndCommit

\* A run that goes on without a push is on a commit that has its tree.
LEMMA GoesKeeps ==
  ASSUME PublishInv, NEW p \in Publishers, NEW where \in {"look", "tag"}, Goes(p, where),
         publisher[p].at \in {"push", "look"},
         "dry run" \notin publisher[p].options => Branch[publisher[p].base].tree = publisher[p].tree,
         where = "tag" => "dry run" \notin publisher[p].options,
         UNCHANGED <<checkout, remote>>
  PROVE  PublishInv'
<1> DEFINE was == publisher[p]
           pub == [at |-> where, options |-> was.options, tree |-> was.tree, base |-> was.base,
                   sha |-> was.sha, dirty |-> was.dirty, calm |-> was.calm]
<1>1. publisher' = [publisher EXCEPT ![p] = [was EXCEPT !.at = where]]
  BY DEF Goes
<1>2. was \in Runs /\ Placed(was)
  BY RunFacts
<1>3. [was EXCEPT !.at = where] = pub
  BY <1>2, MovedRun
<1>4. publisher' = [publisher EXCEPT ![p] = pub]
  BY <1>1, <1>3
<1>5. pub \in Runs
  BY <1>2 DEF Runs, Places
<1>6. Honest(pub) /\ Placed(pub)
  BY <1>2 DEF Honest, Placed
<1> HIDE DEF pub
<1> QED BY <1>4, <1>5, <1>6, RunMoves

\* A push lands only on the tip that was cloned: its commit is the run's tree.
LEMMA PushKeeps ==
  ASSUME PublishInv, NEW p \in Publishers, PushBranch(p)
  PROVE  PublishInv'
<1> DEFINE was == publisher[p]
<1>0. /\ was \in Runs /\ Honest(was) /\ Placed(was) /\ was.at = "push"
      /\ Len(Branch) \in Nat \ {0} /\ Len(checkout.commits) \in Nat \ {0}
      /\ Branch \in Seq(Commits)
  BY RunFacts DEF PushBranch, PublishInv, RemoteInv, Branch
<1>1. CASE ~Changed(p) \/ ~Pushes(p)
  <2>1. Goes(p, "look") /\ UNCHANGED <<checkout, remote>>
    BY <1>1 DEF PushBranch
  <2>2. "dry run" \notin was.options => Branch[was.base].tree = was.tree
    BY <1>1 DEF Changed, Pushes
  <2> QED BY <1>0, <2>1, <2>2, GoesKeeps
<1>2. CASE Changed(p) /\ Pushes(p) /\ Len(Branch) # was.base
  BY <1>2, RunEnding DEF PushBranch
<1>3. CASE Changed(p) /\ Pushes(p) /\ Len(Branch) = was.base
  <2> DEFINE commit == [tree |-> was.tree, sha |-> was.sha, dirty |-> was.dirty, calm |-> was.calm]
             longer == Append(Branch, commit)
             pub == [at |-> "look", options |-> was.options, tree |-> was.tree, base |-> was.base + 1,
                     sha |-> was.sha, dirty |-> was.dirty, calm |-> was.calm]
  <2>1. /\ remote' = [remote EXCEPT !.branch = Append(@, Named(p))]
        /\ publisher' = [publisher EXCEPT ![p] = [was EXCEPT !.at = "look", !.base = @ + 1]]
        /\ checkout' = checkout
    BY <1>3 DEF PushBranch
  <2>2. Named(p) = commit
    BY DEF Named
  <2>3. commit \in Commits
    BY <1>0 DEF Runs, Commits
  <2>4. remote' = [branch |-> longer, tags |-> remote.tags]
    BY <2>1, <2>2 DEF PublishInv, RemoteInv, Branch
  <2>5. [was EXCEPT !.at = "look", !.base = @ + 1] = pub
    BY <1>0, PushedRun
  <2>6. publisher' = [publisher EXCEPT ![p] = pub]
    BY <2>1, <2>5
  <2>7. pub \in Runs
    BY <1>0 DEF Runs, Places
  <2> HIDE DEF commit
  <2>8. /\ longer \in Seq(Commits) /\ Len(longer) = Len(Branch) + 1
        /\ longer[Len(Branch) + 1] = commit
        /\ \A i \in 1 .. Len(Branch) : longer[i] = Branch[i]
    BY <1>0, <2>3
  <2>9. Branch' = longer /\ remote'.tags = remote.tags
    BY <2>4 DEF Branch
  <2> HIDE DEF longer
  <2>10. RemoteInv'
    BY <1>0, <2>4, <2>8, <2>9 DEF PublishInv, RemoteInv
  <2>11. \A q \in Publishers : publisher'[q] = IF q = p THEN pub ELSE publisher[q]
    BY <2>6 DEF PublishInv
  <2>12. ASSUME NEW q \in Publishers PROVE Honest(publisher[q])' /\ Placed(publisher[q])'
    <3>1. CASE q = p
      <4>1. publisher'[q] = pub
        BY <2>11, <3>1
      <4>2. pub.at = "look" /\ pub.base = Len(Branch) + 1 /\ pub.tree = was.tree /\ was.tree.version \in Versions
        BY <1>0, <1>3 DEF Placed
      <4> HIDE DEF pub
      <4>3. longer[pub.base].tree = pub.tree /\ pub.base <= Len(longer) /\ pub.base # 0
        BY <1>0, <2>8, <4>2 DEF commit
      <4>4. Honest(publisher[q])'
        BY <4>1, <4>2 DEF Honest
      <4>5. Placed(publisher[q])'
        BY <2>9, <4>1, <4>2, <4>3 DEF Placed
      <4> QED BY <4>4, <4>5
    <3>2. CASE q # p
      <4>1. publisher'[q] = publisher[q] /\ Honest(publisher[q]) /\ Placed(publisher[q])
            /\ publisher[q] \in Runs
        BY <2>11, <3>2 DEF PublishInv
      <4>2. Honest(publisher[q])'
        BY <2>1, <4>1 DEF Honest
      <4>3. publisher[q].base \in Nat /\ publisher[q].base <= Len(Branch)
        BY <4>1 DEF Runs, Placed
      <4>4. publisher[q].base # 0 => longer[publisher[q].base] = Branch[publisher[q].base]
        BY <1>0, <2>8, <4>3
      <4>5. publisher[q].base <= Len(longer)
        BY <1>0, <2>8, <4>3
      <4>6. Placed(publisher[q])'
        BY <2>9, <4>1, <4>4, <4>5 DEF Placed
      <4> QED BY <4>2, <4>6
    <3> QED BY <3>1, <3>2
  <2>13. CommitsInv'
    <3> SUFFICES ASSUME NEW i \in 1 .. Len(longer), i > 1, ~longer[i].dirty, longer[i].calm
                 PROVE  /\ longer[i].sha \in 1 .. Len(checkout.commits)
                        /\ longer[i].tree = checkout.commits[longer[i].sha]
      BY <2>1, <2>9 DEF CommitsInv
    <3>1. CASE i \in 1 .. Len(Branch)
      BY <2>8, <3>1 DEF PublishInv, CommitsInv
    <3>2. CASE i = Len(Branch) + 1
      BY <1>0, <2>8, <3>2 DEF commit, Honest
    <3> QED BY <1>0, <2>8, <3>1, <3>2
  <2>14. TagNamesItsVersion'
    BY <1>0, <2>8, <2>9 DEF PublishInv, RemoteInv, TagNamesItsVersion, NoTag
  <2>15. CheckoutInv' /\ publisher' \in [Publishers -> Runs]
    BY <2>1, <2>6, <2>7 DEF PublishInv, CheckoutInv
  <2> QED BY <2>10, <2>12, <2>13, <2>14, <2>15 DEF PublishInv
<1> QED BY <1>1, <1>2, <1>3

\* A run tags only when the tag is missing and it may push.
LEMMA LookKeeps ==
  ASSUME PublishInv, NEW p \in Publishers, LookForTag(p)
  PROVE  PublishInv'
<1>1. CASE remote.tags[TagOf(p)] = NoTag /\ Pushes(p)
  <2>1. Goes(p, "tag") /\ UNCHANGED <<checkout, remote>> /\ publisher[p].at = "look"
    BY <1>1 DEF LookForTag
  <2>2. Placed(publisher[p])
    BY RunFacts
  <2>3. "dry run" \notin publisher[p].options
    BY <1>1 DEF Pushes
  <2>4. Branch[publisher[p].base].tree = publisher[p].tree
    BY <2>1, <2>2, <2>3 DEF Placed
  <2> QED BY <2>1, <2>3, <2>4, GoesKeeps
<1>2. CASE ~(remote.tags[TagOf(p)] = NoTag /\ Pushes(p))
  BY <1>2, RunEnding DEF LookForTag
<1> QED BY <1>1, <1>2

\* A tag, once the target accepts it, names a commit of its version.
LEMMA TagKeeps ==
  ASSUME PublishInv, NEW p \in Publishers, PushTag(p)
  PROVE  PublishInv'
<1> DEFINE was == publisher[p]
           v == TagOf(p)
<1>0. /\ was \in Runs /\ Placed(was) /\ was.at = "tag" /\ Len(Branch) \in Nat \ {0}
      /\ RunEnds(p) /\ checkout' = checkout
  BY RunFacts DEF PushTag
<1>1. v \in Versions /\ was.base \in 1 .. Len(Branch) /\ Branch[was.base].tree.version = v
  <2>1. was.base \in Nat /\ was.base <= Len(Branch) /\ was.base # 0
    BY <1>0 DEF Placed, Runs
  <2>2. was.tree.version \in Versions /\ Branch[was.base].tree = was.tree
    BY <1>0 DEF Placed
  <2> QED BY <1>0, <2>1, <2>2 DEF TagOf
<1>2. CASE remote.tags[v] # NoTag
  BY <1>0, <1>2, RunEnding DEF PushTag
<1>3. CASE remote.tags[v] = NoTag
  <2>1. remote' = [remote EXCEPT !.tags[v] = was.base]
    BY <1>3 DEF PushTag
  <2> DEFINE more == [remote.tags EXCEPT ![v] = was.base]
  <2>2. remote' = [branch |-> Branch, tags |-> more]
    BY <2>1 DEF PublishInv, RemoteInv, Branch
  <2>3. /\ more \in [Versions -> Nat] /\ more[v] = was.base
        /\ \A w \in Versions \ {v} : more[w] = remote.tags[w]
    BY <1>1 DEF PublishInv, RemoteInv
  <2>4. Branch' = Branch /\ remote'.tags = more
    BY <2>2 DEF Branch
  <2> HIDE DEF more, v
  <2>5. RemoteInv'
    <3>1. remote' \in [branch : Seq(Commits), tags : [Versions -> Nat]]
      BY <2>2, <2>3 DEF PublishInv, RemoteInv, Branch
    <3>2. \A w \in Versions : remote'.tags[w] <= Len(Branch)
      <4> SUFFICES ASSUME NEW w \in Versions PROVE more[w] <= Len(Branch)
        BY <2>4
      <4>1. CASE w = v
        BY <1>1, <2>3, <4>1
      <4>2. CASE w # v
        BY <2>3, <4>2 DEF PublishInv, RemoteInv
      <4> QED BY <4>1, <4>2
    <3> QED BY <1>0, <2>4, <3>1, <3>2 DEF RemoteInv
  <2>6. TagNamesItsVersion'
    BY <1>1, <2>3, <2>4 DEF PublishInv, TagNamesItsVersion
  <2>7. \A q \in Publishers : publisher'[q] \in Runs
    BY <1>0, StoppedRun DEF PublishInv, RunEnds
  <2>8. ASSUME NEW q \in Publishers PROVE Honest(publisher[q])' /\ Placed(publisher[q])'
    <3>1. Honest(publisher'[q]) /\ Placed(publisher'[q])
      BY <1>0, RunStops DEF PublishInv, RunEnds
    <3> QED BY <1>0, <2>4, <3>1 DEF Honest, Placed
  <2>9. publisher' \in [Publishers -> Runs]
    BY <1>0, StoppedRun DEF PublishInv, RunEnds
  <2>10. CheckoutInv' /\ CommitsInv'
    BY <1>0, <2>4 DEF PublishInv, CheckoutInv, CommitsInv
  <2> QED BY <2>5, <2>6, <2>8, <2>9, <2>10 DEF PublishInv
<1> QED BY <1>2, <1>3

\* Every step of PublishNext keeps the invariant.
LEMMA PublishSteps == PublishInv /\ [PublishNext]_publishVars => PublishInv'
<1> SUFFICES ASSUME PublishInv, [PublishNext]_publishVars PROVE PublishInv'
  OBVIOUS
<1>1. CASE UNCHANGED publishVars
  BY <1>1 DEF publishVars, PublishInv, CheckoutInv, RemoteInv, Honest, Placed, CommitsInv,
              TagNamesItsVersion, Branch
<1>2. ASSUME NEW p \in Publishers, Dies(p) PROVE PublishInv'
  BY <1>2, RunEnding DEF Dies
<1> QED BY <1>1, <1>2, CheckoutSteps, StartKeeps, AssembleKeeps, CloneKeeps, PushKeeps, LookKeeps,
           TagKeeps DEF PublishNext

\* So it holds throughout every run of the publishers.
LEMMA PublishInvariance == PublishSpec => []PublishInv
BY PublishStarts, PublishSteps, PTL DEF PublishSpec

(* The checkout, the target and the runs keep their types: a tag and a run  *)
(* only ever name a commit that the branch has.                             *)
THEOREM PublishTypeCorrect == PublishSpec => []PublishTypeOK
<1>1. PublishInv => PublishTypeOK
  <2> SUFFICES ASSUME PublishInv PROVE PublishTypeOK
    OBVIOUS
  <2>1. checkout.config \in Versions /\ checkout.edits \in 0 .. MaxEdits
    BY DEF PublishInv, CheckoutInv, Checkouts
  <2>2. remote.tags \in [Versions -> 0 .. Len(Branch)]
    BY DEF PublishInv, RemoteInv
  <2>3. ASSUME NEW p \in Publishers
        PROVE  publisher[p].at \in Places /\ publisher[p].base \in 0 .. Len(Branch)
    <3>1. publisher[p] \in Runs /\ Placed(publisher[p]) /\ Len(Branch) \in Nat
      BY RunFacts
    <3>2. publisher[p].at \in Places /\ publisher[p].base \in Nat
      BY <3>1 DEF Runs
    <3>3. publisher[p].base <= Len(Branch)
      BY <3>1 DEF Placed
    <3> QED BY <3>1, <3>2, <3>3
  <2> QED BY <2>1, <2>2, <2>3 DEF PublishTypeOK, Places
<1> QED BY <1>1, PublishInvariance, PTL

(* What is published is what was authored (publish_extension.py, "the       *)
(* published tree must be reproducible from the commit its message names"): *)
(* a tag's commit carries the tag's version, and an untouched, clean        *)
(* checkout's commit holds the tree of the commit it names, for any number  *)
(* of publishers that push, die and race.                                   *)
THEOREM PublishedIsAuthoredHolds == PublishSpec => []PublishedIsAuthored
<1>1. PublishInv => PublishedIsAuthored
  <2> SUFFICES ASSUME PublishInv PROVE ReproducibleWhenCalm
    BY DEF PublishInv, PublishedIsAuthored
  <2>1. Len(Branch) \in Nat
    BY DEF PublishInv, RemoteInv
  <2> QED BY <2>1 DEF PublishInv, CommitsInv, ReproducibleWhenCalm
<1> QED BY <1>1, PublishInvariance, PTL


-----------------------------------------------------------------------------
(* blocks_env.py.                                                            *)

(* WorkspaceShapes. *)

Projects == [there : BOOLEAN, files : SUBSET Listed, pxt : {"none", "torn", "whole"},
             dep : {"none", "link", "climbs"}, installed : BOOLEAN, work : BOOLEAN, lost : BOOLEAN,
             history : BOOLEAN, cutShort : BOOLEAN]
BlocksDisks == [link : {"none", "..", "elsewhere", "directory"}, scratch : Projects, own : Projects]
BlocksSteps == {"done", "stop", "link", "has project", "make", "starter", "pxt.json", "dependency",
          "rewriting", "history", "install", "serve", "open", "serving"}
Endings == {"none", "ok", "refused", "traceback", "install failed", "never opened", "interrupted"}
BlocksLines == [reset : BOOLEAN, add : BOOLEAN, open : BOOLEAN, stop : BOOLEAN]
BlocksTools == [at : BlocksSteps, args : BlocksLines, runs : 0 .. BlocksRuns, exit : Endings, fresh : BOOLEAN,
          wrote : SUBSET Listed, mine : BOOLEAN]

WorkspaceShapes ==
    /\ blocksDisk \in BlocksDisks /\ blocksTool \in BlocksTools
    /\ pxtServer.by \in {"nobody", "pxt", "stranger"}
    /\ blocksEditor = [store |-> blocksEditor.store, behind |-> blocksEditor.behind,
                       tabs |-> blocksEditor.tabs]
    /\ blocksEditor.tabs \subseteq 1 .. blocksTool.runs

(* How far a run has got: its step, or that it ended well.                  *)
EndedWell == blocksTool.at = "done" /\ blocksTool.exit = "ok" /\ blocksTool.args.stop = FALSE
Past(steps) == blocksTool.at \in steps \/ EndedWell

Adds == blocksTool.args.add
AfterHistory == {"install", "serve", "open", "serving"}
AfterDependency == {"history"} \cup AfterHistory
AfterLayout == {"dependency", "rewriting"} \cup AfterDependency

(* The scratch project: complete, or being made, or cut short while it was. *)
ScratchInv ==
    LET p == blocksDisk.scratch IN
    /\ p.there = FALSE => p.files = {}
    /\ p.work = TRUE => "main.blocks" \in p.files
    /\ p.lost = FALSE
    /\ p.there = TRUE => \/ p.files = Listed \/ p.cutShort = TRUE
                         \/ blocksTool.at = "starter" /\ blocksTool.fresh = TRUE
    /\ blocksTool.at \in {"link", "make"} => blocksTool.wrote = {}
    /\ blocksTool.at = "starter" =>
         /\ p.there = TRUE /\ blocksTool.wrote \subseteq p.files
         /\ blocksTool.fresh = TRUE \/ blocksTool.args.reset = TRUE
         /\ blocksTool.fresh = TRUE => p.files = blocksTool.wrote
    /\ blocksDisk.own.pxt # "none" => blocksDisk.own.files = Listed

(* What the steps that are over have left.                                  *)
PhaseInv ==
    /\ blocksTool.exit = "ok" => blocksTool.at = "done"
    /\ blocksTool.at = "stop" => blocksTool.args.stop = TRUE
    /\ blocksTool.at # "done" => blocksTool.runs # 0
    /\ blocksTool.at \in {"make", "starter", "pxt.json", "serve", "open", "serving"} => Adds = FALSE
    /\ blocksTool.at = "has project" => Adds = TRUE
    /\ Past({"has project", "make", "starter", "pxt.json"} \cup AfterLayout) => blocksDisk.link = ".."
    /\ Past({"starter", "pxt.json"} \cup AfterLayout) /\ Adds = FALSE => blocksDisk.scratch.there = TRUE
    /\ Past(AfterLayout) => Project.pxt # "none"
    /\ Past(AfterDependency) => Project.pxt = "whole" /\ Project.dep = "link"
    /\ Past({"serve", "open", "serving"}) => Project.installed = TRUE

(* The tabs: without one nothing is edited, so the history stays clear; and *)
(* the only tab of the run that opened it saves to disk, if pxt serve is    *)
(* behind it.                                                               *)
TabInv ==
    /\ blocksEditor.tabs = {} => blocksEditor.store = "none"
    /\ blocksTool.at \notin {"done", "serving"} => blocksTool.runs \notin blocksEditor.tabs
    /\ blocksTool.at \in AfterHistory \ {"serving"} /\ Adds = FALSE /\ blocksEditor.tabs = {}
         => blocksDisk.scratch.history = FALSE
    /\ Past({"serving"}) /\ blocksTool.args.open = TRUE /\ Adds = FALSE
       /\ blocksEditor.tabs = {blocksTool.runs} /\ blocksEditor.behind = "pxt"
         => blocksEditor.store = "disk"

BlocksInv == WorkspaceShapes /\ ScratchInv /\ PhaseInv /\ TabInv

-----------------------------------------------------------------------------
(* Records. *)

LEMMA BlocksConstants ==
    /\ BlocksRuns \in Nat
    /\ \A args \in BlocksArgs : args \in BlocksLines
  BY BlocksAssumption DEF BlocksAssumption, BlocksLines

\* What is written is the project of this run; the other one stays.
LEMMA ProjectWritten ==
  ASSUME WorkspaceShapes, NEW p \in Projects, Write(p)
  PROVE  /\ blocksDisk' \in BlocksDisks /\ blocksDisk'.link = blocksDisk.link
         /\ Adds = FALSE => blocksDisk'.scratch = p /\ blocksDisk'.own = blocksDisk.own
         /\ Adds = TRUE => blocksDisk'.own = p /\ blocksDisk'.scratch = blocksDisk.scratch
<1>1. Adds \in BOOLEAN /\ blocksDisk \in BlocksDisks  BY DEF WorkspaceShapes, BlocksTools, BlocksLines, Adds
<1>2. CASE Adds = TRUE
  <2>1. Target = "own"  BY <1>2 DEF Target, Adds
  <2>2. blocksDisk' = [blocksDisk EXCEPT !["own"] = p]  BY <2>1 DEF Write
  <2>. QED  BY <1>1, <1>2, <2>2 DEF BlocksDisks
<1>3. CASE Adds = FALSE
  <2>1. Target = "scratch"  BY <1>3 DEF Target, Adds
  <2>2. blocksDisk' = [blocksDisk EXCEPT !["scratch"] = p]  BY <2>1 DEF Write
  <2>. QED  BY <1>1, <1>3, <2>2 DEF BlocksDisks
<1>. QED  BY <1>1, <1>2, <1>3

LEMMA ThisProject ==
  ASSUME WorkspaceShapes
  PROVE  /\ Adds \in BOOLEAN /\ Project \in Projects
         /\ Adds = FALSE => Project = blocksDisk.scratch
         /\ Adds = TRUE => Project = blocksDisk.own
  BY DEF WorkspaceShapes, BlocksTools, BlocksLines, Adds, Project, Target, BlocksDisks

\* The step a run goes to, and the way it ends.
LEMMA StepTaken ==
  ASSUME WorkspaceShapes, NEW at \in BlocksSteps, Then(at)
  PROVE  /\ blocksTool' \in BlocksTools /\ blocksTool'.at = at /\ blocksTool'.args = blocksTool.args
         /\ blocksTool'.runs = blocksTool.runs /\ blocksTool'.exit = blocksTool.exit
         /\ blocksTool'.fresh = blocksTool.fresh /\ blocksTool'.wrote = blocksTool.wrote
         /\ blocksTool'.mine = blocksTool.mine
  BY DEF WorkspaceShapes, BlocksTools, Then

LEMMA Ended ==
  ASSUME WorkspaceShapes, NEW how \in Endings, Exits(how)
  PROVE  /\ blocksTool' \in BlocksTools /\ blocksTool'.at = "done" /\ blocksTool'.args = blocksTool.args
         /\ blocksTool'.runs = blocksTool.runs /\ blocksTool'.exit = how
         /\ blocksTool'.fresh = blocksTool.fresh /\ blocksTool'.wrote = blocksTool.wrote
         /\ blocksTool'.mine = blocksTool.mine
  BY DEF WorkspaceShapes, BlocksTools, Exits, BlocksSteps

-----------------------------------------------------------------------------
(* The steps. *)

LEMMA BlocksInit_Holds ==
  ASSUME BlocksInit
  PROVE  BlocksInv
<1>1. NoProject \in Projects /\ OwnProject \in Projects
      /\ [OwnProject EXCEPT !.dep = "climbs", !.work = TRUE, !.history = TRUE] \in Projects
  BY DEF NoProject, OwnProject, Projects
<1>2. blocksDisk \in BlocksDisks  BY <1>1 DEF BlocksInit, Disks, BlocksDisks
<1>3. blocksTool \in BlocksTools
  BY BlocksConstants DEF BlocksInit, BlocksTools, BlocksSteps, Endings, BlocksLines
<1>4. WorkspaceShapes  BY <1>2, <1>3 DEF WorkspaceShapes, BlocksInit
<1>5. ScratchInv
  <2>1. PICK link \in {"none", "..", "elsewhere", "directory"},
             made \in {NoProject, [OwnProject EXCEPT !.dep = "climbs", !.work = TRUE, !.history = TRUE]},
             own \in {NoProject, OwnProject} :
               blocksDisk = [link |-> link, scratch |-> made, own |-> own]
    BY DEF BlocksInit, Disks
  <2>2. blocksDisk.scratch = made /\ blocksDisk.own = own  BY <2>1
  <2>3. own.pxt # "none" => own.files = Listed
    <3>1. NoProject.pxt = "none"  BY DEF NoProject
    <3>2. OwnProject.files = Listed  BY DEF OwnProject, NoProject
    <3>. QED  BY <2>1, <3>1, <3>2
  <2>4. /\ made.lost = FALSE
        /\ made.there = FALSE => made.files = {} /\ made.work = FALSE
        /\ made.there = TRUE => made.files = Listed
    <3>. DEFINE kept == [OwnProject EXCEPT !.dep = "climbs", !.work = TRUE, !.history = TRUE]
    <3>1. NoProject.lost = FALSE /\ NoProject.files = {} /\ NoProject.work = FALSE /\ NoProject.there = FALSE
      BY DEF NoProject
    <3>2. kept.lost = FALSE /\ kept.there = TRUE /\ kept.files = Listed
      BY DEF OwnProject, NoProject
    <3>3. made = NoProject \/ made = kept  BY <2>1
    <3>. HIDE DEF kept
    <3>. QED  BY <3>1, <3>2, <3>3
  <2>5. blocksTool.at = "done" /\ made \in Projects  BY <1>1, <2>1 DEF BlocksInit
  <2>6. made.there \in BOOLEAN  BY <2>5 DEF Projects
  <2>. QED  BY <2>2, <2>3, <2>4, <2>5, <2>6 DEF ScratchInv, Listed
<1>6. PhaseInv
  BY DEF PhaseInv, BlocksInit, Past, EndedWell, AfterLayout, AfterDependency, AfterHistory
<1>7. TabInv  BY DEF TabInv, BlocksInit, Past, EndedWell, AfterHistory
<1>. QED  BY <1>4, <1>5, <1>6, <1>7 DEF BlocksInv

LEMMA Launch_Keeps ==
  ASSUME BlocksInv, Launch
  PROVE  BlocksInv'
<1>1. PICK args \in BlocksArgs :
        blocksTool' = [blocksTool EXCEPT !.args = args, !.runs = @ + 1, !.exit = "none", !.mine = FALSE,
                         !.at = IF args.stop THEN "stop" ELSE "link", !.fresh = FALSE, !.wrote = {}]
  BY DEF Launch
<1>2. args \in BlocksLines  BY BlocksConstants
<1>3. blocksTool.runs \in 0 .. BlocksRuns /\ blocksTool.runs < BlocksRuns /\ BlocksRuns \in Nat
  BY BlocksConstants DEF BlocksInv, WorkspaceShapes, BlocksTools, Launch
<1>4. blocksTool.runs + 1 \in 0 .. BlocksRuns  BY <1>3
<1>5. /\ blocksTool' \in BlocksTools /\ blocksTool'.args = args /\ blocksTool'.runs = blocksTool.runs + 1
      /\ blocksTool'.exit = "none" /\ blocksTool'.fresh = FALSE /\ blocksTool'.wrote = {}
      /\ blocksTool'.at = IF args.stop = TRUE THEN "stop" ELSE "link"
  <2>. DEFINE count == blocksTool.runs + 1
              at == IF args.stop THEN "stop" ELSE "link"
  <2>1. count \in 0 .. BlocksRuns  BY <1>4
  <2>2. at \in BlocksSteps /\ at = IF args.stop = TRUE THEN "stop" ELSE "link"
    BY <1>2 DEF BlocksSteps, BlocksLines
  <2>3. blocksTool' = [blocksTool EXCEPT !.args = args, !.runs = count, !.exit = "none", !.mine = FALSE,
                         !.at = at, !.fresh = FALSE, !.wrote = {}]
    BY <1>1
  <2>. HIDE DEF count, at
  <2>4. blocksTool' \in BlocksTools /\ blocksTool'.args = args /\ blocksTool'.runs = count
        /\ blocksTool'.exit = "none" /\ blocksTool'.fresh = FALSE /\ blocksTool'.wrote = {}
        /\ blocksTool'.at = at
    BY <1>2, <2>1, <2>2, <2>3 DEF BlocksInv, WorkspaceShapes, BlocksTools, Endings
  <2>. QED  BY <2>2, <2>4 DEF count
<1>6. UNCHANGED <<blocksDisk, pxtServer, blocksEditor>>  BY DEF Launch
<1>7. WorkspaceShapes'
  <2>1. blocksEditor.tabs \subseteq 1 .. blocksTool'.runs
    BY <1>3, <1>5 DEF BlocksInv, WorkspaceShapes
  <2>. QED  BY <1>5, <1>6, <2>1 DEF BlocksInv, WorkspaceShapes
<1>8. ScratchInv'  BY <1>5, <1>6 DEF BlocksInv, ScratchInv, Launch, On
<1>9. PhaseInv'
  <2>1. blocksTool'.runs # 0  BY <1>3, <1>5
  <2>. QED  BY <1>2, <1>5, <1>6, <2>1
    DEF BlocksInv, PhaseInv, Past, EndedWell, AfterLayout, AfterDependency, AfterHistory
<1>10. TabInv'
  <2>1. blocksTool'.runs \notin blocksEditor.tabs  BY <1>3, <1>5 DEF BlocksInv, WorkspaceShapes
  <2>. QED  BY <1>5, <1>6, <2>1 DEF BlocksInv, TabInv, Past, EndedWell, AfterHistory
<1>. QED  BY <1>7, <1>8, <1>9, <1>10 DEF BlocksInv

\* A run that ends badly leaves what the invariant says of the rest.
LEMMA Leaves_Keeps ==
  ASSUME BlocksInv, NEW how \in Endings, how # "ok", blocksTool.at # "starter", Exits(how),
         UNCHANGED <<blocksDisk, blocksEditor>>, pxtServer'.by \in {"nobody", "pxt", "stranger"}
  PROVE  BlocksInv'
<1>1. /\ blocksTool' \in BlocksTools /\ blocksTool'.at = "done" /\ blocksTool'.args = blocksTool.args
      /\ blocksTool'.runs = blocksTool.runs /\ blocksTool'.exit = how
  BY Ended DEF BlocksInv
<1>2. WorkspaceShapes'  BY <1>1 DEF BlocksInv, WorkspaceShapes
<1>3. ScratchInv'  BY <1>1 DEF BlocksInv, ScratchInv
<1>4. PhaseInv'
  BY <1>1 DEF BlocksInv, PhaseInv, Past, EndedWell, AfterLayout, AfterDependency, AfterHistory
<1>5. TabInv'  BY <1>1 DEF BlocksInv, TabInv, Past, EndedWell, AfterHistory
<1>. QED  BY <1>2, <1>3, <1>4, <1>5 DEF BlocksInv

LEMMA link_extension_Keeps ==
  ASSUME BlocksInv, link_extension
  PROVE  BlocksInv'
<1>. USE DEF OnDisk
<1>1. WorkspaceShapes /\ blocksTool.at = "link"  BY DEF BlocksInv, link_extension, On
<1>2. CASE blocksDisk.link = "directory"
  <2>1. Exits("refused") /\ UNCHANGED <<blocksDisk, pxtServer, blocksEditor>>
    BY <1>2 DEF link_extension
  <2>2. "refused" \in Endings /\ "refused" # "ok"  BY DEF Endings
  <2>3. pxtServer'.by \in {"nobody", "pxt", "stranger"}  BY <1>1, <2>1 DEF WorkspaceShapes
  <2>4. blocksTool.at # "starter"  BY <1>1
  <2>. QED  BY <2>1, <2>2, <2>3, <2>4, Leaves_Keeps
<1>3. CASE blocksDisk.link # "directory"
  <2>. DEFINE at == IF Adds THEN "has project" ELSE "make"
  <2>1. Then(at) /\ UNCHANGED <<pxtServer, blocksEditor>>
    BY <1>3 DEF link_extension, Adds
  <2>2. at \in BlocksSteps /\ Adds \in BOOLEAN /\ at = IF Adds = TRUE THEN "has project" ELSE "make"
    BY <1>1, ThisProject DEF BlocksSteps
  <2>3. /\ blocksDisk' \in BlocksDisks /\ blocksDisk'.link = ".." /\ blocksDisk'.scratch = blocksDisk.scratch
        /\ blocksDisk'.own = blocksDisk.own
    BY <1>1, <1>3 DEF link_extension, WorkspaceShapes, BlocksDisks
  <2>. HIDE DEF at
  <2>4. /\ blocksTool' \in BlocksTools /\ blocksTool'.at = at /\ blocksTool'.args = blocksTool.args
        /\ blocksTool'.runs = blocksTool.runs /\ blocksTool'.exit = blocksTool.exit
        /\ blocksTool'.fresh = blocksTool.fresh /\ blocksTool'.wrote = blocksTool.wrote
    BY <1>1, <2>1, <2>2, StepTaken
  <2>5. WorkspaceShapes'  BY <2>1, <2>3, <2>4 DEF BlocksInv, WorkspaceShapes
  <2>6. ScratchInv'  BY <1>1, <2>2, <2>3, <2>4 DEF BlocksInv, ScratchInv
  <2>7. PhaseInv'
    BY <1>1, <2>2, <2>3, <2>4
    DEF BlocksInv, PhaseInv, Past, EndedWell, AfterLayout, AfterDependency, AfterHistory, Adds
  <2>8. TabInv'
    BY <1>1, <2>1, <2>2, <2>3, <2>4 DEF BlocksInv, TabInv, Past, EndedWell, AfterHistory, Adds
  <2>. QED  BY <2>5, <2>6, <2>7, <2>8 DEF BlocksInv
<1>. QED  BY <1>2, <1>3

LEMMA has_project_Keeps ==
  ASSUME BlocksInv, has_project
  PROVE  BlocksInv'
<1>1. /\ WorkspaceShapes /\ blocksTool.at = "has project"
      /\ blocksDisk' = blocksDisk /\ pxtServer' = pxtServer /\ blocksEditor' = blocksEditor
  BY DEF BlocksInv, has_project, On, OnDisk
<1>2. CASE Project.pxt = "none"
  <2>1. Exits("refused") /\ "refused" \in Endings /\ "refused" # "ok" /\ blocksTool.at # "starter"
    BY <1>1, <1>2 DEF has_project, Endings
  <2>2. pxtServer'.by \in {"nobody", "pxt", "stranger"}  BY <1>1 DEF WorkspaceShapes
  <2>. QED  BY <1>1, <2>1, <2>2, Leaves_Keeps
<1>3. CASE Project.pxt # "none"
  <2>1. Then("dependency") /\ "dependency" \in BlocksSteps  BY <1>3 DEF has_project, BlocksSteps
  <2>2. /\ blocksTool' \in BlocksTools /\ blocksTool'.at = "dependency" /\ blocksTool'.args = blocksTool.args
        /\ blocksTool'.runs = blocksTool.runs /\ blocksTool'.exit = blocksTool.exit
        /\ blocksTool'.fresh = blocksTool.fresh /\ blocksTool'.wrote = blocksTool.wrote
    BY <1>1, <2>1, StepTaken
  <2>3. WorkspaceShapes'  BY <1>1, <1>3, <2>2 DEF BlocksInv, WorkspaceShapes
  <2>4. ScratchInv'  BY <1>1, <1>3, <2>2 DEF BlocksInv, ScratchInv, Adds
  <2>5. PhaseInv'
    BY <1>1, <1>3, <2>2
    DEF BlocksInv, Project, Target, PhaseInv, Past, EndedWell, AfterLayout, AfterDependency, AfterHistory, Adds
  <2>6. TabInv'
    BY <1>1, <1>3, <2>2
    DEF BlocksInv, TabInv, Past, EndedWell, AfterHistory, Adds
  <2>. QED  BY <2>3, <2>4, <2>5, <2>6 DEF BlocksInv
<1>. QED  BY <1>2, <1>3

LEMMA make_directory_Keeps ==
  ASSUME BlocksInv, make_directory
  PROVE  BlocksInv'
<1>. DEFINE p == [Project EXCEPT !.there = TRUE]
            fresh == ~Project.there
            at == IF Starts(fresh, blocksTool.args.reset) THEN "starter" ELSE "pxt.json"
<1>1. /\ WorkspaceShapes /\ blocksTool.at = "make" /\ Write(p)
      /\ pxtServer' = pxtServer /\ blocksEditor' = blocksEditor
      /\ blocksTool' = [blocksTool EXCEPT !.fresh = fresh, !.at = at]
  BY DEF BlocksInv, make_directory, On, OnDisk
<1>2. Adds = FALSE /\ Project = blocksDisk.scratch /\ Project \in Projects
  BY <1>1, ThisProject DEF BlocksInv, PhaseInv
<1>3. /\ p \in Projects /\ p.there = TRUE /\ p.files = Project.files /\ p.pxt = Project.pxt
      /\ p.work = Project.work /\ p.lost = Project.lost /\ p.history = Project.history
      /\ p.cutShort = Project.cutShort
  BY <1>2 DEF Projects
<1>4. fresh \in BOOLEAN /\ (fresh = TRUE <=> Project.there = FALSE)  BY <1>2 DEF Projects
<1>5. /\ at \in BlocksSteps
      /\ at = IF fresh = TRUE \/ blocksTool.args.reset = TRUE THEN "starter" ELSE "pxt.json"
  <2>1. blocksTool.args.reset \in BOOLEAN  BY <1>1 DEF WorkspaceShapes, BlocksTools, BlocksLines
  <2>. QED  BY <1>4, <2>1 DEF BlocksSteps, Starts
<1>. HIDE DEF p, fresh, at
<1>6. /\ blocksTool' \in BlocksTools /\ blocksTool'.at = at /\ blocksTool'.args = blocksTool.args
      /\ blocksTool'.runs = blocksTool.runs /\ blocksTool'.exit = blocksTool.exit
      /\ blocksTool'.fresh = fresh /\ blocksTool'.wrote = blocksTool.wrote
  BY <1>1, <1>4, <1>5 DEF WorkspaceShapes, BlocksTools
<1>7. /\ blocksDisk' \in BlocksDisks /\ blocksDisk'.link = blocksDisk.link
      /\ blocksDisk'.scratch = p /\ blocksDisk'.own = blocksDisk.own
  BY <1>1, <1>2, <1>3, ProjectWritten
<1>8. WorkspaceShapes'  BY <1>1, <1>2, <1>3, <1>4, <1>5, <1>6, <1>7 DEF BlocksInv, WorkspaceShapes
<1>9. ScratchInv'  BY <1>1, <1>2, <1>3, <1>4, <1>5, <1>6, <1>7 DEF BlocksInv, ScratchInv, Adds
<1>10. PhaseInv'
  BY <1>1, <1>2, <1>3, <1>4, <1>5, <1>6, <1>7
  DEF BlocksInv, Project, Target, PhaseInv, Past, EndedWell, AfterLayout, AfterDependency, AfterHistory, Adds
<1>11. TabInv'
  BY <1>1, <1>2, <1>3, <1>4, <1>5, <1>6, <1>7
  DEF BlocksInv, TabInv, Past, EndedWell, AfterHistory, Adds
<1>. QED  BY <1>8, <1>9, <1>10, <1>11 DEF BlocksInv

LEMMA starter_file_Keeps ==
  ASSUME BlocksInv, starter_file
  PROVE  BlocksInv'
<1>1. PICK file \in Listed :
        /\ file \notin blocksTool.wrote
        /\ Write([Project EXCEPT !.files = @ \cup {file},
                                 !.work = @ /\ file # "main.blocks",
                                 !.lost = @ \/ (file = "main.blocks" /\ Project.work /\ ~blocksTool.args.reset)])
        /\ blocksTool' = [blocksTool EXCEPT !.wrote = IF @ \cup {file} = Listed THEN {} ELSE @ \cup {file},
                            !.at = IF blocksTool.wrote \cup {file} = Listed THEN "pxt.json" ELSE @]
  BY DEF starter_file
<1>. DEFINE files == Project.files \cup {file}
            work == Project.work /\ file # "main.blocks"
            lost == Project.lost \/ (file = "main.blocks" /\ Project.work /\ ~blocksTool.args.reset)
            p == [Project EXCEPT !.files = files, !.work = work, !.lost = lost]
            all == blocksTool.wrote \cup {file}
            wrote == IF all = Listed THEN {} ELSE all
            at == IF all = Listed THEN "pxt.json" ELSE "starter"
<1>2. /\ WorkspaceShapes /\ blocksTool.at = "starter" /\ Write(p)
      /\ pxtServer' = pxtServer /\ blocksEditor' = blocksEditor
      /\ blocksTool' = [blocksTool EXCEPT !.wrote = wrote, !.at = at]
  BY <1>1 DEF BlocksInv, starter_file, On, OnDisk
<1>3. Adds = FALSE /\ Project = blocksDisk.scratch /\ Project \in Projects
  BY <1>2, ThisProject DEF BlocksInv, PhaseInv
<1>4. /\ Project.files \subseteq Listed /\ Project.work \in BOOLEAN /\ Project.lost = FALSE
      /\ Project.there = TRUE /\ blocksTool.wrote \subseteq Project.files
      /\ Project.work = TRUE => "main.blocks" \in Project.files
      /\ blocksTool.fresh = TRUE \/ blocksTool.args.reset = TRUE
      /\ blocksTool.fresh = TRUE => Project.files = blocksTool.wrote
  BY <1>2, <1>3 DEF BlocksInv, ScratchInv, Projects
<1>5. /\ files \in SUBSET Listed /\ all \subseteq files /\ all \in SUBSET Listed
      /\ blocksTool.fresh = TRUE => files = all
      /\ Project.files = Listed => files = Listed
  BY <1>1, <1>4
<1>6. work \in BOOLEAN /\ (work = TRUE => "main.blocks" \in files)  BY <1>4
<1>7. lost = FALSE
  <2>1. CASE blocksTool.fresh = TRUE
    <3>1. file = "main.blocks" => Project.work = FALSE  BY <1>1, <1>4, <2>1
    <3>. QED  BY <1>4, <3>1
  <2>. QED  BY <1>4, <2>1
<1>8. at \in BlocksSteps /\ wrote \in SUBSET Listed
      /\ (all = Listed => at = "pxt.json") /\ (all # Listed => at = "starter" /\ wrote = all)
  BY <1>5 DEF BlocksSteps
<1>. HIDE DEF files, work, lost
<1>9. /\ p \in Projects /\ p.there = TRUE /\ p.files = files /\ p.pxt = Project.pxt
      /\ p.work = work /\ p.lost = FALSE /\ p.history = Project.history
      /\ p.cutShort = Project.cutShort
  BY <1>3, <1>4, <1>5, <1>6, <1>7 DEF Projects
<1>. HIDE DEF p, wrote, at, all
<1>10. /\ blocksTool' \in BlocksTools /\ blocksTool'.at = at /\ blocksTool'.args = blocksTool.args
       /\ blocksTool'.runs = blocksTool.runs /\ blocksTool'.exit = blocksTool.exit
       /\ blocksTool'.fresh = blocksTool.fresh /\ blocksTool'.wrote = wrote
  BY <1>2, <1>8 DEF WorkspaceShapes, BlocksTools
<1>11. /\ blocksDisk' \in BlocksDisks /\ blocksDisk'.link = blocksDisk.link
       /\ blocksDisk'.scratch = p /\ blocksDisk'.own = blocksDisk.own
  BY <1>2, <1>3, <1>9, ProjectWritten
<1>12. files = Listed \/ p.cutShort = TRUE \/ (at = "starter" /\ blocksTool.fresh = TRUE)
  <2>1. \/ Project.files = Listed \/ Project.cutShort = TRUE \/ blocksTool.fresh = TRUE
    BY <1>3, <1>4 DEF BlocksInv, ScratchInv
  <2>. QED  BY <1>5, <1>8, <1>9, <2>1
<1>13. WorkspaceShapes'  BY <1>2, <1>10, <1>11 DEF WorkspaceShapes
<1>14. ScratchInv'
  BY <1>2, <1>3, <1>4, <1>5, <1>6, <1>8, <1>9, <1>10, <1>11, <1>12 DEF BlocksInv, ScratchInv
<1>15. PhaseInv'
  BY <1>2, <1>3, <1>8, <1>9, <1>10, <1>11
  DEF BlocksInv, PhaseInv, Past, EndedWell, AfterLayout, AfterDependency, AfterHistory, Adds
<1>16. TabInv'
  BY <1>2, <1>3, <1>8, <1>9, <1>10, <1>11
  DEF BlocksInv, TabInv, Past, EndedWell, AfterHistory, Adds
<1>. QED  BY <1>13, <1>14, <1>15, <1>16 DEF BlocksInv

\* A step from one of the layout's stages to the next: what it writes keeps
\* what the scratch project's invariant says of its files.
LEMMA Writes_Keeps ==
  ASSUME BlocksInv, NEW p \in Projects, Write(p), NEW at \in BlocksSteps, Then(at), OnDisk,
         /\ p.there = Project.there /\ p.files = Project.files /\ p.work = Project.work
         /\ p.lost = Project.lost /\ p.cutShort = Project.cutShort,
         Adds = TRUE /\ p.pxt # "none" => Project.pxt # "none",
         blocksTool.at \in {"pxt.json"} \cup (AfterLayout \ {"serve", "open", "serving"}),
         at \in AfterLayout \ {"open", "serving"}, at = "serve" => Adds = FALSE /\ p.installed = TRUE,
         p.pxt # "none", at \in AfterDependency => p.pxt = "whole" /\ p.dep = "link",
         at \in AfterHistory /\ Adds = FALSE =>
           \/ p.history = FALSE
           \/ blocksTool.at \in AfterHistory /\ p.history = Project.history
  PROVE  BlocksInv'
<1>1. /\ WorkspaceShapes /\ pxtServer' = pxtServer /\ blocksEditor' = blocksEditor
  BY DEF BlocksInv, OnDisk
<1>2. /\ blocksTool' \in BlocksTools /\ blocksTool'.at = at /\ blocksTool'.args = blocksTool.args
      /\ blocksTool'.runs = blocksTool.runs /\ blocksTool'.exit = blocksTool.exit
      /\ blocksTool'.fresh = blocksTool.fresh /\ blocksTool'.wrote = blocksTool.wrote
  BY <1>1, StepTaken
<1>3. /\ blocksDisk' \in BlocksDisks /\ blocksDisk'.link = blocksDisk.link
      /\ Adds = FALSE => blocksDisk'.scratch = p /\ blocksDisk'.own = blocksDisk.own
      /\ Adds = TRUE => blocksDisk'.own = p /\ blocksDisk'.scratch = blocksDisk.scratch
  BY <1>1, ProjectWritten
<1>4. /\ Adds \in BOOLEAN /\ Project \in Projects /\ Adds' = Adds
      /\ Adds = FALSE => Project = blocksDisk.scratch
      /\ Adds = TRUE => Project = blocksDisk.own
  BY <1>1, <1>2, ThisProject DEF Adds
<1>5. Project' = p
  BY <1>2, <1>3, <1>4 DEF Project, Target, Adds
<1>6. blocksTool.at # "starter" /\ at \notin {"starter", "link", "make", "done", "stop", "has project", "pxt.json"}
      /\ blocksTool.at # "done"
  BY DEF AfterLayout, AfterDependency, AfterHistory
<1>7. WorkspaceShapes'  BY <1>1, <1>2, <1>3 DEF WorkspaceShapes
<1>8. ScratchInv'
  <2>1. CASE Adds = FALSE  BY <1>2, <1>3, <1>4, <1>6, <2>1 DEF BlocksInv, ScratchInv
  <2>2. CASE Adds = TRUE  BY <1>2, <1>3, <1>4, <1>6, <2>2 DEF BlocksInv, ScratchInv
  <2>. QED  BY <1>4, <2>1, <2>2
<1>9. PhaseInv'
  BY <1>2, <1>3, <1>4, <1>5, <1>6
  DEF BlocksInv, PhaseInv, Past, EndedWell, AfterLayout, AfterDependency, AfterHistory
<1>10. TabInv'
  <2>1. blocksTool.at \notin {"done", "serving"}
        /\ (blocksTool.at \in AfterHistory => blocksTool.at \in AfterHistory \ {"serving"})
        /\ (at \in AfterHistory \ {"serving"} => at \in AfterHistory)
        /\ at \notin {"done", "serving"}
    BY DEF AfterLayout, AfterDependency, AfterHistory
  <2>2. at \in AfterHistory \ {"serving"} /\ Adds = FALSE /\ blocksEditor.tabs = {}
          => blocksDisk'.scratch.history = FALSE
    BY <1>3, <1>4, <2>1 DEF BlocksInv, TabInv
  <2>3. blocksEditor.tabs = {} => blocksEditor.store = "none"  BY DEF BlocksInv, TabInv
  <2>4. blocksTool.runs \notin blocksEditor.tabs  BY <2>1 DEF BlocksInv, TabInv
  <2>. QED  BY <1>1, <1>2, <1>4, <2>1, <2>2, <2>3, <2>4 DEF TabInv, Past, EndedWell
<1>. QED  BY <1>7, <1>8, <1>9, <1>10 DEF BlocksInv

LEMMA pxt_json_Keeps ==
  ASSUME BlocksInv, pxt_json
  PROVE  BlocksInv'
<1>. DEFINE p == IF Project.pxt = "none" THEN [Project EXCEPT !.pxt = "whole", !.dep = "none"] ELSE Project
<1>1. WorkspaceShapes /\ blocksTool.at = "pxt.json" /\ Write(p) /\ Then("dependency") /\ OnDisk
  BY DEF BlocksInv, pxt_json, On
<1>2. Adds = FALSE /\ Project \in Projects  BY <1>1, ThisProject DEF BlocksInv, PhaseInv
<1>3. /\ p \in Projects /\ p.there = Project.there /\ p.files = Project.files /\ p.work = Project.work
      /\ p.lost = Project.lost /\ p.cutShort = Project.cutShort /\ p.pxt # "none"
  <2>. DEFINE new == [Project EXCEPT !.pxt = "whole", !.dep = "none"]
  <2>1. /\ new \in Projects /\ new.there = Project.there /\ new.files = Project.files /\ new.work = Project.work
        /\ new.lost = Project.lost /\ new.cutShort = Project.cutShort /\ new.pxt # "none"
    BY <1>2 DEF Projects
  <2>2. p = IF Project.pxt = "none" THEN new ELSE Project  OBVIOUS
  <2>. HIDE DEF p, new
  <2>. QED  BY <1>2, <2>1, <2>2
<1>4. /\ "dependency" \in BlocksSteps /\ "dependency" \notin AfterDependency /\ "dependency" \notin AfterHistory
      /\ "dependency" \in AfterLayout \ {"open", "serving"}
      /\ blocksTool.at \in {"pxt.json"} \cup (AfterLayout \ {"serve", "open", "serving"})
  BY <1>1 DEF BlocksSteps, AfterLayout, AfterDependency, AfterHistory
<1>. HIDE DEF p
<1>. QED  BY <1>1, <1>2, <1>3, <1>4, Writes_Keeps

LEMMA set_dependency_Keeps ==
  ASSUME BlocksInv, set_dependency
  PROVE  BlocksInv'
<1>1. WorkspaceShapes /\ blocksTool.at = "dependency" /\ OnDisk /\ Project \in Projects /\ Project.pxt # "none"
  BY ThisProject DEF BlocksInv, set_dependency, On, PhaseInv, Past, AfterLayout
<1>2. CASE Project.pxt = "torn"
  <2>1. Exits("traceback") /\ UNCHANGED blocksDisk /\ UNCHANGED <<pxtServer, blocksEditor>>
    BY <1>1, <1>2 DEF set_dependency, OnDisk
  <2>2. "traceback" \in Endings /\ "traceback" # "ok" /\ blocksTool.at # "starter"  BY <1>1 DEF Endings
  <2>3. pxtServer'.by \in {"nobody", "pxt", "stranger"}  BY <1>1, <2>1 DEF WorkspaceShapes
  <2>. QED  BY <2>1, <2>2, <2>3, Leaves_Keeps
<1>3. CASE Project.pxt # "torn" /\ Project.dep = "link"
  <2>1. Then("history") /\ UNCHANGED blocksDisk  BY <1>3 DEF set_dependency, Points
  <2>2. Project.pxt = "whole"  BY <1>1, <1>3 DEF Projects
  <2>3. /\ blocksTool' \in BlocksTools /\ blocksTool'.at = "history" /\ blocksTool'.args = blocksTool.args
        /\ blocksTool'.runs = blocksTool.runs /\ blocksTool'.exit = blocksTool.exit
        /\ blocksTool'.fresh = blocksTool.fresh /\ blocksTool'.wrote = blocksTool.wrote
    BY <1>1, <2>1, StepTaken DEF BlocksSteps
  <2>4. blocksDisk' = blocksDisk /\ pxtServer' = pxtServer /\ blocksEditor' = blocksEditor
    BY <1>1, <2>1 DEF OnDisk
  <2>5. Project' = Project /\ Adds' = Adds  BY <2>3, <2>4 DEF Project, Target, Adds
  <2>6. WorkspaceShapes'  BY <2>3, <2>4 DEF BlocksInv, WorkspaceShapes
  <2>7. ScratchInv'  BY <1>1, <2>3, <2>4 DEF BlocksInv, ScratchInv
  <2>8. PhaseInv'
    BY <1>1, <1>3, <2>2, <2>3, <2>4, <2>5
    DEF BlocksInv, PhaseInv, Past, EndedWell, AfterLayout, AfterDependency, AfterHistory
  <2>9. TabInv'
    BY <1>1, <2>3, <2>4, <2>5 DEF BlocksInv, TabInv, Past, EndedWell, AfterHistory
  <2>. QED  BY <2>6, <2>7, <2>8, <2>9 DEF BlocksInv
<1>4. CASE Project.pxt # "torn" /\ Project.dep # "link"
  <2>. DEFINE p == [Project EXCEPT !.pxt = "torn"]
  <2>1. Write(p) /\ Then("rewriting")  BY <1>4 DEF set_dependency, Points
  <2>2. /\ p \in Projects /\ p.there = Project.there /\ p.files = Project.files /\ p.work = Project.work
        /\ p.lost = Project.lost /\ p.cutShort = Project.cutShort /\ p.pxt # "none"
    BY <1>1 DEF Projects
  <2>3. /\ "rewriting" \in BlocksSteps /\ "rewriting" \notin AfterDependency /\ "rewriting" \notin AfterHistory
        /\ "rewriting" \in AfterLayout \ {"open", "serving"}
        /\ blocksTool.at \in {"pxt.json"} \cup (AfterLayout \ {"serve", "open", "serving"})
    BY <1>1 DEF BlocksSteps, AfterLayout, AfterDependency, AfterHistory
  <2>. HIDE DEF p
  <2>. QED  BY <1>1, <2>1, <2>2, <2>3, Writes_Keeps
<1>. QED  BY <1>2, <1>3, <1>4

LEMMA rewritten_Keeps ==
  ASSUME BlocksInv, rewritten
  PROVE  BlocksInv'
<1>. DEFINE p == [Project EXCEPT !.pxt = "whole", !.dep = "link", !.installed = FALSE]
<1>1. WorkspaceShapes /\ blocksTool.at = "rewriting" /\ Write(p) /\ Then("history") /\ OnDisk
  BY DEF BlocksInv, rewritten, On
<1>2. Project \in Projects /\ Project.pxt # "none"
  BY <1>1, ThisProject DEF BlocksInv, PhaseInv, Past, AfterLayout
<1>3. /\ p \in Projects /\ p.there = Project.there /\ p.files = Project.files /\ p.work = Project.work
      /\ p.lost = Project.lost /\ p.cutShort = Project.cutShort /\ p.pxt = "whole" /\ p.dep = "link"
  BY <1>2 DEF Projects
<1>4. /\ "history" \in BlocksSteps /\ "history" \notin AfterHistory /\ p.pxt # "none"
      /\ "history" \in AfterLayout \ {"open", "serving"}
      /\ blocksTool.at \in {"pxt.json"} \cup (AfterLayout \ {"serve", "open", "serving"})
  BY <1>1, <1>3 DEF BlocksSteps, AfterLayout, AfterDependency, AfterHistory
<1>. HIDE DEF p
<1>. QED  BY <1>1, <1>2, <1>3, <1>4, Writes_Keeps

LEMMA clear_history_Keeps ==
  ASSUME BlocksInv, clear_history
  PROVE  BlocksInv'
<1>. DEFINE p == IF Adds THEN Project ELSE [Project EXCEPT !.history = FALSE]
<1>1. WorkspaceShapes /\ blocksTool.at = "history" /\ Write(p) /\ Then("install") /\ OnDisk
  BY DEF BlocksInv, clear_history, On, Adds
<1>2. Adds \in BOOLEAN /\ Project \in Projects /\ Project.pxt = "whole" /\ Project.dep = "link"
  BY <1>1, ThisProject DEF BlocksInv, PhaseInv, Past, AfterDependency
<1>3. /\ p \in Projects /\ p.there = Project.there /\ p.files = Project.files /\ p.work = Project.work
      /\ p.lost = Project.lost /\ p.cutShort = Project.cutShort /\ p.pxt = "whole" /\ p.dep = "link"
      /\ Adds = FALSE => p.history = FALSE
  <2>. DEFINE new == [Project EXCEPT !.history = FALSE]
  <2>1. /\ new \in Projects /\ new.there = Project.there /\ new.files = Project.files /\ new.work = Project.work
        /\ new.lost = Project.lost /\ new.cutShort = Project.cutShort /\ new.pxt = "whole" /\ new.dep = "link"
        /\ new.history = FALSE
    BY <1>2 DEF Projects
  <2>2. p = IF Adds THEN Project ELSE new  OBVIOUS
  <2>. HIDE DEF p, new
  <2>3. p = IF Adds = TRUE THEN Project ELSE new  BY <1>2, <2>2
  <2>. QED  BY <1>2, <2>1, <2>3
<1>4. /\ "install" \in BlocksSteps /\ p.pxt # "none" /\ Project.pxt # "none"
      /\ "install" \in AfterLayout \ {"open", "serving"}
      /\ blocksTool.at \in {"pxt.json"} \cup (AfterLayout \ {"serve", "open", "serving"})
  BY <1>1, <1>2, <1>3 DEF BlocksSteps, AfterLayout, AfterDependency, AfterHistory
<1>. HIDE DEF p
<1>. QED  BY <1>1, <1>2, <1>3, <1>4, Writes_Keeps

LEMMA pxt_install_Keeps ==
  ASSUME BlocksInv, pxt_install
  PROVE  BlocksInv'
<1>1. /\ WorkspaceShapes /\ blocksTool.at = "install" /\ OnDisk /\ Adds \in BOOLEAN
      /\ Project \in Projects /\ Project.pxt = "whole" /\ Project.dep = "link"
      /\ blocksDisk.link = ".." /\ (Adds = FALSE => blocksDisk.scratch.there = TRUE)
  BY ThisProject DEF BlocksInv, pxt_install, On, PhaseInv, Past, AfterLayout, AfterDependency, AfterHistory
<1>2. CASE Exits("install failed") /\ UNCHANGED blocksDisk
  <2>1. Exits("install failed") /\ UNCHANGED <<blocksDisk, blocksEditor>> /\ pxtServer' = pxtServer
    BY <1>1, <1>2 DEF OnDisk
  <2>2. "install failed" \in Endings /\ "install failed" # "ok" /\ blocksTool.at # "starter"
    BY <1>1 DEF Endings
  <2>3. pxtServer'.by \in {"nobody", "pxt", "stranger"}  BY <1>1, <2>1 DEF WorkspaceShapes
  <2>. QED  BY <2>1, <2>2, <2>3, Leaves_Keeps
<1>3. CASE Write([Project EXCEPT !.installed = TRUE]) /\ (IF Adds THEN Exits("ok") ELSE Then("serve"))
  <2>. DEFINE p == [Project EXCEPT !.installed = TRUE]
  <2>1. /\ p \in Projects /\ p.there = Project.there /\ p.files = Project.files /\ p.work = Project.work
        /\ p.lost = Project.lost /\ p.cutShort = Project.cutShort /\ p.pxt = "whole" /\ p.dep = "link"
        /\ p.installed = TRUE /\ p.history = Project.history
    BY <1>1 DEF Projects
  <2>2. Write(p)  BY <1>3
  <2>. HIDE DEF p
  <2>3. CASE Adds = FALSE
    <3>1. Then("serve")  BY <1>3, <2>3
    <3>2. /\ "serve" \in BlocksSteps /\ p.pxt # "none" /\ Project.pxt # "none"
          /\ "serve" \in AfterLayout \ {"open", "serving"} /\ blocksTool.at \in AfterHistory
          /\ blocksTool.at \in {"pxt.json"} \cup (AfterLayout \ {"serve", "open", "serving"})
      BY <1>1, <2>1 DEF BlocksSteps, AfterLayout, AfterDependency, AfterHistory
    <3>. QED  BY <1>1, <2>1, <2>2, <2>3, <3>1, <3>2, Writes_Keeps
  <2>4. CASE Adds = TRUE
    <3>1. Exits("ok") /\ "ok" \in Endings  BY <1>3, <2>4 DEF Endings
    <3>2. /\ blocksTool' \in BlocksTools /\ blocksTool'.at = "done" /\ blocksTool'.args = blocksTool.args
          /\ blocksTool'.runs = blocksTool.runs /\ blocksTool'.exit = "ok"
          /\ blocksTool'.fresh = blocksTool.fresh /\ blocksTool'.wrote = blocksTool.wrote
      BY <1>1, <3>1, Ended
    <3>3. /\ blocksDisk' \in BlocksDisks /\ blocksDisk'.link = blocksDisk.link
          /\ blocksDisk'.own = p /\ blocksDisk'.scratch = blocksDisk.scratch
          /\ pxtServer' = pxtServer /\ blocksEditor' = blocksEditor
      BY <1>1, <2>1, <2>2, <2>4, ProjectWritten DEF OnDisk
    <3>4. Adds' = TRUE /\ Project = blocksDisk.own /\ Project' = p
      BY <1>1, <2>4, <3>2, <3>3, ThisProject DEF Project, Target, Adds
    <3>5. WorkspaceShapes'  BY <1>1, <3>2, <3>3 DEF WorkspaceShapes
    <3>6. ScratchInv'
      <4>1. p.files = Listed  BY <1>1, <2>1, <3>4 DEF BlocksInv, ScratchInv
      <4>. QED  BY <1>1, <3>2, <3>3, <4>1 DEF BlocksInv, ScratchInv
    <3>7. PhaseInv'
      BY <1>1, <2>1, <3>2, <3>3, <3>4
      DEF BlocksInv, PhaseInv, Past, EndedWell, AfterLayout, AfterDependency, AfterHistory
    <3>8. TabInv'
      BY <1>1, <3>2, <3>3, <3>4 DEF BlocksInv, TabInv, Past, EndedWell, AfterHistory
    <3>. QED  BY <3>5, <3>6, <3>7, <3>8 DEF BlocksInv
  <2>. QED  BY <1>1, <2>3, <2>4
<1>. QED  BY <1>1, <1>2, <1>3 DEF pxt_install, Adds

-----------------------------------------------------------------------------
(* The server and the tab.                                                  *)

\* The step of a run that finds a server or starts one.
LEMMA Serves_Keeps ==
  ASSUME BlocksInv, blocksTool.at = "serve", NEW mine \in BOOLEAN,
         blocksTool' = [blocksTool EXCEPT !.at = "open", !.mine = mine],
         UNCHANGED <<blocksDisk, blocksEditor>>, pxtServer'.by \in {"nobody", "pxt", "stranger"}
  PROVE  BlocksInv'
<1>1. /\ blocksTool' \in BlocksTools /\ blocksTool'.at = "open" /\ blocksTool'.args = blocksTool.args
      /\ blocksTool'.runs = blocksTool.runs /\ blocksTool'.exit = blocksTool.exit
  BY DEF BlocksInv, WorkspaceShapes, BlocksTools, BlocksSteps
<1>2. Project' = Project /\ Adds' = Adds  BY <1>1 DEF Project, Target, Adds
<1>3. WorkspaceShapes'  BY <1>1 DEF BlocksInv, WorkspaceShapes
<1>4. ScratchInv'  BY <1>1 DEF BlocksInv, ScratchInv
<1>5. PhaseInv'
  BY <1>1, <1>2 DEF BlocksInv, PhaseInv, Past, EndedWell, AfterLayout, AfterDependency, AfterHistory
<1>6. TabInv'  BY <1>1, <1>2 DEF BlocksInv, TabInv, Past, EndedWell, AfterHistory
<1>. QED  BY <1>3, <1>4, <1>5, <1>6 DEF BlocksInv

LEMMA reuse_server_Keeps ==
  ASSUME BlocksInv, reuse_server
  PROVE  BlocksInv'
<1>1. blocksTool.at = "serve" /\ blocksTool \in BlocksTools /\ Then("open")
      /\ UNCHANGED <<blocksDisk, blocksEditor>> /\ pxtServer'.by \in {"nobody", "pxt", "stranger"}
  BY DEF BlocksInv, WorkspaceShapes, reuse_server, On
<1>2. blocksTool.mine \in BOOLEAN
      /\ blocksTool' = [blocksTool EXCEPT !.at = "open", !.mine = blocksTool.mine]
  BY <1>1 DEF BlocksTools, Then
<1>. QED  BY <1>1, <1>2, Serves_Keeps

LEMMA start_server_Keeps ==
  ASSUME BlocksInv, start_server
  PROVE  BlocksInv'
<1>1. blocksTool.at = "serve" /\ UNCHANGED <<blocksDisk, blocksEditor>> /\ WorkspaceShapes
  BY DEF BlocksInv, start_server, On
<1>2. CASE \E token \in BOOLEAN :
             /\ pxtServer' = [by |-> "pxt", token |-> token]
             /\ blocksTool' = [blocksTool EXCEPT !.at = "open", !.mine = TRUE]
  <2>1. pxtServer'.by \in {"nobody", "pxt", "stranger"}  BY <1>2
  <2>2. TRUE \in BOOLEAN /\ blocksTool' = [blocksTool EXCEPT !.at = "open", !.mine = TRUE]  BY <1>2
  <2>. QED  BY <1>1, <2>1, <2>2, Serves_Keeps
<1>3. CASE Exits("never opened") /\ UNCHANGED pxtServer
  <2>1. "never opened" \in Endings /\ "never opened" # "ok" /\ blocksTool.at # "starter"
    BY <1>1 DEF Endings
  <2>2. pxtServer'.by \in {"nobody", "pxt", "stranger"}  BY <1>1, <1>3 DEF WorkspaceShapes
  <2>. QED  BY <1>1, <1>3, <2>1, <2>2, Leaves_Keeps
<1>. QED  BY <1>2, <1>3 DEF start_server

LEMMA FirstMany ==
  \A n \in Int : n >= 1 => Cardinality(1 .. n) = n
<1>. TAKE n \in Int
<1>1. Cardinality(1 .. n) = IF 1 > n THEN 0 ELSE n - 1 + 1  BY FS_Interval
<1>. QED  BY <1>1

\* Whether or not the server said its token, the page that stays is the one
\* on the file system.
LEMMA LastIsOnDisk ==
  ASSUME NEW token
  PROVE  LastPage(Pages(token)) = "fs"
<1>1. CASE token
  <2>1. Pages(token) = <<"token", "fs">>  BY <1>1 DEF Pages
  <2>2. DOMAIN <<"token", "fs">> = 1 .. 2  OBVIOUS
  <2>3. Cardinality(1 .. 2) = 2
    <3>1. 2 \in Int /\ 2 >= 1  OBVIOUS
    <3>. QED  BY <3>1, FirstMany, Zenon
  <2>4. LastPage(Pages(token)) = <<"token", "fs">>[2]  BY <2>1, <2>2, <2>3 DEF LastPage
  <2>. QED  BY <2>4
<1>2. CASE ~token
  <2>1. Pages(token) = <<"fs">>  BY <1>2 DEF Pages
  <2>2. DOMAIN <<"fs">> = 1 .. 1  OBVIOUS
  <2>3. Cardinality(1 .. 1) = 1
    <3>1. 1 \in Int /\ 1 >= 1  OBVIOUS
    <3>. QED  BY <3>1, FirstMany, Zenon
  <2>4. LastPage(Pages(token)) = <<"fs">>[1]  BY <2>1, <2>2, <2>3 DEF LastPage
  <2>. QED  BY <2>4
<1>. QED  BY <1>1, <1>2

LEMMA open_editor_Keeps ==
  ASSUME BlocksInv, open_editor
  PROVE  BlocksInv'
<1>. DEFINE opened == blocksEditor.tabs \cup {blocksTool.runs}
            behind == pxtServer.by
            store == IF behind # "pxt" THEN "none"
                     ELSE IF blocksDisk.scratch.history THEN "memory" ELSE "disk"
            at == IF blocksTool.mine THEN "serving" ELSE "done"
            exit == IF blocksTool.mine THEN blocksTool.exit ELSE "ok"
<1>1. /\ WorkspaceShapes /\ blocksTool.at = "open" /\ blocksDisk' = blocksDisk /\ pxtServer' = pxtServer
      /\ blocksTool.args.open \in BOOLEAN /\ blocksTool.mine \in BOOLEAN /\ Adds = FALSE
      /\ blocksTool.runs \in 0 .. BlocksRuns /\ blocksDisk.scratch.history \in BOOLEAN
      /\ blocksTool.exit \in Endings /\ blocksTool.exit # "ok"
  BY DEF BlocksInv, WorkspaceShapes, BlocksTools, BlocksLines, BlocksDisks, Projects, open_editor, On, PhaseInv
<1>2. /\ blocksTool.args.open = FALSE => blocksEditor' = blocksEditor
      /\ blocksTool.args.open = TRUE => blocksEditor' = [store |-> store, behind |-> behind, tabs |-> opened]
  <2>. DEFINE token == blocksTool.mine /\ pxtServer.token
              kept == CASE behind # "pxt" -> "none"
                        [] LastPage(Pages(token)) = "token" -> "browser"
                        [] OTHER -> IF blocksDisk.scratch.history THEN "memory" ELSE "disk"
              new == [store |-> kept, behind |-> behind, tabs |-> opened]
  <2>1. IF blocksTool.args.open THEN blocksEditor' = new ELSE UNCHANGED blocksEditor
    BY DEF open_editor
  <2>2. LastPage(Pages(token)) = "fs"  BY LastIsOnDisk
  <2>3. kept = store
    <3>1. "fs" # "token"  OBVIOUS
    <3>. HIDE DEF token, behind
    <3>. QED  BY <2>2, <3>1
  <2>4. new = [store |-> store, behind |-> behind, tabs |-> opened]  BY <2>3
  <2>. HIDE DEF new, kept, token, store, behind, opened
  <2>. QED  BY <1>1, <2>1, <2>4
<1>3. /\ blocksTool' \in BlocksTools /\ blocksTool'.at = at /\ blocksTool'.args = blocksTool.args
      /\ blocksTool'.runs = blocksTool.runs /\ blocksTool'.exit = exit
  <2>1. CASE blocksTool.mine = TRUE
    <3>1. Then("serving") /\ "serving" \in BlocksSteps  BY <2>1 DEF open_editor, BlocksSteps
    <3>. QED  BY <1>1, <2>1, <3>1, StepTaken
  <2>2. CASE blocksTool.mine = FALSE
    <3>1. Exits("ok") /\ "ok" \in Endings  BY <2>2 DEF open_editor, Endings
    <3>. QED  BY <1>1, <2>2, <3>1, Ended
  <2>. QED  BY <1>1, <2>1, <2>2
<1>4. /\ (at = "serving" /\ exit # "ok") \/ (at = "done" /\ exit = "ok")
      /\ blocksDisk.scratch.history = FALSE /\ behind = "pxt" => store = "disk"
  <2>1. (at = "serving" /\ exit # "ok") \/ (at = "done" /\ exit = "ok")  BY <1>1
  <2>2. blocksDisk.scratch.history = FALSE /\ behind = "pxt" => store = "disk"  OBVIOUS
  <2>. QED  BY <2>1, <2>2
<1>5. Project' = Project /\ Adds' = FALSE  BY <1>1, <1>3 DEF Project, Target, Adds
<1>6. blocksTool.runs \notin blocksEditor.tabs
      /\ (blocksEditor.tabs = {} => blocksDisk.scratch.history = FALSE /\ blocksEditor.store = "none")
  BY <1>1 DEF BlocksInv, TabInv, AfterHistory
<1>. HIDE DEF at, exit, store, behind
<1>7. WorkspaceShapes'
  <2>1. 0 \notin opened
    <3>1. blocksTool.runs # 0  BY <1>1 DEF BlocksInv, PhaseInv
    <3>. QED  BY <1>1, <3>1 DEF WorkspaceShapes
  <2>2. opened \subseteq 1 .. blocksTool.runs  BY <1>1, <2>1, BlocksConstants DEF WorkspaceShapes
  <2>. HIDE DEF opened
  <2>3. CASE blocksTool.args.open = FALSE  BY <1>1, <1>2, <1>3, <2>3 DEF WorkspaceShapes
  <2>4. CASE blocksTool.args.open = TRUE
    <3>1. blocksEditor' = [store |-> store, behind |-> behind, tabs |-> opened]  BY <1>2, <2>4
    <3>2. blocksEditor' = [store |-> blocksEditor'.store, behind |-> blocksEditor'.behind,
                           tabs |-> blocksEditor'.tabs]
          /\ blocksEditor'.tabs = opened
      BY <3>1
    <3>. QED  BY <1>1, <1>3, <2>2, <3>2 DEF WorkspaceShapes
  <2>. QED  BY <1>1, <2>3, <2>4
<1>8. ScratchInv'  BY <1>1, <1>3, <1>4 DEF BlocksInv, ScratchInv
<1>9. PhaseInv'
  BY <1>1, <1>3, <1>4, <1>5 DEF BlocksInv, PhaseInv, Past, EndedWell, AfterLayout, AfterDependency, AfterHistory
<1>10. TabInv'
  <2>1. CASE blocksTool.args.open = FALSE
    BY <1>1, <1>2, <1>3, <1>4, <1>5, <2>1 DEF BlocksInv, TabInv, Past, EndedWell, AfterHistory
  <2>2. CASE blocksTool.args.open = TRUE
    <3>1. blocksEditor'.store = store /\ blocksEditor'.behind = behind /\ blocksEditor'.tabs = opened
      BY <1>2, <2>2
    <3>2. opened # {}  OBVIOUS
    <3>3. opened = {blocksTool.runs} => blocksEditor.tabs = {}  BY <1>6
    <3>. HIDE DEF opened
    <3>4. opened = {blocksTool.runs} /\ behind = "pxt" => store = "disk"  BY <1>4, <1>6, <3>3
    <3>. QED  BY <1>3, <1>4, <3>1, <3>2, <3>4 DEF TabInv, Past, EndedWell, AfterHistory
  <2>. QED  BY <1>1, <2>1, <2>2
<1>. QED  BY <1>7, <1>8, <1>9, <1>10 DEF BlocksInv

\* A run that has its server ends well, in whatever way.
LEMMA Served_Keeps ==
  ASSUME BlocksInv, blocksTool.at \in {"serving", "stop"}, Exits("ok"),
         UNCHANGED <<blocksDisk, blocksEditor>>, pxtServer'.by \in {"nobody", "pxt", "stranger"}
  PROVE  BlocksInv'
<1>1. /\ blocksTool' \in BlocksTools /\ blocksTool'.at = "done" /\ blocksTool'.args = blocksTool.args
      /\ blocksTool'.runs = blocksTool.runs /\ blocksTool'.exit = "ok"
  BY Ended DEF BlocksInv, Endings
<1>2. Project' = Project /\ Adds' = Adds  BY <1>1 DEF Project, Target, Adds
<1>3. WorkspaceShapes'  BY <1>1 DEF BlocksInv, WorkspaceShapes
<1>4. ScratchInv'  BY <1>1 DEF BlocksInv, ScratchInv
<1>5. PhaseInv'
  BY <1>1, <1>2 DEF BlocksInv, PhaseInv, Past, EndedWell, AfterLayout, AfterDependency, AfterHistory
<1>6. TabInv'  BY <1>1, <1>2 DEF BlocksInv, TabInv, Past, EndedWell, AfterHistory
<1>. QED  BY <1>3, <1>4, <1>5, <1>6 DEF BlocksInv

LEMMA left_serving_Keeps ==
  ASSUME BlocksInv, left_serving
  PROVE  BlocksInv'
<1>1. /\ blocksTool.at = "serving" /\ Exits("ok") /\ UNCHANGED <<blocksDisk, blocksEditor>>
      /\ pxtServer'.by \in {"nobody", "pxt", "stranger"}
  BY DEF BlocksInv, WorkspaceShapes, left_serving, On
<1>. QED  BY <1>1, Served_Keeps

LEMMA stop_server_Keeps ==
  ASSUME BlocksInv, stop_server
  PROVE  BlocksInv'
<1>1. /\ blocksTool.at = "stop" /\ Exits("ok") /\ UNCHANGED <<blocksDisk, blocksEditor>>
      /\ pxtServer'.by \in {"nobody", "pxt", "stranger"}
  BY DEF stop_server, On
<1>. QED  BY <1>1, Served_Keeps

LEMMA pxt_ends_Keeps ==
  ASSUME BlocksInv, pxt_ends
  PROVE  BlocksInv'
<1>1. /\ UNCHANGED <<blocksDisk, blocksEditor>> /\ pxtServer'.by \in {"nobody", "pxt", "stranger"}
  BY DEF pxt_ends
<1>2. CASE blocksTool.at = "serving"
  <2>1. Exits("ok")  BY <1>2 DEF pxt_ends, On
  <2>. QED  BY <1>1, <1>2, <2>1, Served_Keeps
<1>3. CASE blocksTool.at # "serving"
  <2>1. blocksTool' = blocksTool  BY <1>3 DEF pxt_ends, On
  <2>2. Project' = Project /\ Adds' = Adds  BY <1>1, <2>1 DEF Project, Target, Adds
  <2>3. WorkspaceShapes'  BY <1>1, <2>1 DEF BlocksInv, WorkspaceShapes
  <2>4. ScratchInv'  BY <1>1, <2>1 DEF BlocksInv, ScratchInv
  <2>5. PhaseInv'
    BY <1>1, <2>1, <2>2 DEF BlocksInv, PhaseInv, Past, EndedWell, AfterLayout, AfterDependency, AfterHistory
  <2>6. TabInv'  BY <1>1, <2>1, <2>2 DEF BlocksInv, TabInv, Past, EndedWell, AfterHistory
  <2>. QED  BY <2>3, <2>4, <2>5, <2>6 DEF BlocksInv
<1>. QED  BY <1>2, <1>3

\* Cut short while it makes a fresh project, a run leaves that mark on it.
LEMMA interrupt_Keeps ==
  ASSUME BlocksInv, interrupt
  PROVE  BlocksInv'
<1>1. /\ blocksTool.at # "done" /\ blocksEditor' = blocksEditor /\ WorkspaceShapes
      /\ pxtServer'.by \in {"nobody", "pxt", "stranger"}
  BY DEF BlocksInv, WorkspaceShapes, interrupt, On
<1>2. CASE blocksTool.at = "serving"
  <2>1. Exits("ok") /\ UNCHANGED <<blocksDisk, blocksEditor>>  BY <1>1, <1>2 DEF interrupt, On
  <2>. QED  BY <1>1, <1>2, <2>1, Served_Keeps
<1>3. CASE blocksTool.at # "serving"
  <2>1. Exits("interrupted") /\ "interrupted" \in Endings /\ "interrupted" # "ok"
    BY <1>3 DEF interrupt, On, Endings
  <2>2. CASE blocksTool.at # "starter"
    <3>1. UNCHANGED <<blocksDisk, blocksEditor>>  BY <1>1, <2>2 DEF interrupt, On
    <3>. QED  BY <1>1, <2>1, <2>2, <3>1, Leaves_Keeps
  <2>3. CASE blocksTool.at = "starter"
    <3>1. /\ blocksTool' \in BlocksTools /\ blocksTool'.at = "done" /\ blocksTool'.args = blocksTool.args
          /\ blocksTool'.runs = blocksTool.runs /\ blocksTool'.exit = "interrupted"
      BY <1>1, <2>1, Ended
    <3>2. /\ Adds = FALSE /\ Target = "scratch" /\ blocksTool.fresh \in BOOLEAN
          /\ blocksDisk \in BlocksDisks /\ blocksDisk.scratch \in Projects
      BY <1>1, <2>3 DEF BlocksInv, PhaseInv, Adds, Target, WorkspaceShapes, BlocksDisks, BlocksTools
    <3>3. /\ blocksDisk' \in BlocksDisks /\ blocksDisk'.link = blocksDisk.link /\ blocksDisk'.own = blocksDisk.own
          /\ blocksDisk'.scratch.there = blocksDisk.scratch.there
          /\ blocksDisk'.scratch.files = blocksDisk.scratch.files
          /\ blocksDisk'.scratch.work = blocksDisk.scratch.work
          /\ blocksDisk'.scratch.lost = blocksDisk.scratch.lost
          /\ \/ blocksDisk'.scratch.cutShort = TRUE
             \/ blocksTool.fresh = FALSE /\ blocksDisk' = blocksDisk
      <4>1. CASE blocksTool.fresh = FALSE
        <5>1. blocksDisk' = blocksDisk  BY <4>1 DEF interrupt
        <5>. QED  BY <3>2, <4>1, <5>1
      <4>2. CASE blocksTool.fresh = TRUE
        <5>. DEFINE cut == [blocksDisk.scratch EXCEPT !.cutShort = TRUE]
        <5>1. blocksDisk' = [blocksDisk EXCEPT !["scratch"] = cut]
          BY <2>3, <3>2, <4>2 DEF interrupt, On
        <5>2. /\ cut \in Projects /\ cut.there = blocksDisk.scratch.there
              /\ cut.files = blocksDisk.scratch.files /\ cut.work = blocksDisk.scratch.work
              /\ cut.lost = blocksDisk.scratch.lost /\ cut.cutShort = TRUE
          BY <3>2 DEF Projects
        <5>. HIDE DEF cut
        <5>3. /\ blocksDisk' \in BlocksDisks /\ blocksDisk'.scratch = cut
              /\ blocksDisk'.link = blocksDisk.link /\ blocksDisk'.own = blocksDisk.own
          BY <3>2, <5>1, <5>2 DEF BlocksDisks
        <5>. QED  BY <5>2, <5>3
      <4>. QED  BY <3>2, <4>1, <4>2
    <3>4. WorkspaceShapes'  BY <1>1, <3>1, <3>3 DEF WorkspaceShapes
    <3>5. ScratchInv'  BY <2>3, <3>1, <3>3 DEF BlocksInv, ScratchInv
    <3>6. PhaseInv'
      BY <2>3, <3>1, <3>3 DEF BlocksInv, PhaseInv, Past, EndedWell, AfterLayout, AfterDependency, AfterHistory
    <3>7. TabInv'  BY <1>1, <2>3, <3>1, <3>3 DEF BlocksInv, TabInv, Past, EndedWell, AfterHistory
    <3>. QED  BY <3>4, <3>5, <3>6, <3>7 DEF BlocksInv
  <2>. QED  BY <2>2, <2>3
<1>. QED  BY <1>2, <1>3

-----------------------------------------------------------------------------
(* The user and the editor.                                                 *)

LEMMA edit_Keeps ==
  ASSUME BlocksInv, edit
  PROVE  BlocksInv'
<1>. DEFINE s == blocksDisk.scratch
            work == "main.blocks" \in s.files
            new == [s EXCEPT !.work = work, !.history = TRUE]
<1>1. /\ WorkspaceShapes /\ blocksEditor.store = "disk" /\ s.there = TRUE /\ s \in Projects /\ blocksDisk \in BlocksDisks
      /\ UNCHANGED <<pxtServer, blocksEditor, blocksTool>>
  BY DEF BlocksInv, WorkspaceShapes, BlocksDisks, Projects, edit
<1>2. blocksDisk' = [blocksDisk EXCEPT !["scratch"] = new]  BY DEF edit
<1>3. work \in BOOLEAN /\ (work = TRUE => "main.blocks" \in s.files)  OBVIOUS
<1>. HIDE DEF work
<1>4. /\ new \in Projects /\ new.there = TRUE /\ new.files = s.files /\ new.work = work
      /\ new.lost = s.lost /\ new.cutShort = s.cutShort /\ new.pxt = s.pxt /\ new.dep = s.dep
      /\ new.installed = s.installed
  BY <1>1, <1>3 DEF Projects
<1>. HIDE DEF new
<1>5. /\ blocksDisk' \in BlocksDisks /\ blocksDisk'.scratch = new
      /\ blocksDisk'.link = blocksDisk.link /\ blocksDisk'.own = blocksDisk.own
  BY <1>1, <1>2, <1>4 DEF BlocksDisks
<1>6. Adds' = Adds /\ Project'.pxt = Project.pxt /\ Project'.dep = Project.dep
      /\ Project'.installed = Project.installed
  BY <1>1, <1>4, <1>5 DEF Adds, Project, Target
<1>7. blocksEditor.tabs # {}  BY <1>1 DEF BlocksInv, TabInv
<1>8. WorkspaceShapes'  BY <1>1, <1>5 DEF WorkspaceShapes
<1>9. ScratchInv'  BY <1>1, <1>3, <1>4, <1>5 DEF BlocksInv, ScratchInv
<1>10. PhaseInv'
  BY <1>1, <1>4, <1>5, <1>6 DEF BlocksInv, PhaseInv, Past, EndedWell, AfterLayout, AfterDependency, AfterHistory
<1>11. TabInv'  BY <1>1, <1>6, <1>7 DEF BlocksInv, TabInv, Past, EndedWell, AfterHistory
<1>. QED  BY <1>8, <1>9, <1>10, <1>11 DEF BlocksInv

LEMMA close_tabs_Keeps ==
  ASSUME BlocksInv, close_tabs
  PROVE  BlocksInv'
<1>1. /\ WorkspaceShapes /\ blocksTool.at = "done" /\ UNCHANGED <<blocksDisk, pxtServer, blocksTool>>
      /\ blocksEditor' = [store |-> "none", behind |-> "nobody", tabs |-> {}]
  BY DEF BlocksInv, close_tabs, On
<1>2. blocksEditor'.store = "none" /\ blocksEditor'.tabs = {}
      /\ blocksEditor' = [store |-> blocksEditor'.store, behind |-> blocksEditor'.behind,
                         tabs |-> blocksEditor'.tabs]
  BY <1>1
<1>3. Adds' = Adds /\ Project' = Project  BY <1>1 DEF Adds, Project, Target
<1>4. WorkspaceShapes'  BY <1>1, <1>2 DEF WorkspaceShapes
<1>5. ScratchInv'  BY <1>1 DEF BlocksInv, ScratchInv
<1>6. PhaseInv'
  BY <1>1, <1>3 DEF BlocksInv, PhaseInv, Past, EndedWell, AfterLayout, AfterDependency, AfterHistory
<1>7. TabInv'  BY <1>1, <1>2, <1>3 DEF BlocksInv, TabInv, Past, EndedWell, AfterHistory
<1>. QED  BY <1>4, <1>5, <1>6, <1>7 DEF BlocksInv

LEMMA BlocksStutter_Keeps ==
  ASSUME BlocksInv, UNCHANGED blocksVars
  PROVE  BlocksInv'
<1>1. UNCHANGED <<blocksDisk, pxtServer, blocksEditor, blocksTool>>  BY DEF blocksVars
<1>2. Adds' = Adds /\ Project' = Project  BY <1>1 DEF Adds, Project, Target
<1>3. WorkspaceShapes'  BY <1>1 DEF BlocksInv, WorkspaceShapes
<1>4. ScratchInv'  BY <1>1 DEF BlocksInv, ScratchInv
<1>5. PhaseInv'
  BY <1>1, <1>2 DEF BlocksInv, PhaseInv, Past, EndedWell, AfterLayout, AfterDependency, AfterHistory
<1>6. TabInv'  BY <1>1, <1>2 DEF BlocksInv, TabInv, Past, EndedWell, AfterHistory
<1>. QED  BY <1>3, <1>4, <1>5, <1>6 DEF BlocksInv

-----------------------------------------------------------------------------

(* What the scratch project, the browser's storage and the run under way    *)
(* owe each other holds after every step of blocks_env.py, of pxt serve, of *)
(* the editor and of the user, whenever a run is interrupted.               *)
THEOREM BlocksInductive == BlocksSpec => []BlocksInv
<1>1. BlocksInit => BlocksInv  BY BlocksInit_Holds
<1>2. BlocksInv /\ [BlocksNext]_blocksVars => BlocksInv'
  BY Launch_Keeps, link_extension_Keeps, has_project_Keeps, make_directory_Keeps, starter_file_Keeps,
     pxt_json_Keeps, set_dependency_Keeps, rewritten_Keeps, clear_history_Keeps, pxt_install_Keeps,
     reuse_server_Keeps, start_server_Keeps, open_editor_Keeps, interrupt_Keeps, left_serving_Keeps,
     pxt_ends_Keeps, stop_server_Keeps, edit_Keeps, close_tabs_Keeps, BlocksStutter_Keeps
  DEF BlocksNext
<1>. QED  BY <1>1, <1>2, PTL DEF BlocksSpec

(* What a run has written, the tabs and the runs keep their ranges.         *)
THEOREM BlocksTypesHold == BlocksSpec => []BlocksTypeOK
<1>1. BlocksInv => BlocksTypeOK
  <2>. SUFFICES ASSUME BlocksInv  PROVE BlocksTypeOK  OBVIOUS
  <2>1. /\ blocksDisk \in BlocksDisks /\ blocksTool \in BlocksTools
        /\ pxtServer.by \in {"nobody", "pxt", "stranger"}
        /\ blocksEditor.tabs \subseteq 1 .. blocksTool.runs
    BY DEF BlocksInv, WorkspaceShapes
  <2>2. blocksDisk.scratch \in Projects /\ blocksDisk.own \in Projects
        /\ blocksDisk.link \in {"none", "..", "elsewhere", "directory"}
    BY <2>1 DEF BlocksDisks
  <2>3. \A p \in Both : blocksDisk[p].files \subseteq Listed /\ blocksDisk[p].pxt \in {"none", "torn", "whole"}
    BY <2>2 DEF Both, Projects
  <2>4. blocksTool.wrote \subseteq Listed /\ blocksTool.runs \in 0 .. BlocksRuns  BY <2>1 DEF BlocksTools
  <2>5. blocksEditor.tabs \subseteq 1 .. BlocksRuns  BY <2>1, <2>4, BlocksConstants
  <2>. QED  BY <2>1, <2>2, <2>3, <2>4, <2>5 DEF BlocksTypeOK
<1>. QED  BY <1>1, BlocksInductive, PTL

(* A run that ends well leaves a complete project linked to the checkout,   *)
(* no blocks the user made are lost unless a reset is asked for, and the    *)
(* tab a run opened on a pxt serve saves to disk: for any command lines,    *)
(* any layouts of the disk and any number of runs.  A tab opened on another *)
(* program that holds the port is outside, as it is for the code.           *)
THEOREM WorkspaceHolds == BlocksSpec => []WorkspaceIsSound
<1>1. BlocksInv => WorkspaceIsSound
  <2>. SUFFICES ASSUME BlocksInv  PROVE WorkspaceIsSound  OBVIOUS
  <2>1. WorkspaceShapes /\ Adds \in BOOLEAN /\ blocksTool.args.stop \in BOOLEAN /\ blocksTool.args.open \in BOOLEAN
        /\ (Adds = FALSE => Project = blocksDisk.scratch) /\ (Adds = TRUE => Project = blocksDisk.own)
    BY ThisProject DEF BlocksInv, WorkspaceShapes, BlocksTools, BlocksLines
  <2>2. Ready => Past({"serving"})
    BY <2>1 DEF Ready, On, Past, EndedWell, BlocksInv, PhaseInv
  <2>3. ProjectIsComplete
    <3>. SUFFICES ASSUME Past({"serving"})
         PROVE  /\ blocksDisk.link = ".." /\ Project.pxt = "whole" /\ Project.dep = "link"
                /\ Project.installed /\ (Project.files = Listed \/ Project.cutShort)
      BY <2>2 DEF ProjectIsComplete
    <3>1. /\ blocksDisk.link = ".." /\ Project.pxt = "whole" /\ Project.dep = "link"
          /\ Project.installed = TRUE /\ (Adds = FALSE => blocksDisk.scratch.there = TRUE)
      BY DEF BlocksInv, PhaseInv, Past, EndedWell, AfterLayout, AfterDependency, AfterHistory
    <3>2. blocksTool.at # "starter"  BY DEF Past, EndedWell
    <3>3. Project.files = Listed \/ Project.cutShort = TRUE
      BY <2>1, <3>1, <3>2 DEF BlocksInv, ScratchInv
    <3>. QED  BY <3>1, <3>3
  <2>4. NoWorkIsLost  BY DEF NoWorkIsLost, BlocksInv, ScratchInv
  <2>5. SavesReachDisk
    <3>. SUFFICES ASSUME Ready, blocksTool.args.open, ~blocksTool.args.add,
                         blocksEditor.tabs = {blocksTool.runs} /\ blocksEditor.behind = "pxt"
                  PROVE  blocksEditor.store = "disk"
      BY DEF SavesReachDisk
    <3>1. Past({"serving"}) /\ blocksTool.args.open = TRUE /\ Adds = FALSE
      BY <2>1, <2>2 DEF Adds
    <3>. QED  BY <3>1 DEF BlocksInv, TabInv
  <2>. QED  BY <2>3, <2>4, <2>5 DEF WorkspaceIsSound
<1>. QED  BY <1>1, BlocksInductive, PTL

-----------------------------------------------------------------------------
(* gen_config_field_enum.py.  Content means that the enum is the rendering  *)
(* of a table the generator did not refuse.                                 *)

FieldRows == Seq([name : STRING, ord : Nat, ts : STRING])

EnumInv ==
    /\ tables = [header |-> tables.header, csv |-> tables.csv] /\ tables.header \in FieldRows
    /\ blockSources = [enum |-> blockSources.enum, groups |-> blockSources.groups,
                       subs |-> blockSources.subs, notes |-> blockSources.notes]
    /\ genTool = [at |-> genTool.at, left |-> genTool.left, did |-> genTool.did, runs |-> genTool.runs]
    /\ genTool.did = "enum ok" =>
         ~Unreadable(tables.header) /\ blockSources.enum = render_enum(tables.header)

LEMMA EnumRendered ==
  ASSUME NEW rows \in FieldRows, NEW enum, ~Unreadable(rows), enum = render_enum(rows)
  PROVE  /\ \A i \in DOMAIN rows : \E k \in DOMAIN enum : enum[k] = <<rows[i].ts, rows[i].ord>>
         /\ Len(enum) = Len(rows)
         /\ \A i, k \in DOMAIN enum : i # k => enum[i][1] # enum[k][1] /\ enum[i][2] # enum[k][2]
<1>1. DOMAIN rows = 1 .. Len(rows) /\ Len(rows) \in Nat
  BY DEF FieldRows
<1>2. enum = [i \in DOMAIN rows |-> <<rows[i].ts, rows[i].ord>>]
  BY DEF render_enum
<1>3. DOMAIN enum = DOMAIN rows
  BY <1>2
<1>4. Len(enum) = Len(rows)
  BY <1>1, <1>2
<1>5. \A i \in DOMAIN rows : enum[i] = <<rows[i].ts, rows[i].ord>>
  BY <1>2
<1>6. \A i \in DOMAIN rows : enum[i][1] = rows[i].ts /\ enum[i][2] = rows[i].ord
  BY <1>5
<1>7. ASSUME NEW i \in DOMAIN rows, NEW k \in DOMAIN rows, i # k
      PROVE  rows[i].ts # rows[k].ts /\ rows[i].ord # rows[k].ord
  <2>1. ~Repeats(rows, "ts") /\ ~Repeats(rows, "ord")
    BY DEF Unreadable, Duplicates
  <2> QED BY <1>7, <2>1 DEF Repeats
<1>8. \A i, k \in DOMAIN enum : i # k => enum[i][1] # enum[k][1] /\ enum[i][2] # enum[k][2]
  BY <1>3, <1>6, <1>7
<1> QED BY <1>3, <1>4, <1>5, <1>8

LEMMA EnumHolds == GenSpec => []EnumInv
<1>1. GenInit => EnumInv
  BY GenAssumption DEF GenInit, EnumInv, FieldRows
<1>2. ASSUME EnumInv, [GenNext]_genVars
      PROVE  EnumInv'
  <2>1. ASSUME NEW check \in BOOLEAN, Generate(check)
        PROVE  EnumInv'
    <3>1. CASE Unreadable(tables.header)
      BY <1>2, <2>1, <3>1 DEF Generate, EnumInv
    <3>2. CASE ~Unreadable(tables.header)
      <4>1. CASE render_enum(tables.header) = blockSources.enum
        BY <1>2, <2>1, <3>2, <4>1 DEF Generate, EnumInv
      <4>2. CASE render_enum(tables.header) # blockSources.enum /\ check
        BY <1>2, <2>1, <3>2, <4>2 DEF Generate, EnumInv
      <4>3. CASE render_enum(tables.header) # blockSources.enum /\ ~check
        BY <1>2, <2>1, <3>2, <4>3 DEF Generate, EnumInv
      <4> QED BY <4>1, <4>2, <4>3
    <3> QED BY <3>1, <3>2
  <2>2. ASSUME NEW check \in BOOLEAN, StartToolbox(check)
        PROVE  EnumInv'
    BY <1>2, <2>2 DEF StartToolbox, EnumInv
  <2>3. CASE ApplyFile
    BY <1>2, <2>3 DEF ApplyFile, EnumInv
  <2>4. CASE ApplyNamespace
    BY <1>2, <2>4 DEF ApplyNamespace, EnumInv
  <2>5. CASE StoppedShort
    BY <1>2, <2>5 DEF StoppedShort, EnumInv
  <2>6. CASE EditTables
    <3>1. /\ tables'.header \in FieldRows /\ tables' = [header |-> tables'.header, csv |-> tables'.csv]
          /\ genTool'.did = "edited" /\ blockSources' = blockSources
          /\ genTool' = [at |-> genTool'.at, left |-> genTool'.left, did |-> genTool'.did, runs |-> genTool'.runs]
      BY <1>2, <2>6, GenAssumption DEF EditTables, EnumInv, FieldRows
    <3> QED BY <1>2, <3>1 DEF EnumInv
  <2>7. CASE UNCHANGED genVars
    BY <1>2, <2>7 DEF genVars, EnumInv
  <2> QED BY <1>2, <2>1, <2>2, <2>3, <2>4, <2>5, <2>6, <2>7 DEF GenNext
<1> QED BY <1>1, <1>2, PTL DEF GenSpec

(* Whenever the generator is content, by writing or by --check, the enum of *)
(* motion.ts is the table of config_fields.h: every field under its own     *)
(* ordinal, no two sharing one (gen_config_field_enum.py, parse_fields()).  *)
THEOREM EnumIsCurrent == GenSpec => []EnumIsTheTable
<1>1. EnumInv => EnumIsTheTable
  <2> SUFFICES ASSUME EnumInv, genTool.did = "enum ok"
               PROVE  EnumIsTheTable
    BY DEF EnumIsTheTable
  <2>1. tables.header \in FieldRows /\ ~Unreadable(tables.header)
        /\ blockSources.enum = render_enum(tables.header)
    BY DEF EnumInv
  <2> QED BY <2>1, EnumRendered DEF EnumIsTheTable
<1> QED BY <1>1, EnumHolds, PTL

===============================================================================
