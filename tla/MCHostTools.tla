---------------------------- MODULE MCHostTools ----------------------------
(* The programs of tools/, each on a small instance, and the rewiring that  *)
(* a host's SET asks of the board.  They share nothing: the variable        *)
(* program says which one a behaviour is of.                                *)
EXTENDS MakeDeploy, PublishExtension, WireAcceptance, TelemetryStream, FieldRuns, WifiProvisioning,
        RunReports, FieldGeometry, HostLinks, RogoLink, BenchMeasurements, BlocksWorkspace,
        GeneratedSources, BoardWiring

VARIABLE program
hostVars == <<program, deployVars, publishVars, suiteVars, tlmVars, fieldVars, wifiVars, reportVars,
              geometry, linkVars, rogoVars, benchVars, blocksVars, genVars,
              wiringVars>>

-----------------------------------------------------------------------------
(* make_deploy.py: five robots of the fleet and the command lines that      *)
(* differ in what is staged and refused.                                    *)

NoBake == [board |-> Absent, geometry |-> Absent, motors |-> Absent]
Plain == [file |-> "ok", channel |-> 60, group |-> 137, name |-> <<1, 3, 1, 1, 1>>,
          radioLink |-> FALSE, bake |-> NoBake]
FleetConfig ==
    [vevov |-> Plain,
     tovez |-> [Plain EXCEPT !.channel = 4, !.group = Absent, !.name = <<4, 1, 1, 3, 0>>,
                !.radioLink = TRUE,
                !.bake = [NoBake EXCEPT !.geometry = "retired key", !.motors = "wiring"]],
     gopiv |-> [Plain EXCEPT !.group = Absent, !.name = <<2, 1, 3, 2, 1>>,
                !.channel = DeriveRadio(<<2, 1, 3, 2, 1>>)[1]],
     cutebot |-> [Plain EXCEPT !.name = Absent,
                  !.bake = [NoBake EXCEPT !.board = "cutebot-pro", !.motors = "wiring"]],
     nobody |-> [Plain EXCEPT !.file = "missing"]]
Build(r) ==
    [robot |-> r, flash |-> TRUE, testrig |-> FALSE, program |-> "test",
     faultSpin |-> FALSE, noOtos |-> FALSE, suffix |-> "", radioLink |-> Absent,
     secrets |-> "present"]
CommandLines ==
    {Build(r) : r \in DOMAIN FleetConfig}
    \cup {[Build("vevov") EXCEPT !.noOtos = TRUE, !.suffix = "-diag"],
          [Build("tovez") EXCEPT !.faultSpin = TRUE],
          [Build("tovez") EXCEPT !.program = "linefollow", !.secrets = "absent"],
          [Build("vevov") EXCEPT !.testrig = TRUE, !.flash = FALSE],
          [Build("tovez") EXCEPT !.secrets = "malformed"],
          [Build("vevov") EXCEPT !.suffix = "too long"]}

(* publish_extension.py: the workflow, and a person who may skip checks.    *)
PublishOptions == [workflow |-> {{}}, desk |-> {{"allow dirty"}}]

(* wire_acceptance.py: --no-all-verbs and --only-all-verbs, which ask for  *)
(* every section between them.                                              *)
SuiteModes == {{"classic", "motion"}, {"all verbs", "motion", "estop"}}
SuiteErrCodes == {1, 6, 8, 12}

(* provision_wifi.py: the lists of slots a person provisions, one refused.  *)
Entry(verb, slot, cred) == [verb |-> verb, slot |-> slot, cred |-> cred]
Provisionings == {<<Entry("set", 0, "home"), Entry("set", 1, "long")>>, <<Entry("clear", 1, "empty")>>,
                  <<Entry("list", 0, "empty")>>, <<Entry("set", 1, "home")>>}

(* leg_analysis.py, tour_chart.py: what was recorded, with which columns,   *)
(* whether a fault is in it, what the odometry sensor does, how late the    *)
(* host reads.                                                              *)
CornerOfTour == <<100, 0>>
Setting(s, w, o, d) ==
    [faults |-> IF s = 1 /\ w = 1 THEN 1 ELSE 0, recorder |-> [schema |-> s, wheels |-> w],
     otos |-> o, delay |-> d]
Captures == {Setting(1, 1, "live", 0), Setting(1, 0, "frozen", 1), Setting(2, 0, "none", 0),
             Setting(3, 2, "live", 3), Setting(4, 0, "none", 1), Setting(0, 0, "live", 0)}

(* field.py, park.py: angles on both sides of every boundary, and parking   *)
(* places in front, behind, beside and on the robot.                        *)
Angles == {-361, -360, -270, -181, -180, -179, -90, -1, 0, 1, 90, 177, 179, 180, 181, 183, 270,
           359, 360, 363, 540}
Pose3(x, y, h) == [x |-> x, y |-> y, h |-> h]
StartPoses ==
    {Pose3(0, 0, h) : h \in {0, 1, -1, 2, 45, 89, 90, 91, 135, 179, 180, -179, -91, -90, -45}}
ParkGoals ==
    {Pose3(x, y, h) : x \in {-200, 0, 4, 6, 200}, y \in {-200, -5, 0, 4, 200}, h \in {0, 90, 180, -90}}
Near == {<<0, 40, 40>>, <<40, 2, 40>>, <<40, 40, 4>>, <<40, 40, 40>>, <<14, 40, 40>>}

(* camlink.py, field.py, tour_run.py: a calibration file of which one robot  *)
(* and the furniture miss fields, two entries sharing a tag; a path on and   *)
(* off a small rectangle, a degenerate one, and a third of mixed segments.   *)
MountEntry(tag, x, residual, complete) ==
    [tag |-> tag, x |-> x, residual |-> residual, complete |-> complete]
Calibrated ==
    [robots |-> [vevov |-> MountEntry(53, -3, 1, TRUE), tovez |-> MountEntry(100, -4, 0, TRUE),
                 gopiv |-> MountEntry(101, 0, 0, FALSE)],
     field |-> <<[tag |-> 1, x |-> 0, complete |-> TRUE], [tag |-> 53, x |-> 0, complete |-> TRUE],
                 [tag |-> 2, x |-> 0, complete |-> FALSE], [tag |-> 3, x |-> 5, complete |-> TRUE]>>]
Plates == {-2, 0, 1}
PathGrid == {<<0, 0>>, <<1, 0>>, <<8, 0>>, <<9, 7>>, <<4, 3>>}
Rectangles == {<<<<8, 6>>, <<0, 6>>, <<0, 0>>, <<8, 0>>, <<8, 6>>>>, <<<<3, 3>>, <<3, 3>>>>,
               <<<<1, 1>>, <<1, 1>>, <<5, 1>>>>}

(* robotlink.py, wifilink.py: two robots with an entry in the calibration   *)
(* file, one of them half an entry, and one without.                        *)
Flashed == [tovez |-> <<4, 60>>, vevov |-> <<37, 43>>, gopiv |-> <<5, 10>>]
RadioEntries ==
    [tovez |-> [channel |-> NoEntry, group |-> NoEntry], vevov |-> [channel |-> 37, group |-> 43],
     gopiv |-> [channel |-> 5, group |-> NoEntry]]

(* rogo: two clients; FUNCS is longer than the ring.                        *)
ClientInputs == ("c1" :> {<<"FUNCS">>, <<"MOVE_TO">>}) @@ ("c2" :> {<<"PING">>})
VerbReplies == [FUNCS |-> 3, PING |-> 1, MOVE_TO |-> 1]

(* The measuring tools, each with its shortest series.                      *)
Series(t, cells) == [tool |-> t, cells |-> cells]
AllSeries ==
    {Series("turn_sweep", <<180, -180>>), Series("pivot_truth", <<180, -180>>),
     Series("rotation_check", <<360, -180>>), Series("arc_capture", <<180>>),
     Series("otos_levercal", <<0>>)}
ArcPaths == {<<0, 90, 180>>, <<0, 180, 150, 170>>, <<0, 90, 180, 180, 181, 182, 183>>}

(* blocks_env.py: the plain call and one of each option.                    *)
PlainBlocks == [reset |-> FALSE, add |-> FALSE, open |-> TRUE, stop |-> FALSE]
BlocksCalls == {PlainBlocks, [PlainBlocks EXCEPT !.reset = TRUE], [PlainBlocks EXCEPT !.add = TRUE],
                [PlainBlocks EXCEPT !.open = FALSE], [PlainBlocks EXCEPT !.stop = TRUE]}

(* gen_config_field_enum.py, blocks_toolbox.py: tables with what the        *)
(* generators refuse in them, and layouts of three blocks in two files.     *)
FieldRow(n, o, t) == [name |-> n, ord |-> o, ts |-> t]
FieldHeaders ==
    {<<FieldRow("max_duty", 0, "MaxDuty"), FieldRow("kp", 3, "Kp")>>,
     <<FieldRow("max_duty", 0, "MaxDuty"), FieldRow("kp", 0, "Kp")>>,
     <<FieldRow("kp", 3, "Kp"), FieldRow("max_duty", 4, "MaxDuty")>>,
     <<FieldRow("kp", 3, "")>>, <<>>}
LayoutRow(f, c, co, g, go, o) ==
    [func |-> f, cat |-> c, catOrder |-> co, grp |-> g, grpOrder |-> go, order |-> o]
SourceFiles == ("motion.ts" :> {"move", "turn"}) @@ ("world.ts" :> {"goto"})
ToolboxCsvs ==
    {<<LayoutRow("goto", "Move", 1, gotoGrp, gotoGrpOrder, 1),
       LayoutRow("move", moveCat, moveCatOrder, "Drive", moveGrpOrder, 2),
       LayoutRow("turn", "Move", 1, "Drive", turnGrpOrder, 1)>> :
        gotoGrp \in {"GoTo", "Drive"}, gotoGrpOrder \in {Blank, 1, 2}, moveCat \in {"Move", "More"},
        moveCatOrder \in {1, 2}, moveGrpOrder \in {Blank, 1}, turnGrpOrder \in {1}}
    \cup {<<LayoutRow("move", "Move", 2, "A", Blank, 1), LayoutRow("turn", "More", 1, "B", Blank, 1)>>,
          <<LayoutRow("move", "Move", 1, "A", Blank, 1), LayoutRow("gone", "Move", 1, "A", Blank, 2)>>,
          <<>>}

(* configureMotor(): an exchange, a wheel reversed, a free port for either  *)
(* wheel, and a port that is none.                                          *)
MotorAt(side, port, sign) == [side |-> side, port |-> port, sign |-> sign]
WiringRequests == {MotorAt("left", 2, 1), MotorAt("right", 2, -1), MotorAt("left", 3, 1),
                   MotorAt("right", 3, 1), MotorAt("left", 5, 1)}

-----------------------------------------------------------------------------

Programs == {"make_deploy", "publish_extension", "wire_acceptance", "tlm", "field", "wifi",
             "reports", "geometry", "links", "tcp", "rogo", "bench", "blocks", "generated", "wiring"}

(* A program that does not run starts in one of its initial states.         *)
AtRest ==
    /\ IF program = "wifi" THEN TRUE ELSE creds = [s \in Slots |-> Empty]
    /\ IF program = "reports" THEN TRUE ELSE capture = Recording(CHOOSE c \in Captures : TRUE)
    /\ IF program = "links" THEN TRUE ELSE relayBoard = CHOOSE relay \in RelaySettings : TRUE
    /\ IF program = "bench" THEN TRUE ELSE bench = Begun(CHOOSE p \in AllSeries : TRUE)
    /\ IF program = "blocks" THEN TRUE
       ELSE blocksDisk = (CHOOSE d \in Disks : TRUE) /\ pxtServer = [by |-> "nobody", token |-> FALSE]
    /\ IF program = "generated" THEN TRUE
       ELSE tables = [header |-> CHOOSE h \in FieldHeaders : TRUE, csv |-> CHOOSE c \in ToolboxCsvs : TRUE]

HostInit ==
    /\ program \in Programs
    /\ AtRest
    /\ DeployInit /\ PublishInit /\ SuiteInit /\ TelemetryInit /\ FieldInit /\ WifiInit
    /\ ReportInit /\ GeometryInit /\ LinkInit /\ RogoInit /\ BenchInit /\ BlocksInit /\ GenInit /\ WiringInit
    /\ program = "tcp" \/ ~tcpServer.udpPeer

(* The others stay as they are while one program runs.                      *)
Runs(p) ==
    /\ program = p /\ UNCHANGED program
    /\ IF p = "make_deploy" THEN TRUE ELSE UNCHANGED deployVars
    /\ IF p = "publish_extension" THEN TRUE ELSE UNCHANGED publishVars
    /\ IF p = "wire_acceptance" THEN TRUE ELSE UNCHANGED suiteVars
    /\ IF p = "tlm" THEN TRUE ELSE UNCHANGED tlmVars
    /\ IF p = "field" THEN TRUE ELSE UNCHANGED fieldVars
    /\ IF p = "wifi" THEN TRUE ELSE UNCHANGED wifiVars
    /\ IF p = "reports" THEN TRUE ELSE UNCHANGED reportVars
    /\ IF p = "geometry" THEN TRUE ELSE UNCHANGED geometry
    /\ IF p = "links" THEN TRUE ELSE UNCHANGED linkVars
    /\ IF p \in {"tcp", "rogo"} THEN TRUE ELSE UNCHANGED rogoVars
    /\ IF p = "bench" THEN TRUE ELSE UNCHANGED benchVars
    /\ IF p = "blocks" THEN TRUE ELSE UNCHANGED blocksVars
    /\ IF p = "generated" THEN TRUE ELSE UNCHANGED genVars
    /\ IF p = "wiring" THEN TRUE ELSE UNCHANGED wiringVars

HostNext ==
    \/ Runs("make_deploy") /\ DeployNext
    \/ Runs("publish_extension") /\ PublishNext
    \/ Runs("wire_acceptance") /\ SuiteNext
    \/ Runs("tlm") /\ TelemetryNext
    \/ Runs("field") /\ FieldNext
    \/ Runs("wifi") /\ WifiNext
    \/ Runs("reports") /\ ReportNext
    \/ Runs("geometry") /\ GeometryNext
    \/ Runs("links") /\ LinkNext
    \/ Runs("tcp") /\ ServerNext
    \/ Runs("rogo") /\ PipeNext
    \/ Runs("bench") /\ BenchNext
    \/ Runs("blocks") /\ BlocksNext
    \/ Runs("generated") /\ GenNext
    \/ Runs("wiring") /\ WiringNext

HostSpec == HostInit /\ [][HostNext]_hostVars

-----------------------------------------------------------------------------
(* The types of the program's state.                                        *)
HostTypeOK ==
    CASE program = "make_deploy" -> DeployTypeOK
      [] program = "publish_extension" -> PublishTypeOK
      [] program = "wire_acceptance" -> SuiteTypeOK
      [] program = "tlm" -> TelemetryTypeOK
      [] program = "field" -> FieldTypeOK
      [] program = "wifi" -> WifiTypeOK
      [] program = "reports" -> ReportTypeOK
      [] program = "geometry" -> geometry.f \in {"none", "turn", "park", "track", "mount", "pose", "path"}
      [] program = "links" -> LinkTypeOK
      [] program \in {"tcp", "rogo"} -> RogoTypeOK
      [] program = "bench" -> BenchTypeOK
      [] program = "blocks" -> BlocksTypeOK
      [] program = "generated" -> GenTypeOK
      [] program = "wiring" -> WiringTypeOK

(* What the other tools write down: a path is scored against the rectangle  *)
(* that was driven, a bench tool reports what the robot did, the enum is    *)
(* its table and the flyouts are the layout.                                *)
OutputsAreFaithful ==
    PathsAreScored /\ MeasurementsAreSound /\ EnumIsTheTable /\ LayoutIsThePlan
=============================================================================
