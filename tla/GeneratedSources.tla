-------------------------- MODULE GeneratedSources --------------------------
(***************************************************************************)
(* The two programs that rewrite committed sources from a table:            *)
(* gen_config_field_enum.py puts the ConfigField enum of config_fields.h    *)
(* into motion.ts, and blocks_toolbox.py puts the layout of                 *)
(* blocks-toolbox.csv into the annotations of every blocks file.  Both      *)
(* tables are edited between the runs, and a toolbox run can stop between   *)
(* two files.  A generated part edited by hand is not modelled: the next    *)
(* run that is content has rewritten it, or found it as the table says.     *)
(***************************************************************************)
EXTENDS Naturals, FiniteSets, Sequences
LOCAL INSTANCE SequencesExt

CONSTANTS
    FieldTables,    \* contents of kConfigFields[]: rows [name, ord, ts], ts "" if unannotated
    Layouts,        \* contents of the CSV: rows [func, cat, catOrder, grp, grpOrder, order]
    Blank,          \* a Group Order left blank
    BlockFiles,     \* file -> the functions it declares; motion.ts is one
    GenRuns         \* runs and edits

ASSUME GenAssumption ==
    /\ "motion.ts" \in DOMAIN BlockFiles /\ GenRuns \in Nat
    /\ FieldTables \subseteq Seq([name : STRING, ord : Nat, ts : STRING])

VARIABLES
    tables,         \* the header and the CSV
    blockSources,   \* enum, namespace header, annotations
    genTool         \* the run

genVars == <<tables, blockSources, genTool>>

NoNote == [grp |-> "", sub |-> "", weight |-> 0]
Functions == UNION {BlockFiles[f] : f \in DOMAIN BlockFiles}

-----------------------------------------------------------------------------
(* gen_config_field_enum.py. *)

\* parse_fields(): what makes it refuse, and the rows of the enum.
Repeats(rows, column) ==
    \E i, j \in DOMAIN rows : i # j /\ rows[i][column] = rows[j][column]

\* Mutant: ordinals are not looked at.
Duplicates_NamesOnly(rows) == \E column \in {"name", "ts"} : Repeats(rows, column)
Duplicates(rows) == \E column \in {"name", "ord", "ts"} : Repeats(rows, column)
Unreadable(rows) == rows = <<>> \/ (\E i \in DOMAIN rows : rows[i].ts = "") \/ Duplicates(rows)
render_enum(rows) == [i \in DOMAIN rows |-> <<rows[i].ts, rows[i].ord>>]

Generate(check) ==
    /\ genTool.at = "idle" /\ genTool.runs < GenRuns
    /\ LET wanted == render_enum(tables.header)
           same == wanted = blockSources.enum
       IN IF Unreadable(tables.header)
            THEN genTool' = [genTool EXCEPT !.runs = @ + 1, !.did = "refused"] /\ UNCHANGED blockSources
            ELSE /\ genTool' = [genTool EXCEPT !.runs = @ + 1, !.did =
                                  IF same THEN "enum ok" ELSE IF check THEN "drifted" ELSE "enum ok"]
                 /\ blockSources' = IF check \/ same THEN blockSources ELSE [blockSources EXCEPT !.enum = wanted]
    /\ UNCHANGED tables

-----------------------------------------------------------------------------
(* blocks_toolbox.py. *)

Cats(rows) == {rows[i].cat : i \in DOMAIN rows}
Grps(rows, cat) == {rows[i].grp : i \in {j \in DOMAIN rows : rows[j].cat = cat}}
RowsOf(rows, cat, grp) == {i \in DOMAIN rows : rows[i].cat = cat /\ rows[i].grp = grp}
FirstRow(S) == CHOOSE i \in S : \A j \in S : i <= j
CatRow(rows, cat) == FirstRow({i \in DOMAIN rows : rows[i].cat = cat})
GrpRow(rows, cat, grp) == FirstRow(RowsOf(rows, cat, grp))

\* plan() and validate(): what makes them refuse.
Conflicts(rows) ==
    \E i, j \in DOMAIN rows :
        \/ rows[i].cat = rows[j].cat /\ rows[i].catOrder # rows[j].catOrder
        \/ rows[i].cat = rows[j].cat /\ rows[i].grp = rows[j].grp /\ rows[i].grpOrder # rows[j].grpOrder
        \/ rows[i].cat # rows[j].cat /\ rows[i].grp = rows[j].grp
        \/ i # j /\ rows[i].func = rows[j].func
        \/ i # j /\ rows[i].grp = rows[j].grp /\ rows[i].order = rows[j].order
Missing(rows) == {rows[i].func : i \in DOMAIN rows} \ Functions

\* sorted() is stable: ties go by the first row.
\* Mutant: the categories as the CSV lists them.
CatBefore_AsListed(rows, c, d) == CatRow(rows, c) < CatRow(rows, d)
CatBefore(rows, c, d) ==
    LET i == CatRow(rows, c)
        j == CatRow(rows, d)
    IN rows[i].catOrder < rows[j].catOrder \/ (rows[i].catOrder = rows[j].catOrder /\ i < j)
\* Mutant: a blank sorts with the zeros it is read as.
GrpKey_BlankFirst(order) == IF order = Blank THEN 0 ELSE order
GrpKey(order) == IF order = Blank THEN 1000 ELSE order
GrpBefore(rows, cat, g, h) ==
    LET i == GrpRow(rows, cat, g)
        j == GrpRow(rows, cat, h)
    IN \/ GrpKey(rows[i].grpOrder) < GrpKey(rows[j].grpOrder)
       \/ GrpKey(rows[i].grpOrder) = GrpKey(rows[j].grpOrder) /\ i < j

plan_cats(rows) == SetToSortSeq(Cats(rows), LAMBDA c, d : CatBefore(rows, c, d))
plan_groups(rows, cat) == SetToSortSeq(Grps(rows, cat), LAMBDA g, h : GrpBefore(rows, cat, g, h))
Members(rows, cat, grp) == SetToSortSeq(RowsOf(rows, cat, grp), LAMBDA i, j : rows[i].order < rows[j].order)
Groups(rows) == FlattenSeq([k \in DOMAIN plan_cats(rows) |-> plan_groups(rows, plan_cats(rows)[k])])
Ordered(rows) ==
    FlattenSeq([k \in DOMAIN plan_cats(rows) |->
        FlattenSeq([g \in DOMAIN plan_groups(rows, plan_cats(rows)[k]) |->
            Members(rows, plan_cats(rows)[k], plan_groups(rows, plan_cats(rows)[k])[g])])])
Top(rows) == plan_cats(rows)[1]

\* Higher weights are shown first.
\* Mutant: weights that grow with the position.
Weight_Rising(rows, pos) == pos * 10
Weight(rows, pos) == (Len(rows) - pos + 1) * 10

\* apply() to one file: the functions of the plan get the attributes the
\* program owns; others keep what they have.
Annotated(rows, file) ==
    [f \in Functions |->
        LET pos == {p \in DOMAIN rows : rows[Ordered(rows)[p]].func = f}
        IN IF f \notin BlockFiles[file] \/ pos = {} THEN blockSources.notes[f]
           ELSE LET p == FirstRow(pos)
                    r == rows[Ordered(rows)[p]]
                IN [grp |-> r.grp, weight |-> Weight(rows, p), sub |-> IF r.cat = Top(rows) THEN "" ELSE r.cat]]

StartToolbox(check) ==
    /\ genTool.at = "idle" /\ genTool.runs < GenRuns
    /\ genTool' =
         IF tables.csv = <<>> \/ Conflicts(tables.csv) \/ Missing(tables.csv) # {}
           THEN [genTool EXCEPT !.runs = @ + 1, !.did = "refused"]
         ELSE IF check THEN [genTool EXCEPT !.runs = @ + 1, !.did = "planned"]
         ELSE [genTool EXCEPT !.runs = @ + 1, !.at = "apply", !.left = DOMAIN BlockFiles, !.did = "begun"]
    /\ UNCHANGED <<tables, blockSources>>

ApplyFile ==
    /\ genTool.at = "apply"
    /\ \E file \in genTool.left :
         /\ blockSources' = [blockSources EXCEPT !.notes = Annotated(tables.csv, file)]
         /\ genTool' = [genTool EXCEPT !.left = @ \ {file}, !.at = IF genTool.left = {file} THEN "namespace" ELSE @]
    /\ UNCHANGED tables

ApplyNamespace ==
    /\ genTool.at = "namespace"
    /\ blockSources' = [blockSources EXCEPT !.groups = Groups(tables.csv),
                                            !.subs = Tail(plan_cats(tables.csv))]
    /\ genTool' = [genTool EXCEPT !.at = "idle", !.did = "layout ok"]
    /\ UNCHANGED tables

\* The run dies between two files.
StoppedShort ==
    /\ genTool.at # "idle"
    /\ genTool' = [genTool EXCEPT !.at = "idle", !.left = {}, !.did = "stopped"]
    /\ UNCHANGED <<tables, blockSources>>

-----------------------------------------------------------------------------

\* Somebody edits a table.
EditTables ==
    /\ genTool.at = "idle" /\ genTool.runs < GenRuns
    /\ \/ \E rows \in FieldTables : tables' = [tables EXCEPT !.header = rows]
       \/ \E rows \in Layouts : tables' = [tables EXCEPT !.csv = rows]
    /\ genTool' = [genTool EXCEPT !.runs = @ + 1, !.did = "edited"]
    /\ UNCHANGED blockSources

GenInit ==
    /\ \E header \in FieldTables, csv \in Layouts : tables = [header |-> header, csv |-> csv]
    /\ blockSources = [enum |-> <<>>, groups |-> <<>>, subs |-> <<>>, notes |-> [f \in Functions |-> NoNote]]
    /\ genTool = [at |-> "idle", left |-> {}, did |-> "nothing", runs |-> 0]

GenNext ==
    \/ \E check \in BOOLEAN : Generate(check) \/ StartToolbox(check)
    \/ ApplyFile \/ ApplyNamespace \/ StoppedShort \/ EditTables

GenSpec == GenInit /\ [][GenNext]_genVars

-----------------------------------------------------------------------------
(* Types. *)
GenTypeOK ==
    /\ tables.header \in FieldTables /\ tables.csv \in Layouts
    /\ \A f \in Functions : blockSources.notes[f].weight \in Nat
    /\ genTool.at \in {"idle", "apply", "namespace"} /\ genTool.left \subseteq DOMAIN BlockFiles

(* When the generator is content, by writing or by --check, every field of  *)
(* the table is in the enum under its own ordinal, and no two share one.    *)
EnumIsTheTable ==
    genTool.did = "enum ok" =>
        /\ \A i \in DOMAIN tables.header :
             \E k \in DOMAIN blockSources.enum : blockSources.enum[k] = <<tables.header[i].ts, tables.header[i].ord>>
        /\ Len(blockSources.enum) = Len(tables.header)
        /\ \A i, k \in DOMAIN blockSources.enum :
             i # k => blockSources.enum[i][1] # blockSources.enum[k][1] /\ blockSources.enum[i][2] # blockSources.enum[k][2]

\* What the editor shows: a flyout has the functions of its subcategory, by
\* the groups of the namespace's list, the heavier first.
ShownIn(sub) == {f \in Functions : blockSources.notes[f].sub = sub /\ blockSources.notes[f].grp # ""}
SubPlace(c) == CHOOSE k \in DOMAIN blockSources.subs : blockSources.subs[k] = c
Place(g) == CHOOSE k \in DOMAIN blockSources.groups : blockSources.groups[k] = g
ShownBefore(f, g) ==
    LET nf == blockSources.notes[f]
        ng == blockSources.notes[g]
    IN Place(nf.grp) < Place(ng.grp) \/ (nf.grp = ng.grp /\ nf.weight > ng.weight)

(* After a complete run the flyouts show the rows of the CSV as it orders   *)
(* them: one category, none of a lower Cat Order, is without a subcategory, *)
(* the others follow by Cat Order, the groups of a category by Group Order, *)
(* the blank ones last, and the blocks of a group by new_order, as the      *)
(* docstring of blocks_toolbox.py has it.                                   *)
LayoutIsThePlan ==
    genTool.did = "layout ok" =>
        /\ Cardinality({c \in Cats(tables.csv) : c \notin Range(blockSources.subs)}) = 1
        /\ \A i, j \in DOMAIN tables.csv :
             LET a == tables.csv[i]
                 b == tables.csv[j]
             IN /\ a.cat \notin Range(blockSources.subs) => a.catOrder <= b.catOrder
                /\ a.catOrder < b.catOrder /\ {a.cat, b.cat} \subseteq Range(blockSources.subs)
                     => SubPlace(a.cat) < SubPlace(b.cat)
        /\ \A i \in DOMAIN tables.csv :
             tables.csv[i].func \in ShownIn(IF tables.csv[i].cat \in Range(blockSources.subs) THEN tables.csv[i].cat ELSE "")
        /\ \A i, j \in DOMAIN tables.csv :
             LET a == tables.csv[i]
                 b == tables.csv[j]
             IN a.cat = b.cat =>
                  /\ a.grp = b.grp /\ a.order < b.order => ShownBefore(a.func, b.func)
                  /\ a.grp # b.grp /\ a.grpOrder # Blank /\ (b.grpOrder = Blank \/ a.grpOrder < b.grpOrder)
                       => ShownBefore(a.func, b.func)
=============================================================================
