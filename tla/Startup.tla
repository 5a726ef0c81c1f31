------------------------------ MODULE Startup ------------------------------
(***************************************************************************)
(* main and the files: options are parsed and applied by setters, the      *)
(* formula is reduced by an external program whose exit status nobody      *)
(* looks at, two readers take in what stands at the path it was to write   *)
(* to, and what the sampling and final phases deliver is saved.            *)
(*                                                                         *)
(* Reading memory that was never allocated ends the process (crashed); a   *)
(* reader that waits for the 0 of a clause that is not there never ends    *)
(* (hung).  The phases themselves are modules Sampling and FinalPlain:     *)
(* here they deliver any models of the formula that was read.              *)
(***************************************************************************)
EXTENDS CNF, FiniteSetsExt

CONSTANTS
  Inputs,          \* what the input file may be
  ReducedFiles,    \* what a reducer may write
  LeftoverFiles,   \* what an earlier run may have left at the path with a name
  ArgumentLists,   \* the options of the command line
  MaxMoreRows      \* bound: how many rows follow the first

NoNumber == -1        \* a number the "p" line ends before

\* A file: whether it exists, whether it has a "p" line and what that says,
\* the clauses that are complete, and whether it ends inside a clause.
File == [open : BOOLEAN, header : BOOLEAN, nvar : Nat \cup {NoNumber},
         nclauses : Nat \cup {NoNumber}, clauses : Seq(Seq(Int \ {0})), torn : BOOLEAN]

Absent == [open |-> FALSE, header |-> FALSE, nvar |-> 0, nclauses |-> 0,
           clauses |-> <<>>, torn |-> FALSE]
Empty  == [Absent EXCEPT !.open = TRUE]

Dimacs(nvar, F) == [open |-> TRUE, header |-> TRUE, nvar |-> nvar, nclauses |-> Len(F),
                    clauses |-> F, torn |-> FALSE]

Counted(f) == f.header /\ f.nclauses # NoNumber
Whole(f)   == f.header /\ f.nvar # NoNumber /\ Len(f.clauses) = f.nclauses

\* f holds a formula, the beginning of one, or nothing.
DimacsFile(f) ==
  /\ f \in File
  /\ f.clauses \in Seq(Seq((-f.nvar .. f.nvar) \ {0}))
  /\ f.header \/ f \in {Absent, Empty}
  /\ f.header => f.open
  /\ f.nvar = NoNumber => f.nclauses = NoNumber
  /\ Counted(f) => Len(f.clauses) <= f.nclauses
  /\ f.torn => Counted(f) /\ Len(f.clauses) < f.nclauses

\* A "p" line with these numbers, and no more.
HeaderOnly(nvar, nclauses) ==
  [Empty EXCEPT !.header = TRUE, !.nvar = nvar, !.nclauses = nclauses]

\* f after its first n clauses have been written.
Partial(f, n, torn) == [f EXCEPT !.clauses = SubSeq(f.clauses, 1, n), !.torn = torn]

NotGiven == -1

\* The fields of Argument; a number is NotGiven or the option's value.
Argument == [input_cnf : BOOLEAN, k : Int, weighted : Int, context_aware : Int, reduction : Int,
             reduced_path : BOOLEAN, output_path : BOOLEAN, until_file : BOOLEAN,
             pure_cdcl : BOOLEAN, pure_sls : BOOLEAN]

ASSUME StartupAssumption ==
  /\ \A f \in Inputs \cup ReducedFiles \cup LeftoverFiles : DimacsFile(f)
  /\ \A f \in Inputs : f = Absent \/ (Whole(f) /\ f.nvar = NumVar)
  /\ \A f \in ReducedFiles : Whole(f) /\ f.nvar <= NumVar
  /\ ArgumentLists \subseteq Argument
  /\ MaxMoreRows \in Nat

NoSolver == [open |-> FALSE]
NotSaved == [path |-> "none"]

VARIABLES
  argu, stage,        \* where main is, or how the process ended
  files,              \* the input, the temporary and the named reduced file
  reducer,            \* what became of the reducer: "idle" if nobody asked it
  para,               \* what the setters set
  cnf_file_path,
  num_var, cnf_clauses,  \* num_var and clauses of the sampler
  as_backbone,        \* whether it is allocated, and so for the next
  var_positive_appearance_count,
  pbo_solver,         \* num_vars and clauses of the local search
  testcase_set,       \* the rows; an empty row stands for no solution
  saved

svars == <<argu, stage, files, reducer, para, cnf_file_path, num_var, cnf_clauses,
           as_backbone, var_positive_appearance_count, pbo_solver, testcase_set, saved>>

dataVars == <<num_var, cnf_clauses, as_backbone, var_positive_appearance_count,
              pbo_solver, testcase_set, saved>>
fileVars == <<argu, files, reducer, para, cnf_file_path>>

-----------------------------------------------------------------------------
(* Options *)

DefaultPara ==
  [candidate_set_size |-> 100, candidates |-> 100, part_for_sls |-> 0,
   flag_use_weighted_sampling |-> TRUE, context_aware_method |-> 2,
   flag_use_cnf_reduction |-> TRUE, flag_reduced_cnf_as_temp |-> TRUE,
   reduced_cnf_file_path |-> "temp", testcase_set_save_path |-> "default",
   flag_use_pure_cdcl |-> TRUE, flag_use_pure_sls |-> FALSE]

\* Fault: the local search takes its share before the set has its size.
SettersSlsFirst ==
  <<"pure_cdcl", "pure_sls", "k", "weighted", "context_aware", "reduction", "reduced_path",
    "output_path">>

\* The order in which main calls the setters.
Setters ==
  <<"k", "weighted", "context_aware", "reduction", "reduced_path", "output_path",
    "pure_cdcl", "pure_sls">>

Given(option) ==
  CASE option \in {"k", "weighted", "context_aware", "reduction"} -> argu[option] # NotGiven
    [] OTHER -> argu[option]

\* The setters; ParseArgument has added 1 to the value for context_aware.
Apply(p, option) ==
  CASE option = "k" ->
         [p EXCEPT !.candidate_set_size = argu.k, !.candidates = argu.k]
    [] option = "weighted" -> [p EXCEPT !.flag_use_weighted_sampling = argu.weighted # 0]
    [] option = "context_aware" -> [p EXCEPT !.context_aware_method = argu.context_aware + 1]
    [] option = "reduction" -> [p EXCEPT !.flag_use_cnf_reduction = argu.reduction # 0]
    [] option = "reduced_path" -> [p EXCEPT !.flag_reduced_cnf_as_temp = FALSE,
                                           !.reduced_cnf_file_path = "named"]
    [] option = "output_path" -> [p EXCEPT !.testcase_set_save_path = "given"]
    [] option = "pure_cdcl" -> [p EXCEPT !.flag_use_pure_cdcl = TRUE, !.part_for_sls = 0]
    [] option = "pure_sls" -> [p EXCEPT !.flag_use_pure_sls = TRUE,
                                       !.part_for_sls = p.candidate_set_size]

\* What the setters called, one after another, make of the defaults.
AllSet ==
  LET set[k \in 0 .. Len(Setters)] ==
        IF k = 0 THEN DefaultPara
        ELSE IF Given(Setters[k]) THEN Apply(set[k - 1], Setters[k]) ELSE set[k - 1]
  IN  set[Len(Setters)]

\* The temporary file has a new name; at the path with a name there may be
\* what an earlier run, on any input, left there.
SInit ==
  /\ argu \in ArgumentLists
  /\ stage = "parse"
  /\ \E input \in Inputs, named \in {Absent} \cup LeftoverFiles :
       files = [path \in {"input", "temp", "named"} |->
                  CASE path = "input" -> input [] path = "temp" -> Absent [] path = "named" -> named]
  /\ reducer = "idle"
  /\ para = DefaultPara
  /\ cnf_file_path = "input"
  /\ num_var = 0 /\ cnf_clauses = <<>> /\ as_backbone = FALSE
  /\ var_positive_appearance_count = FALSE
  /\ pbo_solver = NoSolver
  /\ testcase_set = {}
  /\ saved = NotSaved

\* ParseArgument and the setters.  A negative -k cannot be a vector's size,
\* and SetUpperLimit reads from a file it does not check.
Configure ==
  /\ stage = "parse"
  /\ para' = AllSet
  /\ stage' \in IF ~argu.input_cnf THEN {"argument_error"}
                ELSE IF para'.candidates < 0 THEN {"crashed"}
                ELSE IF argu.until_file THEN {"reduce", "crashed"}
                ELSE {"reduce"}
  /\ UNCHANGED <<argu, files, reducer, cnf_file_path, dataVars>>

-----------------------------------------------------------------------------
(* The formula *)

\* Fault: a header that knows fewer options wins.
HeaderVarsLast(f, known) == IF f.header THEN f.nvar ELSE known

\* read_cnf_header
HeaderVars(f, known) == IF f.header /\ known < f.nvar THEN f.nvar ELSE known

\* What this_num_var may hold when the "p" line ends before the number, and
\* num_clauses_ when nothing sets it.
GarbageVars == {0, NumVar + 1}
Garbage == {-1, 0, 1}

\* The number of options read_cnf_header may give.
VarsRead(f, known) ==
  {HeaderVars([f EXCEPT !.nvar = n], known) :
     n \in IF f.header /\ f.nvar = NoNumber THEN GarbageVars ELSE {f.nvar}}

\* What a reducer that does its work makes of `input'.
ReducedWell(input) == {f \in ReducedFiles : Models(f.clauses) = Models(input.clauses)}

\* The beginnings of f: without its "p" line; with the line up to a number or
\* within one, whose first digits are a smaller number; with the whole line and
\* some of the clauses.
Cuts(f) ==
  {Empty, HeaderOnly(NoNumber, NoNumber)}
  \cup {HeaderOnly(v, NoNumber) : v \in {f.nvar} \cup 1 .. f.nvar}
  \cup {HeaderOnly(f.nvar, n) : n \in 1 .. f.nclauses - 1}
  \cup {Partial(f, n, torn) : n \in 0 .. f.nclauses - 1, torn \in BOOLEAN}

\* What stands at its path when the reducer is through: all of its work; the
\* beginning, when it is stopped, as by an interrupt from the terminal, which
\* the waiting program survives; or what stood there before, when it does not
\* run or fails.
LeftBy(end, input, before) ==
  CASE end = "well"    -> ReducedWell(input)
    [] end = "cut"     -> UNION {Cuts(f) : f \in ReducedWell(input)}
    [] end = "nothing" -> {before}

\* check_no_clauses, then ReduceCNF, which goes on whatever system() returns.
Reduce ==
  /\ stage = "reduce"
  /\ LET input == files["input"]
         path  == para.reduced_cnf_file_path
         none  == ~input.open \/ input.nclauses = 0
     IN  /\ num_var' \in VarsRead(input, num_var)
         /\ para' = IF none THEN [para EXCEPT !.flag_use_cnf_reduction = FALSE] ELSE para
         /\ IF para'.flag_use_cnf_reduction
            THEN /\ reducer' \in {"well", "cut", "nothing"}
                 /\ \E f \in LeftBy(reducer', input, files[path]) :
                      files' = [files EXCEPT ![path] = f]
                 /\ cnf_file_path' = path
            ELSE UNCHANGED <<reducer, files, cnf_file_path>>
  /\ stage' = "pbo"
  /\ UNCHANGED <<argu, cnf_clauses, as_backbone, var_positive_appearance_count, pbo_solver,
                 testcase_set, saved>>

\* Fault: reading stops with the file.
ClausesThere(f, n) == SubSeq(f.clauses, 1, Min({n, Len(f.clauses)}))

\* The n clauses a reader takes from f when its last number stays 0 at the
\* end of the file: those that are missing are empty.
ClausesRead(f, n) == [c \in 1 .. n |-> IF c <= Len(f.clauses) THEN f.clauses[c] ELSE <<>>]

\* build_instance, which begins with both numbers 0 but sets the sizes of its
\* arrays in the "p" line only; its literal is not set before the first clause.
InitPbOCCSATSolver ==
  /\ stage = "pbo"
  /\ LET f == files[cnf_file_path]
         endless == Counted(f) /\ ~Whole(f) /\ (f.torn \/ f.clauses = <<>>)
         solver  == CASE ~f.open  -> NoSolver
                      [] f.open /\ ~f.header ->
                           [open |-> TRUE, num_vars |-> 0, clauses |-> <<>>]
                      [] f.header ->
                           [open |-> TRUE, num_vars |-> HeaderVars(f, num_var),
                            clauses |-> ClausesRead(f, IF Counted(f) THEN f.nclauses ELSE 0)]
     IN  \/ /\ endless
            /\ stage' = "hung"
            /\ UNCHANGED pbo_solver
         \/ /\ f.open /\ ~f.header
            /\ stage' = "crashed"
            /\ UNCHANGED pbo_solver
         \/ /\ ~f.torn
            /\ pbo_solver' = solver
            /\ stage' = "read"
  /\ UNCHANGED <<fileVars, num_var, cnf_clauses, as_backbone, var_positive_appearance_count,
                 testcase_set, saved>>

\* read_cnf, which may return early; its literal is not set before any clause,
\* and what is read past the end goes to arrays that have no place for it or
\* on and on to the last clause.
ReadCNF ==
  /\ stage = "read"
  /\ LET f == files[cnf_file_path]
     IN  \E nvar \in VarsRead(f, num_var), n \in IF Counted(f) THEN {f.nclauses} ELSE Garbage :
           LET refused == ~f.open \/ nvar <= 0 \/ n < 0
           IN  \/ /\ ~refused /\ n > Len(f.clauses)
                  /\ stage' \in {"hung", "crashed"}
                  /\ UNCHANGED <<num_var, cnf_clauses, as_backbone>>
               \/ /\ ~f.torn \/ refused
                  /\ num_var' = nvar
                  /\ cnf_clauses' = IF refused THEN cnf_clauses ELSE ClausesRead(f, n)
                  /\ as_backbone' = ~refused
                  /\ stage' = "first"
  /\ UNCHANGED <<fileVars, var_positive_appearance_count, pbo_solver, testcase_set, saved>>

-----------------------------------------------------------------------------
(* Generating and saving *)

\* The models of F over the options that were read: without any, the empty
\* row; with a leftover file, perhaps more than the input has.
Solutions(F) == {tc \in [0 .. num_var - 1 -> Bit] : Satisfies(tc, F)}

\* The rest of Init: the CDCL sampler is built and draws the first row, also
\* with -pure_sls, as nothing clears flag_use_pure_cdcl_.
FirstTestcase ==
  /\ stage = "first"
  /\ \E row \in IF Solutions(cnf_clauses) = {} THEN {<<>>} ELSE Solutions(cnf_clauses) :
       testcase_set' = {row}
  /\ var_positive_appearance_count' = para.flag_use_weighted_sampling
  /\ stage' = "generate"
  /\ UNCHANGED <<fileVars, num_var, cnf_clauses, as_backbone, pbo_solver, saved>>

\* Indexing an empty row; counts that were not allocated; candidates past the
\* end of their array, or none to choose from; a local search on another
\* number of options, or without an answer.
OutOfBounds ==
  \/ num_var >= 2 /\ <<>> \in testcase_set
  \/ num_var >= 1 /\ para.context_aware_method = 2 /\ ~var_positive_appearance_count
  \/ para.part_for_sls > para.candidates \/ para.candidate_set_size <= 0
  \/ para.part_for_sls > 0 /\
       (~pbo_solver.open \/ pbo_solver.num_vars # num_var \/ Solutions(pbo_solver.clauses) = {})
  \/ num_var >= 2 /\ ~as_backbone

\* GenerateCoveringArray after Init: more rows, if any; a local search that
\* runs out of tries leaves its caller without a row, which is undefined.
Generate ==
  /\ stage = "generate"
  /\ IF OutOfBounds
     THEN stage' = "crashed" /\ UNCHANGED testcase_set
     ELSE \/ /\ stage' = "save"
             /\ \E n \in 0 .. MaxMoreRows : \E more \in [1 .. n -> Solutions(cnf_clauses)] :
                  testcase_set' = testcase_set \cup {more[k] : k \in 1 .. n}
          \/ /\ para.part_for_sls > 0
             /\ stage' = "no_row"
             /\ UNCHANGED testcase_set
  /\ UNCHANGED <<fileVars, num_var, cnf_clauses, as_backbone, var_positive_appearance_count,
                 pbo_solver, saved>>

SaveTestcaseSet ==
  /\ stage = "save"
  /\ saved' = [path |-> para.testcase_set_save_path, rows |-> testcase_set]
  /\ stage' = "clean"
  /\ UNCHANGED <<fileVars, num_var, cnf_clauses, as_backbone, var_positive_appearance_count,
                 pbo_solver, testcase_set>>

RemoveTempFiles ==
  /\ stage = "clean"
  /\ files' = IF para.flag_reduced_cnf_as_temp /\ para.flag_use_cnf_reduction
              THEN [files EXCEPT ![para.reduced_cnf_file_path] = Absent] ELSE files
  /\ stage' = "done"
  /\ UNCHANGED <<argu, reducer, para, cnf_file_path, dataVars>>

Running == stage \notin {"argument_error", "crashed", "hung", "no_row", "interrupted", "done"}

\* HandleInterrupt ends the process where it is.
HandleInterrupt ==
  /\ Running
  /\ stage' = "interrupted"
  /\ UNCHANGED <<fileVars, dataVars>>

SStep == \/ Configure \/ Reduce \/ InitPbOCCSATSolver \/ ReadCNF \/ FirstTestcase \/ Generate
         \/ SaveTestcaseSet \/ RemoveTempFiles

SNext == SStep \/ HandleInterrupt

\* The process goes on until it ends; nobody has to interrupt it.
SSpec == SInit /\ [][SNext]_svars /\ WF_svars(SStep)

-----------------------------------------------------------------------------
(* Properties *)

\* When the reducer did some of its work or was not asked, the rows that are
\* saved are valid configurations of the input: a file that stops early ends or
\* hangs the program before it saves.  When the reducer wrote nothing, the rows
\* are models of what an earlier run had left at its path, or, without such a
\* file, none are saved.  Not said of a file without a "p" line, or with one
\* that ends before the number of clauses: read_cnf may make a formula
\* without clauses of it.
SavedRowsValid ==
  LET reduced == files[cnf_file_path]
  IN  stage = "clean" /\ files["input"].open /\ (reduced.open => Counted(reduced)) =>
        saved.rows \subseteq IF reducer = "nothing" THEN Solutions(reduced.clauses)
                             ELSE Models(files["input"].clauses)

\* The local search, built before the formula is read, and the sampler hold
\* the formula of the input over all its options, also when the reduced file
\* names fewer.
ReadersAgree ==
  /\ stage \in {"first", "generate", "save", "clean", "done"}
  /\ reducer \in {"idle", "well"} /\ files["input"].open
  =>
    /\ num_var = NumVar /\ pbo_solver.num_vars = NumVar
    /\ Models(cnf_clauses) = Models(files["input"].clauses)
    /\ Models(pbo_solver.clauses) = Models(cnf_clauses)

\* A call as README.md describes them, on a satisfiable input.
Documented ==
  /\ argu.input_cnf /\ (argu.k = NotGiven \/ argu.k > 0)
  /\ argu.context_aware \in {NotGiven, 0, 1} /\ argu.reduction \in {NotGiven, 0, 1}
  /\ argu.weighted = NotGiven /\ ~argu.until_file
  /\ Models(files["input"].clauses) # {} /\ files["input"].open

\* A documented call whose reducer and local search work saves its rows and
\* leaves the reduced file if it was given a name, but no temporary file.
Finished ==
  /\ stage = "done" /\ saved # NotSaved /\ saved.rows # {}
  /\ files["temp"] = Absent
  /\ argu.reduced_path /\ para.flag_use_cnf_reduction =>
       files["named"] \in ReducedWell(files["input"])

Completes ==
  Documented /\ stage = "parse" ~>
    Finished \/ reducer \in {"cut", "nothing"} \/ stage \in {"no_row", "interrupted"}
=============================================================================
