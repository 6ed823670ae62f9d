-------------------------- MODULE GenerateCommand --------------------------
(***************************************************************************)
(* `route-engine generate` (main.cpp, command_generate, and write_csv): the*)
(* checks before any file is touched, the two output streams, and the exit *)
(* code.  Several processes may run it at once, or one after the other, on *)
(* one file system, where other programs create files of their own.        *)
(*                                                                         *)
(* A path reaches the file FileAt names, through whatever links there are. *)
(* The text of a stream reaches the disk in pieces, at positions of its    *)
(* own, while write_csv runs or at the flush.                              *)
(***************************************************************************)
EXTENDS Naturals, FiniteSets

CONSTANTS Procs,        \* processes running the command
          Paths,        \* what --nodes and --edges may say
          Normal(_),    \* lexically_normal
          Files,        \* the files of the file system
          FileAt(_),    \* the file that a normal path reaches
          Unreachable,  \* normal paths that neither exists() nor open can use
          CommandLines, \* the command lines in use
          Pieces,       \* the pieces of the nodes text and of the edges text
          Absent,       \* there is no such file
          Old           \* the content of a file that no command made

Streams == {"nodes", "edges"}

Options == [nodes : Paths, edges : Paths, force : BOOLEAN, usable : BOOLEAN]

\* What the command may have made of a file: for each position, the process
\* and the stream that wrote it.
Contents ==
    UNION {[positions -> Procs \X Streams] :
            positions \in SUBSET UNION {1 .. Pieces[s] : s \in Streams}}

ASSUME FilesAssumption ==
    /\ \A p \in Paths : Normal(p) \in Paths /\ FileAt(Normal(p)) \in Files
    /\ CommandLines \subseteq Options
    /\ Pieces \in [Streams -> Nat \ {0}]
    /\ Absent # Old /\ {Absent, Old} \cap Contents = {}

VARIABLES pc,       \* where each process is
          options,  \* what its command line says
          written,  \* pieces of each stream that are on the disk
          bad,      \* the streams that have failed
          exit,     \* its exit code
          disk,     \* the content of each file
          unseen,   \* history: files that each found absent when it looked
          disturbed \* history: processes that another has written over
                    \* since they opened their first file

vars == <<pc, options, written, bad, exit, disk, unseen, disturbed>>

Empty == [i \in {} |-> <<>>]
Text(p, s) == [i \in 1 .. Pieces[s] |-> <<p, s>>]

Put(content, i, piece) ==
    [j \in DOMAIN content \cup {i} |-> IF j = i THEN piece ELSE content[j]]

PathOf(p, s) == Normal(options[p][s])
FileOf(p, s) == FileAt(PathOf(p, s))

\* The files a process means to write.
Outputs(p) == {FileOf(p, s) : s \in Streams}

\* Those who would notice that p writes a file.
Others(p, f) == {q \in Procs \ {p} : f \in Outputs(q)}

\* exists() with an error_code: an error reads as "does not exist".
Exists(p, s) == PathOf(p, s) \notin Unreachable /\ disk[FileOf(p, s)] # Absent

Init ==
    /\ pc = [p \in Procs |-> "parse"]
    /\ options \in [Procs -> CommandLines]
    /\ written = [p \in Procs |-> [s \in Streams |-> 0]]
    /\ bad = [p \in Procs |-> {}]
    /\ exit = [p \in Procs |-> 0]
    /\ disk \in [Files -> {Absent, Old}]
    /\ unseen = [p \in Procs |-> {}]
    /\ disturbed = {}

Goto(p, label) == pc' = [pc EXCEPT ![p] = label]

Exit(p, code) == Goto(p, "exited") /\ exit' = [exit EXCEPT ![p] = code]

-----------------------------------------------------------------------------
(***************************************************************************)
(* The checks: usage, then two different paths, then no existing file.     *)
(***************************************************************************)
CheckUsage(p) ==
    /\ pc[p] = "parse"
    /\ IF options[p].usable /\ PathOf(p, "nodes") # PathOf(p, "edges")
       THEN /\ Goto(p, IF options[p].force THEN "generate" ELSE "check_nodes")
            /\ UNCHANGED exit
       ELSE Exit(p, 2)
    /\ UNCHANGED <<options, written, bad, disk, unseen, disturbed>>

CheckExists(p, s, here, after) ==
    /\ pc[p] = here
    /\ IF Exists(p, s) THEN Exit(p, 3) ELSE Goto(p, after) /\ UNCHANGED exit
    /\ unseen' = [unseen EXCEPT ![p] =
                    @ \cup {f \in {FileOf(p, s)} : disk[f] = Absent}]
    /\ UNCHANGED <<options, written, bad, disk, disturbed>>

CheckNodes(p) == CheckExists(p, "nodes", "check_nodes", "check_edges")

Bug_CheckNodesTwice(p) == CheckExists(p, "nodes", "check_edges", "generate")

CheckEdges(p) == CheckExists(p, "edges", "check_edges", "generate")

\* Building the lattice takes its time, and may throw: a coordinate may
\* overflow, memory may run out.
Generate(p) ==
    /\ pc[p] = "generate"
    /\ \/ Goto(p, "open_nodes") /\ UNCHANGED exit
       \/ Exit(p, 3)
    /\ UNCHANGED <<options, written, bad, disk, unseen, disturbed>>

(***************************************************************************)
(* The ofstream constructor creates the file or truncates it.              *)
(***************************************************************************)
Open(p, s, here, after) ==
    /\ pc[p] = here
    /\ \/ /\ Exit(p, 3)
          /\ UNCHANGED <<disk, disturbed>>
       \/ /\ PathOf(p, s) \notin Unreachable
          /\ disk' = [disk EXCEPT ![FileOf(p, s)] = Empty]
          /\ disturbed' = (disturbed \cup Others(p, FileOf(p, s)))
                            \ (IF s = "nodes" THEN {p} ELSE {})
          /\ Goto(p, after)
          /\ UNCHANGED exit
    /\ UNCHANGED <<options, written, bad, unseen>>

OpenNodes(p) == Open(p, "nodes", "open_nodes", "open_edges")
OpenEdges(p) == Open(p, "edges", "open_edges", "write")

-----------------------------------------------------------------------------
(***************************************************************************)
(* The next piece of a stream reaches the disk, or the write fails; then   *)
(* the stream stays bad and takes nothing more.                            *)
(***************************************************************************)
Pending(p, s) == s \notin bad[p] /\ written[p][s] < Pieces[s]

FailWrite(p, s) ==
    /\ pc[p] = "write" /\ Pending(p, s)
    /\ bad' = [bad EXCEPT ![p] = @ \cup {s}]
    /\ UNCHANGED <<pc, options, written, exit, disk, unseen, disturbed>>

Bug_WriteSwapped(p, s) ==
    /\ pc[p] = "write" /\ Pending(p, s)
    /\ written' = [written EXCEPT ![p][s] = @ + 1]
    /\ \E other \in Streams \ {s} :
        disk' = [disk EXCEPT ![FileOf(p, other)] =
                    Put(@, written[p][s] + 1, <<p, s>>)]
    /\ UNCHANGED <<pc, options, bad, exit, unseen, disturbed>>

Write(p, s) ==
    /\ pc[p] = "write" /\ Pending(p, s)
    /\ written' = [written EXCEPT ![p][s] = @ + 1]
    /\ disk' = [disk EXCEPT ![FileOf(p, s)] =
                    Put(@, written[p][s] + 1, <<p, s>>)]
    /\ disturbed' = disturbed \cup Others(p, FileOf(p, s))
    /\ UNCHANGED <<pc, options, bad, exit, unseen>>

\* Both flushes are over: the verdict is on the streams, nodes first.
Bug_FinishOnNodes(p) ==
    /\ pc[p] = "write" /\ \A s \in Streams : ~Pending(p, s)
    /\ Exit(p, IF "nodes" \in bad[p] THEN 3 ELSE 0)
    /\ UNCHANGED <<options, written, bad, disk, unseen, disturbed>>

Finish(p) ==
    /\ pc[p] = "write" /\ \A s \in Streams : ~Pending(p, s)
    /\ Exit(p, IF bad[p] # {} THEN 3 ELSE 0)
    /\ UNCHANGED <<options, written, bad, disk, unseen, disturbed>>

\* The process is killed; what it wrote stays.
Kill(p) ==
    /\ pc[p] # "exited"
    /\ Goto(p, "exited")
    /\ exit' = [exit EXCEPT ![p] = 9]
    /\ UNCHANGED <<options, written, bad, disk, unseen, disturbed>>

\* Another program creates a file, at any time.
Appear(f) ==
    /\ disk[f] = Absent
    /\ disk' = [disk EXCEPT ![f] = Old]
    /\ UNCHANGED <<pc, options, written, bad, exit, unseen, disturbed>>

Step(p) ==
    \/ CheckUsage(p) \/ CheckNodes(p) \/ CheckEdges(p) \/ Generate(p)
    \/ OpenNodes(p) \/ OpenEdges(p)
    \/ \E s \in Streams : FailWrite(p, s) \/ Write(p, s)
    \/ Finish(p)

Next ==
    \/ \E p \in Procs : Step(p) \/ Kill(p)
    \/ \E f \in Files : Appear(f)

Spec == Init /\ [][Next]_vars

-----------------------------------------------------------------------------
Labels == {"parse", "check_nodes", "check_edges", "generate", "open_nodes",
           "open_edges", "write", "exited"}

\* No other process means to write one of them.
Alone(p) == \A q \in Procs \ {p} : Outputs(p) \cap Outputs(q) = {}

(***************************************************************************)
(* The type invariant.  No piece is on the disk that its process has not   *)
(* written, and none at another position than its own.                     *)
(***************************************************************************)
TypeOK ==
    /\ pc \in [Procs -> Labels]
    /\ options \in [Procs -> CommandLines]
    /\ written \in [Procs -> [Streams -> Nat]]
    /\ bad \in [Procs -> SUBSET Streams]
    /\ exit \in [Procs -> {0, 2, 3, 9}]
    /\ unseen \in [Procs -> SUBSET Files] /\ disturbed \subseteq Procs
    /\ DOMAIN disk = Files
    /\ \A f \in Files : disk[f] \notin {Absent, Old} =>
        \A i \in DOMAIN disk[f] : \E p \in Procs, s \in Streams :
            /\ disk[f][i] = <<p, s>>
            /\ FileOf(p, s) = f
            /\ i <= written[p][s] /\ written[p][s] <= Pieces[s]

(***************************************************************************)
(* Exit code 0 vouches for the files: when the two paths reach two files,  *)
(* and nobody else has written over them since the command opened the      *)
(* first, each holds all of its text and nothing else.  It does so whatever*)
(* failed on the way, whatever a killed or a finished command had left in  *)
(* the files, and whatever appeared before they were opened.               *)
(***************************************************************************)
Vouched(p) ==
    pc[p] = "exited" /\ exit[p] = 0
        => \A s \in Streams : disk[FileOf(p, s)] = Text(p, s)

SuccessMeansBothFiles ==
    \A p \in Procs :
        p \notin disturbed /\ Cardinality(Outputs(p)) = 2 => Vouched(p)

(***************************************************************************)
(* The same without the condition on the paths: the command refuses two    *)
(* equal paths because "--nodes and --edges must name different files"     *)
(* (main.cpp:391), but two spellings of one file pass its comparison, and  *)
(* the command then reports success over a file of mixed lines.            *)
(***************************************************************************)
EverySuccessMeansBothFiles == \A p \in Procs : Alone(p) => Vouched(p)

(***************************************************************************)
(* What is lost of a file is lost to a command that names it, and without  *)
(* --force only to one that found no such file when it looked: neither a   *)
(* file of another program nor the half that a killed command left is      *)
(* replaced, though the checks and the openings are steps of their own and *)
(* files appear and grow in between.  One that appears after the check is  *)
(* lost: that much the checks cannot see.                                  *)
(***************************************************************************)
Lost(f) ==
    \/ disk[f] = Old /\ disk'[f] # Old
    \/ disk[f] \notin {Absent, Empty} /\ disk'[f] = Empty

SeenFilesSurvive ==
    [][\A f \in Files : Lost(f) =>
        \E p \in Procs :
            /\ pc'[p] # pc[p] /\ f \in Outputs(p)
            /\ options[p].force \/ f \in unseen[p]]_vars
=============================================================================
