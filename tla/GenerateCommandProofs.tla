----------------------- MODULE GenerateCommandProofs -----------------------
(***************************************************************************)
(* The generate command: type correctness, what exit code 0 vouches for,   *)
(* and which files can be lost, for any number of processes, paths, links  *)
(* and pieces.                                                             *)
(***************************************************************************)
EXTENDS GenerateCommand, FiniteSetTheorems, TLAPS

-----------------------------------------------------------------------------
(***************************************************************************)
(* The inductive invariant.  A process writes nothing before both streams  *)
(* are open, and what it has opened is a file of the commands from then on:*)
(* files change, but none comes to be old or absent again.  A process past *)
(* the exists() checks has seen that there were no such files, whatever has*)
(* appeared since.                                                         *)
(***************************************************************************)
Started ==
    \A p \in Procs :
        /\ pc[p] \notin {"write", "exited"} =>
                written[p] = [s \in Streams |-> 0] /\ bad[p] = {}
        /\ \A s \in Streams : written[p][s] <= Pieces[s]

HasOpen(p, s) ==
    pc[p] = "write" \/ (s = "nodes" /\ pc[p] = "open_edges")

Succeeded(p) == pc[p] = "exited" /\ exit[p] = 0

Opened ==
    \A p \in Procs, s \in Streams :
        HasOpen(p, s) \/ Succeeded(p) =>
            disk[FileOf(p, s)] \notin {Absent, Old}

HasChecked(p, s) ==
    \/ pc[p] \in {"generate", "open_nodes", "open_edges", "write"}
    \/ s = "nodes" /\ pc[p] = "check_edges"

Checked ==
    \A p \in Procs, s \in Streams :
        HasChecked(p, s) /\ ~options[p].force =>
            PathOf(p, s) \in Unreachable \/ FileOf(p, s) \in unseen[p]

\* Two files, and nobody else has written over them.
Undisturbed(p) == p \notin disturbed /\ FileOf(p, "nodes") # FileOf(p, "edges")

\* A stream's file holds the pieces that have reached it and nothing else.
Written ==
    \A p \in Procs : Undisturbed(p) =>
        /\ \A s \in Streams : HasOpen(p, s) \/ Succeeded(p) =>
                disk[FileOf(p, s)] = [i \in 1 .. written[p][s] |-> <<p, s>>]
        /\ Succeeded(p) => \A s \in Streams : written[p][s] = Pieces[s]

\* Every piece of a file was written there, by a command that names it.
InPlace(f) ==
    disk[f] \notin {Absent, Old} =>
        \A i \in DOMAIN disk[f] : \E p \in Procs, s \in Streams :
            /\ disk[f][i] = <<p, s>>
            /\ FileOf(p, s) = f
            /\ i <= written[p][s] /\ written[p][s] <= Pieces[s]

Typed ==
    /\ pc \in [Procs -> Labels]
    /\ options \in [Procs -> CommandLines]
    /\ written \in [Procs -> [Streams -> Nat]]
    /\ bad \in [Procs -> SUBSET Streams]
    /\ exit \in [Procs -> {0, 2, 3, 9}]
    /\ disk \in [Files -> Contents \cup {Absent, Old}]
    /\ unseen \in [Procs -> SUBSET Files]
    /\ disturbed \subseteq Procs

CommandInv ==
    /\ Typed /\ \A f \in Files : InPlace(f)
    /\ Started /\ Opened /\ Checked /\ Written

-----------------------------------------------------------------------------
\* The files, and what every process has written, stay; some process may have
\* looked for a file that is not there.
OnlyLooks ==
    /\ options' = options /\ written' = written /\ bad' = bad
    /\ disk' = disk /\ disturbed' = disturbed
    /\ unseen' \in [Procs -> SUBSET Files]
    /\ \A q \in Procs : unseen[q] \subseteq unseen'[q]

\* What a process names is a path, and the path reaches a file.
LEMMA NamesAreFiles ==
    ASSUME Typed, NEW p \in Procs, NEW s \in Streams
    PROVE  FileOf(p, s) \in Files
  <1>1. options[p] \in Options
    BY FilesAssumption DEF Typed
  <1>2. options[p][s] \in Paths
    BY <1>1 DEF Options, Streams
  <1> QED
    BY <1>2, FilesAssumption DEF FileOf, PathOf

\* A file just created or truncated is empty, which is not what it was before.
LEMMA EmptyIsAContent ==
    /\ Empty \in Contents
    /\ Empty \notin {Absent, Old}
  <1>1. {} \in SUBSET UNION {1 .. Pieces[s] : s \in Streams}
    OBVIOUS
  <1>2. Empty \in [{} -> Procs \X Streams]
    BY DEF Empty
  <1>3. Empty \in Contents
    BY <1>1, <1>2 DEF Contents
  <1> QED
    BY <1>3, FilesAssumption

\* A piece put into a file leaves the pieces at the other positions alone.
LEMMA PutIsAContent ==
    ASSUME NEW content \in Contents, NEW p \in Procs, NEW s \in Streams,
           NEW i \in 1 .. Pieces[s]
    PROVE  /\ Put(content, i, <<p, s>>) \in Contents
           /\ Put(content, i, <<p, s>>) \notin {Absent, Old}
  <1>1. PICK positions \in SUBSET UNION {1 .. Pieces[t] : t \in Streams} :
            content \in [positions -> Procs \X Streams]
    BY DEF Contents
  <1>2. positions \cup {i} \in SUBSET UNION {1 .. Pieces[t] : t \in Streams}
    BY <1>1
  <1>3. Put(content, i, <<p, s>>) \in [positions \cup {i} -> Procs \X Streams]
    BY <1>1 DEF Put
  <1>4. Put(content, i, <<p, s>>) \in Contents
    BY <1>2, <1>3 DEF Contents
  <1> QED
    BY <1>4, FilesAssumption

-----------------------------------------------------------------------------
(***************************************************************************)
(* A step that only moves a process on, or ends it: the files, and what    *)
(* every process has written, stay.  What a step of this kind must not do  *)
(* is to pass the opening of a stream, or to report success early.         *)
(***************************************************************************)
LEMMA MovesKeepTheInvariant ==
    ASSUME CommandInv,
           NEW p \in Procs, NEW label \in Labels, NEW code \in {0, 2, 3, 9},
           pc[p] # "exited",
           label \notin {"open_edges", "write"},
           label # "exited" => pc[p] # "write",
           label = "exited" /\ code = 0 =>
               pc[p] = "write" /\ \A s \in Streams : written[p][s] = Pieces[s],
           pc' = [pc EXCEPT ![p] = label],
           exit' = [exit EXCEPT ![p] = code],
           OnlyLooks,
           \A s \in Streams : HasChecked(p, s)' /\ ~options[p].force =>
               PathOf(p, s) \in Unreachable \/ FileOf(p, s) \in unseen'[p]
    PROVE  CommandInv'
  <1>0. /\ options' = options /\ written' = written /\ bad' = bad
        /\ disk' = disk /\ disturbed' = disturbed
        /\ unseen' \in [Procs -> SUBSET Files]
        /\ \A q \in Procs : unseen[q] \subseteq unseen'[q]
    BY DEF OnlyLooks
  <1>1. Typed'
    BY <1>0 DEF CommandInv, Typed
  <1>2. \A q \in Procs : /\ pc'[q] = IF q = p THEN label ELSE pc[q]
                         /\ exit'[q] = IF q = p THEN code ELSE exit[q]
    BY DEF CommandInv, Typed
  <1>3. \A q \in Procs, s \in Streams :
            PathOf(q, s)' = PathOf(q, s) /\ FileOf(q, s)' = FileOf(q, s)
    BY <1>0 DEF PathOf, FileOf
  <1>4. \A q \in Procs : Undisturbed(q)' <=> Undisturbed(q)
    BY <1>0, <1>3 DEF Undisturbed, Streams
  <1>5. (\A f \in Files : InPlace(f))'
    BY <1>0, <1>3 DEF CommandInv, InPlace
  <1>6. Started'
    BY <1>0, <1>2 DEF CommandInv, Started
  <1>7. Opened'
    BY <1>0, <1>2, <1>3 DEF CommandInv, Opened, HasOpen, Succeeded
  <1>8. Checked'
    <2> SUFFICES ASSUME NEW q \in Procs, NEW s \in Streams,
                        HasChecked(q, s)', ~options[q].force
                 PROVE  \/ PathOf(q, s) \in Unreachable
                        \/ FileOf(q, s) \in unseen'[q]
      BY <1>0, <1>3 DEF Checked
    <2>1. CASE q = p
      BY <2>1
    <2>2. CASE q # p
      BY <2>2, <1>0, <1>2 DEF CommandInv, Checked, HasChecked
    <2> QED
      BY <2>1, <2>2
  <1>9. Written'
    <2> SUFFICES ASSUME NEW q \in Procs, Undisturbed(q)
                 PROVE  /\ \A s \in Streams : HasOpen(q, s)' \/ Succeeded(q)' =>
                            disk[FileOf(q, s)] =
                                [i \in 1 .. written[q][s] |-> <<q, s>>]
                        /\ Succeeded(q)' =>
                            \A s \in Streams : written[q][s] = Pieces[s]
      BY <1>0, <1>3, <1>4 DEF Written
    <2>1. CASE q = p
      <3>1. \A s \in Streams : ~HasOpen(p, s)'
        BY <1>2 DEF HasOpen
      <3>2. Succeeded(p)' =>
                pc[p] = "write" /\ \A s \in Streams : written[p][s] = Pieces[s]
        BY <1>2 DEF Succeeded
      <3> QED
        BY <2>1, <3>1, <3>2 DEF CommandInv, Written, HasOpen
    <2>2. CASE q # p
      <3>1. Succeeded(q)' <=> Succeeded(q)
        BY <2>2, <1>2 DEF Succeeded
      <3>2. \A s \in Streams : HasOpen(q, s)' <=> HasOpen(q, s)
        BY <2>2, <1>2 DEF HasOpen
      <3> QED
        BY <3>1, <3>2 DEF CommandInv, Written
    <2> QED
      BY <2>1, <2>2
  <1> QED
    BY <1>1, <1>5, <1>6, <1>7, <1>8, <1>9 DEF CommandInv

-----------------------------------------------------------------------------
(***************************************************************************)
(* The actions that touch files or streams.                                *)
(***************************************************************************)
LEMMA FailuresKeepTheInvariant ==
    ASSUME CommandInv, NEW p \in Procs, NEW s \in Streams, FailWrite(p, s)
    PROVE  CommandInv'
  <1>1. /\ pc' = pc /\ options' = options /\ written' = written
        /\ exit' = exit /\ disk' = disk /\ unseen' = unseen
        /\ disturbed' = disturbed
    BY DEF FailWrite
  <1>2. bad' = [bad EXCEPT ![p] = bad[p] \cup {s}] /\ pc[p] = "write"
    BY DEF FailWrite
  <1>3. Typed'
    BY <1>1, <1>2 DEF CommandInv, Typed
  <1>4. \A q \in Procs : bad'[q] = IF q = p THEN bad[p] \cup {s} ELSE bad[q]
    BY <1>2 DEF CommandInv, Typed
  <1>5. (\A f \in Files : InPlace(f))'
    BY <1>1 DEF CommandInv, InPlace, FileOf, PathOf
  <1>6. Started'
    BY <1>1, <1>2, <1>4 DEF CommandInv, Started
  <1>7. \A q \in Procs, t \in Streams :
            PathOf(q, t)' = PathOf(q, t) /\ FileOf(q, t)' = FileOf(q, t)
    BY <1>1 DEF PathOf, FileOf
  <1>8. Opened' /\ Checked'
    BY <1>1, <1>7 DEF CommandInv, Opened, Checked, HasOpen, HasChecked,
                          Succeeded
  <1>9. \A q \in Procs : Undisturbed(q)' <=> Undisturbed(q)
    BY <1>1, <1>7 DEF Undisturbed, Streams
  <1>10. Written'
    BY <1>1, <1>7, <1>9 DEF CommandInv, Written, HasOpen, Succeeded
  <1> QED
    BY <1>3, <1>5, <1>6, <1>8, <1>10 DEF CommandInv

\* Opening a stream empties one file and moves the process on.
LEMMA OpeningKeepsTheInvariant ==
    ASSUME CommandInv, NEW p \in Procs, NEW s \in Streams, NEW after,
           \/ s = "nodes" /\ pc[p] = "open_nodes" /\ after = "open_edges"
           \/ s = "edges" /\ pc[p] = "open_edges" /\ after = "write",
           PathOf(p, s) \notin Unreachable,
           disk' = [disk EXCEPT ![FileOf(p, s)] = Empty],
           pc' = [pc EXCEPT ![p] = after],
           exit' = exit, options' = options, written' = written, bad' = bad,
           unseen' = unseen,
           disturbed' = (disturbed \cup Others(p, FileOf(p, s)))
                          \ (IF s = "nodes" THEN {p} ELSE {})
    PROVE  CommandInv'
  <1>1. FileOf(p, s) \in Files
    BY NamesAreFiles DEF CommandInv
  <1>2. Typed'
    BY <1>1, EmptyIsAContent DEF CommandInv, Typed, Labels, Others
  <1>3. /\ \A q \in Procs : pc'[q] = IF q = p THEN after ELSE pc[q]
        /\ \A f \in Files : disk'[f] = IF f = FileOf(p, s) THEN Empty ELSE disk[f]
    BY <1>1 DEF CommandInv, Typed
  <1>4. \A q \in Procs, t \in Streams :
            /\ PathOf(q, t)' = PathOf(q, t) /\ FileOf(q, t)' = FileOf(q, t)
            /\ FileOf(q, t) \in Files
    BY NamesAreFiles DEF PathOf, FileOf, CommandInv
  <1>5. \A q \in Procs : Undisturbed(q)' =>
            /\ FileOf(q, "nodes") # FileOf(q, "edges")
            /\ q = p /\ s # "nodes" => Undisturbed(q)
            /\ q # p => /\ Undisturbed(q)
                        /\ \A t \in Streams : FileOf(q, t) # FileOf(p, s)
    BY <1>4 DEF Undisturbed, Others, Outputs, Streams
  <1>6. (\A f \in Files : InPlace(f))'
    <2> SUFFICES ASSUME NEW f \in Files PROVE InPlace(f)'
      OBVIOUS
    <2>1. CASE f = FileOf(p, s)
      <3>1. disk'[f] = Empty /\ DOMAIN Empty = {}
        BY <2>1, <1>3 DEF Empty
      <3> QED
        BY <3>1 DEF InPlace
    <2>2. CASE f # FileOf(p, s)
      BY <2>2, <1>3, <1>4 DEF CommandInv, InPlace
    <2> QED
      BY <2>1, <2>2
  <1>7. Started'
    BY <1>3 DEF CommandInv, Started
  <1>8. Opened'
    <2> SUFFICES ASSUME NEW q \in Procs, NEW t \in Streams,
                        HasOpen(q, t)' \/ Succeeded(q)'
                 PROVE  disk'[FileOf(q, t)] \notin {Absent, Old}
      BY <1>4 DEF Opened
    <2>1. CASE q = p /\ t = s
      BY <2>1, <1>3, <1>4, EmptyIsAContent
    <2>2. CASE q # p \/ t # s
      <3>1. HasOpen(q, t) \/ Succeeded(q)
        BY <2>2, <1>3 DEF HasOpen, Succeeded, Streams
      <3> QED
        BY <3>1, <1>3, <1>4, EmptyIsAContent DEF CommandInv, Opened
    <2> QED
      BY <2>1, <2>2
  <1>9. Checked'
    <2> SUFFICES ASSUME NEW q \in Procs, NEW t \in Streams,
                        HasChecked(q, t)', ~options[q].force
                 PROVE  \/ PathOf(q, t) \in Unreachable
                        \/ FileOf(q, t) \in unseen[q]
      BY <1>4 DEF Checked
    <2>1. HasChecked(q, t)
      BY <1>3 DEF HasChecked
    <2> QED
      BY <2>1 DEF CommandInv, Checked
  <1>10. Written'
    <2> SUFFICES ASSUME NEW q \in Procs, Undisturbed(q)'
                 PROVE  /\ \A t \in Streams : HasOpen(q, t)' \/ Succeeded(q)' =>
                            disk'[FileOf(q, t)] =
                                [i \in 1 .. written[q][t] |-> <<q, t>>]
                        /\ Succeeded(q)' =>
                            \A t \in Streams : written[q][t] = Pieces[t]
      BY <1>4 DEF Written
    <2>1. CASE q = p
      <3>1. ~Succeeded(p)' /\ ~Succeeded(p)
        BY <1>3 DEF Succeeded
      <3>2. written[p][s] = 0
        BY DEF CommandInv, Started
      <3>3. Empty = [i \in 1 .. written[p][s] |-> <<p, s>>]
        BY <3>2 DEF Empty
      <3>4. ASSUME NEW t \in Streams, t # s, HasOpen(p, t)'
            PROVE  /\ HasOpen(p, t) /\ FileOf(p, t) # FileOf(p, s)
                   /\ Undisturbed(p)
        BY <3>4, <2>1, <1>3, <1>5 DEF HasOpen, Streams
      <3> QED
        BY <2>1, <3>1, <3>3, <3>4, <1>3, <1>4 DEF CommandInv, Written
    <2>2. CASE q # p
      <3>1. Undisturbed(q) /\ \A t \in Streams : FileOf(q, t) # FileOf(p, s)
        BY <2>2, <1>5
      <3>2. /\ Succeeded(q)' <=> Succeeded(q)
            /\ \A t \in Streams : HasOpen(q, t)' <=> HasOpen(q, t)
        BY <2>2, <1>3 DEF Succeeded, HasOpen
      <3> QED
        BY <3>1, <3>2, <1>3, <1>4 DEF CommandInv, Written
    <2> QED
      BY <2>1, <2>2
  <1> QED
    BY <1>2, <1>6, <1>7, <1>8, <1>9, <1>10 DEF CommandInv

\* A piece reaches the file of an open stream, at the position that is next.
LEMMA WritesKeepTheInvariant ==
    ASSUME CommandInv, NEW p \in Procs, NEW s \in Streams, Write(p, s)
    PROVE  CommandInv'
  <1> DEFINE n == written[p][s] + 1
             file == FileOf(p, s)
             piece == <<p, s>>
             new == Put(disk[file], n, piece)
  <1>1. /\ pc' = pc /\ options' = options /\ bad' = bad /\ exit' = exit
        /\ pc[p] = "write" /\ written[p][s] < Pieces[s]
        /\ written' = [written EXCEPT ![p][s] = n]
        /\ disk' = [disk EXCEPT ![file] = new]
        /\ unseen' = unseen /\ disturbed' = disturbed \cup Others(p, file)
    BY DEF Write, Pending
  <1>2. file \in Files /\ written[p][s] \in Nat /\ Pieces[s] \in Nat
    BY NamesAreFiles, FilesAssumption DEF CommandInv, Typed
  <1>3. n \in 1 .. Pieces[s]
    BY <1>1, <1>2
  <1>4. disk[file] \in Contents
    <2>1. disk[file] \notin {Absent, Old}
      BY <1>1 DEF CommandInv, Opened, HasOpen
    <2> QED
      BY <2>1, <1>2 DEF CommandInv, Typed
  <1>5. new \in Contents /\ new \notin {Absent, Old}
    BY <1>3, <1>4, PutIsAContent
  <1>6. /\ DOMAIN new = DOMAIN disk[file] \cup {n}
        /\ \A j \in DOMAIN new : new[j] = IF j = n THEN piece ELSE disk[file][j]
    BY DEF Put
  <1>7. \A f \in Files : disk'[f] = IF f = file THEN new ELSE disk[f]
    BY <1>1, <1>2 DEF CommandInv, Typed
  <1>8. \A q \in Procs, t \in Streams :
            written'[q][t] = IF q = p /\ t = s THEN n ELSE written[q][t]
    BY <1>1 DEF CommandInv, Typed
  <1>9. \A q \in Procs, t \in Streams :
            /\ PathOf(q, t)' = PathOf(q, t) /\ FileOf(q, t)' = FileOf(q, t)
            /\ FileOf(q, t) \in Files
    BY <1>1, NamesAreFiles DEF PathOf, FileOf, CommandInv
  <1>10. \A q \in Procs : Undisturbed(q)' =>
            /\ Undisturbed(q)
            /\ q # p => \A t \in Streams : FileOf(q, t) # file
    BY <1>1, <1>9 DEF Undisturbed, Others, Outputs, Streams
  <1> HIDE DEF n, file, piece, new
  <1>11. Typed'
    <2>1. written' \in [Procs -> [Streams -> Nat]]
      BY <1>1, <1>3 DEF CommandInv, Typed
    <2>2. disk' \in [Files -> Contents \cup {Absent, Old}]
      BY <1>1, <1>2, <1>5 DEF CommandInv, Typed
    <2> QED
      BY <1>1, <2>1, <2>2 DEF CommandInv, Typed, Others
  <1>12. \A q \in Procs, t \in Streams :
            written[q][t] <= written'[q][t] /\ written'[q][t] \in Nat
    <2> SUFFICES ASSUME NEW q \in Procs, NEW t \in Streams
                 PROVE  /\ written[q][t] <= written'[q][t]
                        /\ written'[q][t] \in Nat
      OBVIOUS
    <2>1. written[q][t] \in Nat
      BY DEF CommandInv, Typed
    <2> QED
      BY <2>1, <1>2, <1>8 DEF n
  <1>13. (\A f \in Files : InPlace(f))'
    <2> SUFFICES ASSUME NEW f \in Files, disk'[f] \notin {Absent, Old},
                        NEW i \in DOMAIN disk'[f]
                 PROVE  \E q \in Procs, t \in Streams :
                            /\ disk'[f][i] = <<q, t>>
                            /\ FileOf(q, t) = f
                            /\ i <= written'[q][t] /\ written'[q][t] <= Pieces[t]
      BY <1>9 DEF InPlace
    <2>1. CASE f = file /\ i = n
      <3>1. disk'[f][i] = <<p, s>>
        BY <2>1, <1>6, <1>7 DEF piece
      <3>2. FileOf(p, s) = f /\ written'[p][s] = n
        BY <2>1, <1>8 DEF file
      <3> QED
        BY <2>1, <3>1, <3>2, <1>3
    <2>2. CASE f # file \/ i # n
      <3>1. disk[f] \notin {Absent, Old}
        BY <2>2, <1>4, <1>7, FilesAssumption
      <3>2. i \in DOMAIN disk[f] /\ disk'[f][i] = disk[f][i]
        BY <2>2, <1>6, <1>7
      <3>3. PICK q \in Procs, t \in Streams :
                /\ disk[f][i] = <<q, t>>
                /\ FileOf(q, t) = f
                /\ i <= written[q][t] /\ written[q][t] <= Pieces[t]
        BY <3>1, <3>2 DEF CommandInv, InPlace
      <3>4. i <= written'[q][t] /\ written'[q][t] <= Pieces[t]
        <4>1. CASE q = p /\ t = s
          <5>1. i = written[q][t] \/ i <= written[q][t]
            BY <3>3
          <5>2. i \in Nat
            <6>1. disk[f] \in Contents
              BY <3>1 DEF CommandInv, Typed
            <6>2. PICK positions \in
                           SUBSET UNION {1 .. Pieces[u] : u \in Streams} :
                      disk[f] \in [positions -> Procs \X Streams]
              BY <6>1 DEF Contents
            <6>3. PICK u \in Streams : i \in 1 .. Pieces[u]
              BY <6>2, <3>2
            <6> QED
              BY <6>3
          <5> QED
            BY <4>1, <5>2, <3>3, <1>3, <1>8, <1>2 DEF n
        <4>2. CASE ~(q = p /\ t = s)
          BY <4>2, <3>3, <1>8
        <4> QED
          BY <4>1, <4>2
      <3> QED
        BY <3>2, <3>3, <3>4
    <2> QED
      BY <2>1, <2>2
  <1>14. Started'
    <2>1. \A q \in Procs, t \in Streams : written'[q][t] <= Pieces[t]
      BY <1>3, <1>8 DEF CommandInv, Started
    <2>2. ASSUME NEW q \in Procs, pc[q] \notin {"write", "exited"}
          PROVE  written'[q] = written[q]
      BY <2>2, <1>1 DEF CommandInv, Typed
    <2> QED
      BY <1>1, <2>1, <2>2 DEF CommandInv, Started
  <1>15. Opened'
    BY <1>1, <1>5, <1>7, <1>9 DEF CommandInv, Opened, HasOpen, Succeeded
  <1>16. Checked'
    BY <1>1, <1>9 DEF CommandInv, Checked, HasChecked
  <1>17. Written'
    <2> SUFFICES ASSUME NEW q \in Procs, Undisturbed(q)'
                 PROVE  /\ \A t \in Streams : HasOpen(q, t) \/ Succeeded(q) =>
                            disk'[FileOf(q, t)] =
                                [i \in 1 .. written'[q][t] |-> <<q, t>>]
                        /\ Succeeded(q) =>
                            \A t \in Streams : written'[q][t] = Pieces[t]
      BY <1>1, <1>9 DEF Written, HasOpen, Succeeded
    <2>1. CASE q = p
      <3>1. ~Succeeded(p)
        BY <1>1 DEF Succeeded
      <3>2. new = [i \in 1 .. n |-> <<p, s>>]
        <4>1. disk[file] = [i \in 1 .. written[p][s] |-> <<p, s>>]
          BY <2>1, <1>1, <1>10 DEF CommandInv, Written, HasOpen, file
        <4>2. 1 .. n = (1 .. written[p][s]) \cup {n}
          BY <1>2 DEF n
        <4> QED
          BY <4>1, <4>2 DEF new, Put, piece
      <3>3. disk'[file] = [i \in 1 .. written'[p][s] |-> <<p, s>>]
        BY <3>2, <1>2, <1>7, <1>8
      <3>4. ASSUME NEW t \in Streams, t # s, HasOpen(p, t)
            PROVE  disk'[FileOf(p, t)] =
                       [i \in 1 .. written'[p][t] |-> <<p, t>>]
        <4>1. FileOf(p, t) # file
          BY <3>4, <2>1, <1>10 DEF Undisturbed, Streams, file
        <4>2. disk'[FileOf(p, t)] = disk[FileOf(p, t)]
          BY <4>1, <1>7, <1>9
        <4>3. written'[p][t] = written[p][t]
          BY <3>4, <1>8
        <4> QED
          BY <2>1, <3>4, <4>2, <4>3, <1>10 DEF CommandInv, Written
      <3> QED
        BY <2>1, <3>1, <3>3, <3>4 DEF file
    <2>2. CASE q # p
      <3>1. \A t \in Streams : FileOf(q, t) # file
        BY <2>2, <1>10
      <3>2. \A t \in Streams : /\ disk'[FileOf(q, t)] = disk[FileOf(q, t)]
                               /\ written'[q][t] = written[q][t]
        BY <2>2, <3>1, <1>7, <1>8, <1>9
      <3> QED
        BY <3>2, <1>10 DEF CommandInv, Written
    <2> QED
      BY <2>1, <2>2
  <1> QED
    BY <1>11, <1>13, <1>14, <1>15, <1>16, <1>17 DEF CommandInv

\* A file that another program creates was nobody's: a command that has opened
\* its file has created it.
LEMMA AppearingKeepsTheInvariant ==
    ASSUME CommandInv, NEW new \in Files, Appear(new)
    PROVE  CommandInv'
  <1>1. /\ pc' = pc /\ options' = options /\ written' = written
        /\ bad' = bad /\ exit' = exit /\ unseen' = unseen
        /\ disturbed' = disturbed
        /\ disk[new] = Absent /\ disk' = [disk EXCEPT ![new] = Old]
    BY DEF Appear
  <1>2. \A f \in Files : disk'[f] = IF f = new THEN Old ELSE disk[f]
    BY <1>1 DEF CommandInv, Typed
  <1>3. \A q \in Procs, t \in Streams :
            /\ PathOf(q, t)' = PathOf(q, t) /\ FileOf(q, t)' = FileOf(q, t)
            /\ FileOf(q, t) \in Files
    BY <1>1, NamesAreFiles DEF PathOf, FileOf, CommandInv
  <1>4. \A q \in Procs, t \in Streams : HasOpen(q, t) \/ Succeeded(q) =>
            disk'[FileOf(q, t)] = disk[FileOf(q, t)]
    BY <1>1, <1>2, <1>3 DEF CommandInv, Opened
  <1>5. Typed'
    BY <1>1 DEF CommandInv, Typed
  <1>6. (\A f \in Files : InPlace(f))'
    BY <1>1, <1>2, <1>3 DEF CommandInv, InPlace
  <1>7. Started' /\ Checked'
    BY <1>1, <1>3 DEF CommandInv, Started, Checked, HasChecked
  <1>8. Opened'
    BY <1>1, <1>3, <1>4 DEF CommandInv, Opened, HasOpen, Succeeded
  <1>9. \A q \in Procs : Undisturbed(q)' <=> Undisturbed(q)
    BY <1>1, <1>3 DEF Undisturbed, Streams
  <1>10. Written'
    BY <1>1, <1>3, <1>4, <1>9 DEF CommandInv, Written, HasOpen, Succeeded
  <1> QED
    BY <1>5, <1>6, <1>7, <1>8, <1>10 DEF CommandInv

-----------------------------------------------------------------------------
LEMMA CommandStarts == Init => CommandInv
  <1> SUFFICES ASSUME Init PROVE CommandInv
    OBVIOUS
  <1>1. Typed
    BY DEF Init, Typed, Labels
  <1>2. \A f \in Files : InPlace(f)
    BY DEF Init, InPlace
  <1>3. \A p \in Procs : pc[p] = "parse"
    BY DEF Init
  <1>4. Started
    <2>1. \A p \in Procs : written[p] = [s \in Streams |-> 0] /\ bad[p] = {}
      BY DEF Init
    <2> QED
      BY <1>3, <2>1, FilesAssumption DEF Started
  <1>5. Opened /\ Checked /\ Written
    BY <1>3 DEF Opened, Checked, Written, HasOpen, HasChecked, Succeeded
  <1> QED
    BY <1>1, <1>2, <1>4, <1>5 DEF CommandInv

\* A process that ends is past every check.
LEMMA EndsKeepTheInvariant ==
    ASSUME CommandInv, NEW p \in Procs, NEW code \in {0, 2, 3, 9},
           pc[p] # "exited",
           code = 0 =>
               pc[p] = "write" /\ \A s \in Streams : written[p][s] = Pieces[s],
           Exit(p, code), OnlyLooks
    PROVE  CommandInv'
  <1>1. /\ pc' = [pc EXCEPT ![p] = "exited"]
        /\ exit' = [exit EXCEPT ![p] = code]
        /\ "exited" \in Labels
    BY DEF Exit, Goto, Labels
  <1>2. pc'[p] = "exited"
    BY <1>1 DEF CommandInv, Typed
  <1>3. \A s \in Streams : ~HasChecked(p, s)'
    BY <1>2 DEF HasChecked
  <1>4. \A s \in Streams : HasChecked(p, s)' /\ ~options[p].force =>
            PathOf(p, s) \in Unreachable \/ FileOf(p, s) \in unseen'[p]
    BY <1>3
  <1> QED
    BY <1>1, <1>4, MovesKeepTheInvariant

\* What a process may go on to before it opens a stream.
LEMMA GoingOnKeepsTheInvariant ==
    ASSUME CommandInv, NEW p \in Procs,
           NEW label \in {"check_nodes", "check_edges", "generate", "open_nodes"},
           pc[p] \notin {"exited", "write"},
           Goto(p, label),
           exit' = exit, OnlyLooks,
           \A s \in Streams :
               (label = "check_edges" => s = "nodes") /\ ~options[p].force =>
                   \/ label = "check_nodes"
                   \/ PathOf(p, s) \in Unreachable
                   \/ FileOf(p, s) \in unseen'[p]
    PROVE  CommandInv'
  <1>1. /\ pc' = [pc EXCEPT ![p] = label]
        /\ label \in Labels /\ label \notin {"open_edges", "write", "exited"}
    BY DEF Goto, Labels
  <1>2. exit[p] \in {0, 2, 3, 9} /\ exit' = [exit EXCEPT ![p] = exit[p]]
    BY DEF CommandInv, Typed
  <1>3. pc'[p] = label
    BY <1>1 DEF CommandInv, Typed
  <1>4. \A s \in Streams : HasChecked(p, s)' /\ ~options[p].force =>
            PathOf(p, s) \in Unreachable \/ FileOf(p, s) \in unseen'[p]
    BY <1>3 DEF HasChecked
  <1> QED
    BY <1>1, <1>2, <1>4, MovesKeepTheInvariant

LEMMA StepsKeepTheInvariant ==
    ASSUME CommandInv, NEW p \in Procs, Step(p) \/ Kill(p)
    PROVE  CommandInv'
  <1>0. ASSUME options' = options, written' = written, bad' = bad,
               disk' = disk, unseen' = unseen, disturbed' = disturbed
        PROVE  OnlyLooks
    BY <1>0 DEF OnlyLooks, CommandInv, Typed
  <1>1. ASSUME NEW code \in {2, 3, 9}, pc[p] # "exited", Exit(p, code),
               OnlyLooks
        PROVE  CommandInv'
    <2>1. code \in {0, 2, 3, 9} /\ code # 0
      BY <1>1
    <2> QED
      BY <1>1, <2>1, EndsKeepTheInvariant
  <1>2. CASE CheckUsage(p)
    <2>1. pc[p] = "parse" /\ OnlyLooks
      BY <1>0, <1>2 DEF CheckUsage
    <2>2. CASE Exit(p, 2)
      BY <1>1, <2>1, <2>2
    <2>3. CASE Goto(p, "generate") /\ exit' = exit /\ options[p].force
      BY <2>1, <2>3, GoingOnKeepsTheInvariant
    <2>4. CASE Goto(p, "check_nodes") /\ exit' = exit
      BY <2>1, <2>4, GoingOnKeepsTheInvariant
    <2> QED
      BY <1>2, <2>2, <2>3, <2>4 DEF CheckUsage
  <1>3. ASSUME NEW s \in Streams, NEW here, NEW after,
               CheckExists(p, s, here, after)
        PROVE  /\ OnlyLooks
               /\ ~Exists(p, s) =>
                    \/ PathOf(p, s) \in Unreachable
                    \/ FileOf(p, s) \in unseen'[p]
    <2>1. /\ options' = options /\ written' = written /\ bad' = bad
          /\ disk' = disk /\ disturbed' = disturbed
          /\ unseen' = [unseen EXCEPT ![p] =
                          @ \cup {f \in {FileOf(p, s)} : disk[f] = Absent}]
      BY <1>3 DEF CheckExists
    <2>2. FileOf(p, s) \in Files /\ unseen \in [Procs -> SUBSET Files]
      BY NamesAreFiles DEF CommandInv, Typed
    <2>3. \A q \in Procs : unseen'[q] =
            IF q = p
            THEN unseen[p] \cup {f \in {FileOf(p, s)} : disk[f] = Absent}
            ELSE unseen[q]
      BY <2>1, <2>2
    <2>4. OnlyLooks
      BY <2>1, <2>2, <2>3 DEF OnlyLooks
    <2> QED
      BY <2>3, <2>4 DEF Exists
  <1>4. CASE CheckNodes(p)
    <2>1. /\ pc[p] = "check_nodes" /\ OnlyLooks
          /\ ~Exists(p, "nodes") =>
                \/ PathOf(p, "nodes") \in Unreachable
                \/ FileOf(p, "nodes") \in unseen'[p]
      BY <1>3, <1>4 DEF CheckNodes, CheckExists, Streams
    <2>2. CASE Exit(p, 3)
      BY <1>1, <2>1, <2>2
    <2>3. CASE ~Exists(p, "nodes") /\ Goto(p, "check_edges") /\ exit' = exit
      BY <2>1, <2>3, GoingOnKeepsTheInvariant
    <2> QED
      BY <1>4, <2>2, <2>3 DEF CheckNodes, CheckExists
  <1>5. CASE CheckEdges(p)
    <2>1. /\ pc[p] = "check_edges" /\ OnlyLooks
          /\ ~Exists(p, "edges") =>
                \/ PathOf(p, "edges") \in Unreachable
                \/ FileOf(p, "edges") \in unseen'[p]
      BY <1>3, <1>5 DEF CheckEdges, CheckExists, Streams
    <2>2. CASE Exit(p, 3)
      BY <1>1, <2>1, <2>2
    <2>3. CASE ~Exists(p, "edges") /\ Goto(p, "generate") /\ exit' = exit
      <3>1. ~options[p].force =>
                \/ PathOf(p, "nodes") \in Unreachable
                \/ FileOf(p, "nodes") \in unseen'[p]
        BY <2>1 DEF CommandInv, Checked, HasChecked, Streams, OnlyLooks
      <3>2. \A s \in Streams : s = "nodes" \/ s = "edges"
        BY DEF Streams
      <3> QED
        BY <2>1, <2>3, <3>1, <3>2, GoingOnKeepsTheInvariant
    <2> QED
      BY <1>5, <2>2, <2>3 DEF CheckEdges, CheckExists
  <1>6. CASE Generate(p)
    <2>1. pc[p] = "generate" /\ OnlyLooks
      BY <1>0, <1>6 DEF Generate
    <2>2. CASE Exit(p, 3)
      BY <1>1, <2>1, <2>2
    <2>3. CASE Goto(p, "open_nodes") /\ exit' = exit
      <3>1. \A s \in Streams : ~options[p].force =>
                \/ PathOf(p, s) \in Unreachable
                \/ FileOf(p, s) \in unseen'[p]
        BY <2>1 DEF CommandInv, Checked, HasChecked, OnlyLooks
      <3> QED
        BY <2>1, <2>3, <3>1, GoingOnKeepsTheInvariant
    <2> QED
      BY <1>6, <2>2, <2>3 DEF Generate
  <1>7. ASSUME NEW s \in Streams, NEW here, NEW after,
               \/ s = "nodes" /\ here = "open_nodes" /\ after = "open_edges"
               \/ s = "edges" /\ here = "open_edges" /\ after = "write",
               Open(p, s, here, after)
        PROVE  CommandInv'
    <2>1. /\ pc[p] = here
          /\ options' = options /\ written' = written /\ bad' = bad
          /\ unseen' = unseen
      BY <1>7 DEF Open
    <2>2. CASE Exit(p, 3) /\ disk' = disk /\ disturbed' = disturbed
      <3>1. pc[p] # "exited"
        BY <1>7, <2>1
      <3> QED
        BY <1>0, <1>1, <2>1, <2>2, <3>1
    <2>3. CASE /\ PathOf(p, s) \notin Unreachable
               /\ disk' = [disk EXCEPT ![FileOf(p, s)] = Empty]
               /\ disturbed' = (disturbed \cup Others(p, FileOf(p, s)))
                                 \ (IF s = "nodes" THEN {p} ELSE {})
               /\ Goto(p, after) /\ exit' = exit
      <3>1. pc' = [pc EXCEPT ![p] = after]
        BY <2>3 DEF Goto
      <3> QED
        BY <1>7, <2>1, <2>3, <3>1, OpeningKeepsTheInvariant
    <2> QED
      BY <1>7, <2>2, <2>3 DEF Open
  <1>8. CASE OpenNodes(p) \/ OpenEdges(p)
    BY <1>7, <1>8 DEF OpenNodes, OpenEdges, Streams
  <1>9. CASE \E s \in Streams : FailWrite(p, s) \/ Write(p, s)
    BY <1>9, FailuresKeepTheInvariant, WritesKeepTheInvariant
  <1>10. CASE Finish(p)
    <2>1. pc[p] = "write" /\ OnlyLooks
      BY <1>0, <1>10 DEF Finish
    <2>2. CASE Exit(p, 3)
      BY <1>1, <2>1, <2>2
    <2>3. CASE bad[p] = {} /\ Exit(p, 0)
      <3>1. ASSUME NEW s \in Streams PROVE written[p][s] = Pieces[s]
        <4>1. written[p][s] \in Nat /\ Pieces[s] \in Nat
          BY FilesAssumption DEF CommandInv, Typed
        <4>2. written[p][s] <= Pieces[s] /\ ~(written[p][s] < Pieces[s])
          BY <1>10, <2>3 DEF CommandInv, Started, Finish, Pending
        <4> QED
          BY <4>1, <4>2
      <3> QED
        BY <2>1, <2>3, <3>1, EndsKeepTheInvariant
    <2> QED
      BY <1>10, <2>2, <2>3 DEF Finish
  <1>11. CASE Kill(p)
    <2>1. pc[p] # "exited" /\ Exit(p, 9) /\ OnlyLooks
      BY <1>0, <1>11 DEF Kill, Exit
    <2> QED
      BY <1>1, <2>1
  <1> QED
    BY <1>2, <1>4, <1>5, <1>6, <1>8, <1>9, <1>10, <1>11 DEF Step

\* The invariant is kept by every step of every process.
THEOREM CommandInvariant == Spec => []CommandInv
  <1>1. CommandInv /\ [Next]_vars => CommandInv'
    <2> SUFFICES ASSUME CommandInv, [Next]_vars PROVE CommandInv'
      OBVIOUS
    <2>1. CASE Next
      BY <2>1, StepsKeepTheInvariant, AppearingKeepsTheInvariant DEF Next
    <2>2. CASE UNCHANGED vars
      <3>1. /\ pc' = pc /\ options' = options /\ written' = written
            /\ bad' = bad /\ exit' = exit /\ disk' = disk
            /\ unseen' = unseen /\ disturbed' = disturbed
        BY <2>2 DEF vars
      <3>2. \A q \in Procs, t \in Streams :
                PathOf(q, t)' = PathOf(q, t) /\ FileOf(q, t)' = FileOf(q, t)
        BY <3>1 DEF PathOf, FileOf
      <3>3. \A q \in Procs : Undisturbed(q)' <=> Undisturbed(q)
        BY <3>1, <3>2 DEF Undisturbed, Streams
      <3>4. Typed' /\ Started'
        BY <3>1 DEF CommandInv, Typed, Started
      <3>5. (\A f \in Files : InPlace(f))'
        BY <3>1, <3>2 DEF CommandInv, InPlace
      <3>6. Opened' /\ Checked'
        BY <3>1, <3>2 DEF CommandInv, Opened, Checked, HasOpen, HasChecked,
                          Succeeded
      <3>7. Written'
        BY <3>1, <3>2, <3>3 DEF CommandInv, Written, HasOpen, Succeeded
      <3> QED
        BY <3>4, <3>5, <3>6, <3>7 DEF CommandInv
    <2> QED
      BY <2>1, <2>2
  <1> QED
    BY <1>1, CommandStarts, PTL DEF Spec

-----------------------------------------------------------------------------
(***************************************************************************)
(* Type correctness: in particular no file ever holds a piece that its     *)
(* process has not written, or at another position than its own.           *)
(***************************************************************************)
THEOREM CommandTypeCorrect == Spec => []TypeOK
  <1>1. CommandInv => TypeOK
    <2> SUFFICES ASSUME CommandInv PROVE TypeOK
      OBVIOUS
    <2>1. DOMAIN disk = Files
      BY DEF CommandInv, Typed
    <2>2. Typed /\ \A f \in Files : InPlace(f)
      BY DEF CommandInv
    <2> QED
      BY <2>1, <2>2 DEF TypeOK, Typed, InPlace
  <1> QED
    BY <1>1, CommandInvariant, PTL

(***************************************************************************)
(* Exit code 0 vouches for both files of a command, wherever its writes    *)
(* failed or were cut up and whatever was there before, when its two paths *)
(* reach two files and nobody else has written over them since it opened   *)
(* the first.                                                              *)
(***************************************************************************)
THEOREM SuccessVouchesForTheFiles == Spec => []SuccessMeansBothFiles
  <1>1. CommandInv => SuccessMeansBothFiles
    <2> SUFFICES ASSUME CommandInv, NEW p \in Procs, p \notin disturbed,
                        Cardinality(Outputs(p)) = 2,
                        pc[p] = "exited", exit[p] = 0,
                        NEW s \in Streams
                 PROVE  disk[FileOf(p, s)] = Text(p, s)
      BY DEF SuccessMeansBothFiles, Vouched
    <2>1. FileOf(p, "nodes") # FileOf(p, "edges")
      <3>1. SUFFICES ASSUME FileOf(p, "nodes") = FileOf(p, "edges") PROVE FALSE
        OBVIOUS
      <3>2. Outputs(p) = {FileOf(p, "nodes")}
        BY <3>1 DEF Outputs, Streams
      <3>3. Cardinality({FileOf(p, "nodes")}) = 1
        BY FS_Singleton
      <3> QED
        BY <3>2, <3>3
    <2>2. /\ disk[FileOf(p, s)] = [i \in 1 .. written[p][s] |-> <<p, s>>]
          /\ written[p][s] = Pieces[s]
      BY <2>1 DEF CommandInv, Written, Undisturbed, Succeeded
    <2> QED
      BY <2>2 DEF Text
  <1> QED
    BY <1>1, CommandInvariant, PTL

(***************************************************************************)
(* What is lost of a file, one of another program or one that a command has*)
(* written in, is lost to a command that names it, and without --force only*)
(* to one that found no such file when it looked, although the checks and  *)
(* the openings are separate steps and files appear in between.            *)
(***************************************************************************)
THEOREM SeenFilesAreKept == Spec => SeenFilesSurvive
  <1> DEFINE Excused(f) ==
                \E p \in Procs :
                    /\ pc'[p] # pc[p] /\ f \in Outputs(p)
                    /\ options[p].force \/ f \in unseen[p]
  <1>1. CommandInv /\ [Next]_vars =>
            [\A f \in Files : Lost(f) => Excused(f)]_vars
    <2> SUFFICES ASSUME CommandInv, Next, NEW f \in Files, Lost(f)
                 PROVE  Excused(f)
      BY DEF vars
    <2>1. ASSUME NEW p \in Procs, NEW s \in Streams, HasChecked(p, s),
                 PathOf(p, s) \notin Unreachable, pc'[p] # pc[p],
                 disk' = [disk EXCEPT ![FileOf(p, s)] = Empty]
          PROVE  Excused(f)
      <3>1. f = FileOf(p, s)
        BY <2>1 DEF CommandInv, Typed, Lost
      <3>2. options[p].force \/ f \in unseen[p]
        BY <2>1, <3>1 DEF CommandInv, Checked
      <3> QED
        BY <2>1, <3>1, <3>2 DEF Outputs
    <2>2. ASSUME NEW p \in Procs, OpenNodes(p)
          PROVE  Excused(f)
      <3>1. CASE disk' = disk
        BY <3>1 DEF Lost
      <3>2. CASE disk' # disk
        <4>1. /\ pc[p] = "open_nodes" /\ pc' = [pc EXCEPT ![p] = "open_edges"]
              /\ PathOf(p, "nodes") \notin Unreachable
              /\ disk' = [disk EXCEPT ![FileOf(p, "nodes")] = Empty]
          BY <2>2, <3>2 DEF OpenNodes, Open, Goto
        <4>2. pc'[p] # pc[p] /\ HasChecked(p, "nodes") /\ "nodes" \in Streams
          BY <4>1 DEF CommandInv, Typed, HasChecked, Streams
        <4> QED
          BY <2>1, <4>1, <4>2
      <3> QED
        BY <3>1, <3>2
    <2>3. ASSUME NEW p \in Procs, OpenEdges(p)
          PROVE  Excused(f)
      <3>1. CASE disk' = disk
        BY <3>1 DEF Lost
      <3>2. CASE disk' # disk
        <4>1. /\ pc[p] = "open_edges" /\ pc' = [pc EXCEPT ![p] = "write"]
              /\ PathOf(p, "edges") \notin Unreachable
              /\ disk' = [disk EXCEPT ![FileOf(p, "edges")] = Empty]
          BY <2>3, <3>2 DEF OpenEdges, Open, Goto
        <4>2. pc'[p] # pc[p] /\ HasChecked(p, "edges") /\ "edges" \in Streams
          BY <4>1 DEF CommandInv, Typed, HasChecked, Streams
        <4> QED
          BY <2>1, <4>1, <4>2
      <3> QED
        BY <3>1, <3>2
    <2>4. ASSUME NEW p \in Procs, NEW s \in Streams, Write(p, s)
          PROVE  FALSE
      <3> DEFINE n == written[p][s] + 1
                 new == Put(disk[FileOf(p, s)], n, <<p, s>>)
      <3>1. pc[p] = "write" /\ disk' = [disk EXCEPT ![FileOf(p, s)] = new]
        BY <2>4 DEF Write
      <3>2. disk[FileOf(p, s)] # Old
        BY <3>1 DEF CommandInv, Opened, HasOpen
      <3>3. n \in DOMAIN new /\ DOMAIN Empty = {}
        BY DEF Put, Empty
      <3>4. new # Empty
        BY <3>3
      <3> HIDE DEF n, new
      <3> QED
        BY <3>1, <3>2, <3>4 DEF CommandInv, Typed, Lost
    <2>5. ASSUME NEW g \in Files, Appear(g)
          PROVE  FALSE
      <3>1. disk[g] = Absent /\ disk' = [disk EXCEPT ![g] = Old]
        BY <2>5 DEF Appear
      <3> QED
        BY <3>1, EmptyIsAContent, FilesAssumption DEF CommandInv, Typed, Lost
    <2>6. CASE disk' = disk
      BY <2>6 DEF Lost
    <2> QED
      BY <2>2, <2>3, <2>4, <2>5, <2>6
         DEF Next, Step, CheckUsage, CheckNodes, CheckEdges, CheckExists,
             Generate, FailWrite, Finish, Kill
  <1> QED
    BY <1>1, CommandInvariant, PTL DEF Spec, SeenFilesSurvive
=============================================================================
