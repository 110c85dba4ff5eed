----------------------------- MODULE RunMonitor -----------------------------
(***************************************************************************)
(* Running the compiled programs, one after another (-test), or one.  Run  *)
(* starts a program and a goroutine that copies its output line by line,   *)
(* and waits for the program to end.  They share the global cmd.  A pipe   *)
(* and a bufio.Reader keep the order of the lines, so each is a number:    *)
(* the lines of program i are 1..Lines[i], of which written[i] have been   *)
(* written, taken[i] are in the reader or were, shown[i] are printed.      *)
(***************************************************************************)
EXTENDS Integers

CONSTANTS
    Lines,          \* program |-> the number of lines it writes
    N,              \* programs are 1..N
    PipeSize,       \* lines that the pipe holds
    BufferSize      \* lines that the reader holds

ASSUME RunAssumption ==
    /\ N \in Nat \ {0}
    /\ Lines \in [1..N -> Nat]
    /\ PipeSize \in Nat \ {0}
    /\ BufferSize \in Nat \ {0}

VARIABLES
    cmd,            \* the global: the program that Run has started, 0 for nil
    cur,            \* the program that main is at
    main,           \* where main is: "build", "wait", "waited", "ok", "failed"
    program,        \* program |-> "new", "runs", "ok", "bad"
    monitor,        \* program |-> "none", "test", "read", "ended"
    open,           \* the programs whose pipe Run has not closed
    written, taken, shown

vars == <<cmd, cur, main, program, monitor, open, written, taken, shown>>

P == 1..N
Over == main \in {"ok", "failed"}

Init ==
    /\ cmd = 0 /\ cur = 1 /\ main = "build" /\ open = {}
    /\ program = [i \in P |-> "new"]
    /\ monitor = [i \in P |-> "none"]
    /\ written = [i \in P |-> 0]
    /\ taken = [i \in P |-> 0]
    /\ shown = [i \in P |-> 0]

-----------------------------------------------------------------------------
(* Main                                                                    *)

\* The goroutine is started last; it has not run yet.
StartProgram ==
    /\ main = "build"
    /\ cmd' = cur
    /\ program' = [program EXCEPT ![cur] = "runs"]
    /\ monitor' = [monitor EXCEPT ![cur] = "test"]
    /\ open' = open \cup {cur}
    /\ main' = "wait"
    /\ UNCHANGED <<cur, written, taken, shown>>

\* The program does not compile, or the pipe or the process cannot be had; in
\* the second case cmd is set already.
StartFails ==
    /\ main = "build"
    /\ main' = "failed"
    /\ \E c \in {cmd, cur} : cmd' = c
    /\ UNCHANGED <<cur, program, monitor, open, written, taken, shown>>

\* cmd.Wait returns: the program has ended, and what is still in the pipe can
\* no longer be read.
Wait ==
    /\ main = "wait" /\ program[cur] \in {"ok", "bad"}
    /\ open' = open \ {cur}
    /\ main' = "waited"
    /\ UNCHANGED <<cmd, cur, program, monitor, written, taken, shown>>

\* cmd stays set when the exit code is not 0.
NewCmd == IF program[cur] = "ok" THEN 0 ELSE cmd

\* Mutant: one too late.
IsPast == cur > N

IsLast == cur = N

Return ==
    /\ main = "waited"
    /\ cmd' = NewCmd
    /\ IF program[cur] = "bad" THEN main' = "failed" /\ cur' = cur
       ELSE IF IsLast THEN main' = "ok" /\ cur' = cur
       ELSE main' = "build" /\ cur' = cur + 1
    /\ UNCHANGED <<program, monitor, open, written, taken, shown>>

-----------------------------------------------------------------------------
(* The program: it stops when the pipe is full.                            *)

WriteLine(i) ==
    /\ program[i] = "runs"
    /\ written[i] < Lines[i] /\ written[i] - taken[i] < PipeSize
    /\ written' = [written EXCEPT ![i] = @ + 1]
    /\ UNCHANGED <<cmd, cur, main, program, monitor, open, taken, shown>>

Exit(i) ==
    /\ program[i] = "runs" /\ written[i] = Lines[i]
    /\ \E code \in {"ok", "bad"} : program' = [program EXCEPT ![i] = code]
    /\ UNCHANGED <<cmd, cur, main, monitor, open, written, taken, shown>>

-----------------------------------------------------------------------------
(* The goroutine; it ends with main.                                       *)

Runs(i, at) == ~Over /\ monitor[i] = at

\* for cmd != nil.  The cmd may be that of a later program.
GoesOn(i) == cmd # 0

TestCmd(i) ==
    /\ Runs(i, "test")
    /\ monitor' = [monitor EXCEPT ![i] = IF GoesOn(i) THEN "read" ELSE "ended"]
    /\ UNCHANGED <<cmd, cur, main, program, open, written, taken, shown>>

\* Mutant: a new reader for every line.
FreshReader(i) == TRUE

ReaderEmpty(i) == taken[i] = shown[i]

\* Mutant: the reader waits until it can be filled.
FetchedFull(i) == {n \in {BufferSize} : n <= written[i] - taken[i]}

Fetched(i) == {n \in 1..BufferSize : n <= written[i] - taken[i]}

\* The reader has no line left and asks for what is in the pipe.
Fill(i) ==
    /\ Runs(i, "read") /\ ReaderEmpty(i) /\ i \in open
    /\ \E n \in Fetched(i) : taken' = [taken EXCEPT ![i] = @ + n]
    /\ UNCHANGED <<cmd, cur, main, program, monitor, open, written, shown>>

ShowLine(i) ==
    /\ Runs(i, "read") /\ shown[i] < taken[i]
    /\ shown' = [shown EXCEPT ![i] = @ + 1]
    /\ monitor' = [monitor EXCEPT ![i] = "test"]
    /\ UNCHANGED <<cmd, cur, main, program, open, written, taken>>

\* Mutant: an empty pipe is taken for its end.
EmptyIsEnd(i) == written[i] = taken[i]

\* End of file, or the pipe was closed.
EndOfOutput(i) ==
    i \notin open \/ (program[i] # "runs" /\ written[i] = taken[i])

StopReading(i) ==
    /\ Runs(i, "read") /\ ReaderEmpty(i) /\ EndOfOutput(i)
    /\ monitor' = [monitor EXCEPT ![i] = "ended"]
    /\ UNCHANGED <<cmd, cur, main, program, open, written, taken, shown>>

-----------------------------------------------------------------------------
Main == StartProgram \/ StartFails \/ Wait \/ Return
Program(i) == WriteLine(i) \/ Exit(i)
Monitor(i) == TestCmd(i) \/ Fill(i) \/ ShowLine(i) \/ StopReading(i)

Next == Main \/ \E i \in P : Program(i) \/ Monitor(i)

\* Main and the goroutines are scheduled by Go, programs by the system; a
\* program that is not held up by the pipe goes on.
Fairness == WF_vars(Main) /\ \A i \in P : WF_vars(Program(i)) /\ WF_vars(Monitor(i))

Spec == Init /\ [][Next]_vars /\ Fairness

-----------------------------------------------------------------------------
TypeOK ==
    /\ cmd \in {0} \cup P /\ cur \in P
    /\ main \in {"build", "wait", "waited", "ok", "failed"}
    /\ program \in [P -> {"new", "runs", "ok", "bad"}]
    /\ monitor \in [P -> {"none", "test", "read", "ended"}]
    /\ open \subseteq P
    /\ written \in [P -> Nat] /\ taken \in [P -> Nat] /\ shown \in [P -> Nat]

\* As long as a program runs its goroutine is there to empty the pipe: the
\* cmd = nil of an earlier Run, whose goroutine may still be at work, does not
\* end it.
MonitorServes == \A i \in P : program[i] = "runs" => monitor[i] \in {"test", "read"} /\ cmd = i

\* Run waits for the program and not for the goroutine, so that output may be
\* lost: of a program that has ended at most what pipe and reader hold.
LossIsBounded ==
    \A i \in P : program[i] \in {"ok", "bad"} => Lines[i] - shown[i] <= PipeSize + BufferSize

\* main ends: no program waits for ever on a pipe that nobody reads.
MainEnds == <>Over
=============================================================================
