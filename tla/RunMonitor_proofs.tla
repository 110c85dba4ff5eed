-------------------------- MODULE RunMonitor_proofs --------------------------
(***************************************************************************)
(* For any number of programs, any output and any sizes: the goroutine of  *)
(* a running program is there, and no more output is lost than pipe and    *)
(* reader hold.                                                            *)
(***************************************************************************)
EXTENDS RunMonitor, TLAPS

\* The counters of a program are in order, and no further apart than pipe and
\* reader allow.
InOrder(i) ==
    /\ shown[i] <= taken[i] /\ taken[i] <= written[i] /\ written[i] <= Lines[i]
    /\ written[i] - taken[i] <= PipeSize
    /\ taken[i] - shown[i] <= BufferSize
    /\ program[i] \in {"ok", "bad"} => written[i] = Lines[i]

\* A running program is the one main waits for; its pipe is open.
Current(i) ==
    program[i] = "runs" =>
        /\ main = "wait" /\ i = cur /\ cmd = i
        /\ i \in open /\ monitor[i] \in {"test", "read"}

IInv == TypeOK /\ \A i \in P : InOrder(i) /\ Current(i)

LEMMA InitIInv == Init => IInv
  BY RunAssumption DEF Init, IInv, TypeOK, InOrder, Current, P

LEMMA StepTypeOK == ASSUME TypeOK, [Next]_vars PROVE TypeOK'
<1> USE DEF TypeOK
<1>1. CASE StartProgram
  BY <1>1 DEF StartProgram
<1>2. CASE StartFails
  BY <1>2 DEF StartFails
<1>3. CASE Wait
  BY <1>3 DEF Wait
<1>4. CASE Return
  <2>1. cur \in 1..N /\ N \in Nat
    BY RunAssumption DEF P
  <2>2. cur' = cur \/ (cur' = cur + 1 /\ cur # N)
    BY <1>4 DEF Return, IsLast
  <2>3. cur' \in P
    BY ONLY <2>1, <2>2 DEF P
  <2> QED
    BY <1>4, <2>3 DEF Return, NewCmd
<1>5. ASSUME NEW i \in P, Program(i) PROVE TypeOK'
  BY <1>5 DEF Program, WriteLine, Exit
<1>6. ASSUME NEW i \in P, Monitor(i) PROVE TypeOK'
  <2>1. CASE TestCmd(i)
    BY <2>1 DEF TestCmd
  <2>2. CASE Fill(i)
    <3>1. PICK n \in 1..BufferSize : taken' = [taken EXCEPT ![i] = @ + n]
      BY <2>2 DEF Fill, Fetched
    <3>2. taken' \in [P -> Nat]
      BY <3>1, RunAssumption
    <3> QED
      BY <2>2, <3>2 DEF Fill
  <2>3. CASE ShowLine(i)
    BY <2>3 DEF ShowLine
  <2>4. CASE StopReading(i)
    BY <2>4 DEF StopReading
  <2> QED
    BY <1>6, <2>1, <2>2, <2>3, <2>4 DEF Monitor
<1>7. CASE UNCHANGED vars
  BY <1>7 DEF vars
<1> QED
  BY <1>1, <1>2, <1>3, <1>4, <1>5, <1>6, <1>7 DEF Next, Main

\* Main's steps leave the counters alone and find no program running, except
\* the one that StartProgram starts.
LEMMA MainStep == ASSUME IInv, Main, NEW j \in P PROVE InOrder(j)' /\ Current(j)'
<1> USE RunAssumption DEF IInv, TypeOK, InOrder, Current
<1>1. CASE StartProgram
  BY <1>1 DEF StartProgram
<1>2. CASE StartFails
  BY <1>2 DEF StartFails
<1>3. CASE Wait
  BY <1>3 DEF Wait
<1>4. CASE Return
  BY <1>4 DEF Return
<1> QED
  BY <1>1, <1>2, <1>3, <1>4 DEF Main

\* The counters and bounds are numbers, 0 is no program.
LEMMA Numbers ==
  ASSUME TypeOK, NEW j \in P
  PROVE  /\ written[j] \in Int /\ taken[j] \in Int /\ shown[j] \in Int
         /\ Lines[j] \in Int /\ PipeSize \in Int /\ BufferSize \in Int /\ j # 0
  BY RunAssumption DEF TypeOK, P

LEMMA ProgramStep ==
  ASSUME IInv, NEW i \in P, Program(i), NEW j \in P PROVE InOrder(j)' /\ Current(j)'
<1> USE DEF IInv, InOrder, Current
<1>1. CASE WriteLine(i)
  <2>1. /\ written'[j] = IF j = i THEN written[j] + 1 ELSE written[j]
        /\ i = j => written[j] < Lines[j] /\ written[j] - taken[j] < PipeSize
    BY <1>1 DEF WriteLine, TypeOK
  <2>2. InOrder(j)'
    BY <1>1, <2>1, Numbers DEF WriteLine
  <2> QED
    BY <1>1, <2>2 DEF WriteLine
<1>2. CASE Exit(i)
  BY <1>2 DEF Exit, TypeOK
<1> QED
  BY <1>1, <1>2 DEF Program

\* The goroutine of a running program finds cmd set, and its pipe is neither
\* closed nor at its end.
LEMMA MonitorStep ==
  ASSUME IInv, NEW i \in P, Monitor(i), NEW j \in P PROVE InOrder(j)' /\ Current(j)'
<1> USE DEF IInv, InOrder, Current
<1>1. CASE TestCmd(i)
  BY <1>1, Numbers DEF TestCmd, GoesOn, TypeOK
<1>2. CASE Fill(i)
  <2>1. PICK n \in 1..BufferSize :
          n <= written[i] - taken[i] /\ taken' = [taken EXCEPT ![i] = @ + n]
    BY <1>2 DEF Fill, Fetched
  <2>2. /\ taken'[j] = IF j = i THEN taken[j] + n ELSE taken[j]
        /\ i = j => taken[j] = shown[j]
    BY <1>2, <2>1 DEF Fill, ReaderEmpty, TypeOK
  <2>3. InOrder(j)'
    BY <1>2, <2>1, <2>2, Numbers DEF Fill
  <2> QED
    BY <1>2, <2>3 DEF Fill
<1>3. CASE ShowLine(i)
  <2>1. /\ shown'[j] = IF j = i THEN shown[j] + 1 ELSE shown[j]
        /\ i = j => shown[j] < taken[j]
    BY <1>3 DEF ShowLine, TypeOK
  <2>2. InOrder(j)'
    BY <1>3, <2>1, Numbers DEF ShowLine
  <2> QED
    BY <1>3, <2>2 DEF ShowLine, TypeOK
<1>4. CASE StopReading(i)
  BY <1>4 DEF StopReading, EndOfOutput, TypeOK
<1> QED
  BY <1>1, <1>2, <1>3, <1>4 DEF Monitor

LEMMA StepIInv == ASSUME IInv, [Next]_vars PROVE IInv'
<1>1. TypeOK'
  BY StepTypeOK DEF IInv
<1>2. ASSUME NEW j \in P PROVE InOrder(j)' /\ Current(j)'
  <2>1. CASE UNCHANGED vars
    BY <1>2, <2>1 DEF vars, IInv, InOrder, Current
  <2>2. CASE Next
    BY <1>2, <2>2, MainStep, ProgramStep, MonitorStep DEF Next
  <2> QED
    BY <2>1, <2>2
<1> QED
  BY <1>1, <1>2 DEF IInv, P

LEMMA Invariance == Spec => []IInv
  BY InitIInv, StepIInv, PTL DEF Spec

\* Type correctness of the state that Run and its goroutines share.
THEOREM TypeCorrect == Spec => []TypeOK
<1>1. IInv => TypeOK
  BY DEF IInv
<1> QED
  BY <1>1, Invariance, PTL

\* A running program always has a goroutine that will empty its pipe, and cmd
\* is that program: no cmd = nil of another Run can end the goroutine.
THEOREM RunningIsServed == Spec => []MonitorServes
<1>1. IInv => MonitorServes
  BY DEF IInv, Current, MonitorServes
<1> QED
  BY <1>1, Invariance, PTL

\* Of the output of a program that has ended, no more is missing than the pipe
\* and the reader hold.
THEOREM LossBounded == Spec => []LossIsBounded
<1>1. IInv => LossIsBounded
  BY Numbers DEF IInv, InOrder, LossIsBounded
<1> QED
  BY <1>1, Invariance, PTL
=============================================================================
