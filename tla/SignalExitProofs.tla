-------------------------- MODULE SignalExitProofs --------------------------
(***************************************************************************)
(* Proofs about cleanup_exit, for every set of signals it is installed for *)
(* and every order in which they arrive.                                   *)
(***************************************************************************)
EXTENDS SignalExit, SequenceTheorems, TLAPS

(* Signals raised again are signals that were sent.                        *)
TypeOK ==
  /\ disposition \in [Signals -> {"cleanup_exit", "SIG_DFL"}]
  /\ arrived \subseteq Signals
  /\ pending \subseteq arrived
  /\ frames \in Seq([sig : arrived, at : Steps])
  /\ fatal_error_in_progress \in BOOLEAN
  /\ log \in {"open", "closed"} /\ files \in {"open", "closed"}
  /\ misused \in BOOLEAN

Closed == log = "closed" /\ files = "closed"

(* A run that is past its calls of fclose and close has made them, and     *)
(* only such a run puts the default action back.                           *)
CleanedUp ==
  /\ \A i \in DOMAIN frames :
       /\ frames[i].at = "close" => log = "closed"
       /\ frames[i].at \in {"signal", "raise", "return"} => Closed
  /\ \A s \in Signals : disposition[s] = "SIG_DFL" => Closed

Early == {"test", "mark", "fprintf", "fclose"}

(* No two runs are for the same signal; a run that has yet to close the    *)
(* log is for a signal that still has its handler, and one that raises it  *)
(* again is for a signal with the default action.                          *)
OneRunEach ==
  /\ \A i, j \in DOMAIN frames : frames[i].sig = frames[j].sig => i = j
  /\ \A i \in DOMAIN frames :
       /\ frames[i].at \in Early => disposition[frames[i].sig] = "cleanup_exit"
       /\ frames[i].at \in {"raise", "return"} => disposition[frames[i].sig] = "SIG_DFL"

(* The log was closed by a run that is still there, or that has put back   *)
(* the default action of its signal.                                       *)
ClosedBySomeRun ==
  log = "closed" =>
    \/ \E i \in DOMAIN frames : frames[i].at \notin Early
    \/ \E s \in arrived : disposition[s] = "SIG_DFL"

IInv ==
  /\ TypeOK /\ CleanedUp /\ OneRunEach /\ ClosedBySomeRun /\ OneKindOneCleanup
  /\ ClosedBeforeDeath
-----------------------------------------------------------------------------
(* The runs on the stack.                                                  *)
LEMMA FrameEntries ==
  ASSUME TypeOK
  PROVE  /\ Len(frames) \in Nat /\ DOMAIN frames = 1 .. Len(frames)
         /\ frames # <<>> => 1 \in DOMAIN frames
         /\ \A i \in DOMAIN frames :
              /\ frames[i] \in [sig : arrived, at : Steps]
              /\ frames[i].sig \in arrived /\ frames[i].sig \in Signals
<1> DEFINE Runs == [sig : arrived, at : Steps]
<1>1. frames \in Seq(Runs)
  BY DEF TypeOK
<1> HIDE DEF Runs
<1>2. Len(frames) \in Nat /\ DOMAIN frames = 1 .. Len(frames)
  BY <1>1, LenProperties
<1>3. frames # <<>> => Len(frames) # 0
  BY <1>1, EmptySeq
<1>4. \A i \in DOMAIN frames : frames[i] \in Runs
  BY <1>1, <1>2, ElementOfSeq
<1>5. \A r \in Runs : r.sig \in arrived /\ r.sig \in Signals
  BY DEF Runs, TypeOK
<1> QED
  BY <1>2, <1>3, <1>4, <1>5 DEF Runs

(* What a step of the innermost run does to the stack of runs.             *)
LEMMA StepFrames ==
  ASSUME TypeOK, NEW from \in Steps, NEW to \in Steps, Step(from, to)
  PROVE  /\ frames' \in Seq([sig : arrived, at : Steps])
         /\ DOMAIN frames' = DOMAIN frames /\ 1 \in DOMAIN frames
         /\ frames[1].at = from /\ frames'[1].at = to
         /\ \A i \in DOMAIN frames : /\ frames'[i].sig = frames[i].sig
                                     /\ i # 1 => frames'[i] = frames[i]
         /\ frames[1].sig \in arrived
<1> DEFINE Runs == [sig : arrived, at : Steps]
           r == [frames[1] EXCEPT !.at = to]
<1>1. 1 \in 1 .. Len(frames) /\ frames[1] \in Runs /\ frames[1].at = from
  BY FrameEntries DEF Step
<1>2. r \in Runs /\ r.at = to /\ r.sig = frames[1].sig
  BY <1>1
<1>3. frames' = [frames EXCEPT ![1] = r] /\ frames \in Seq(Runs)
  BY DEF Step, TypeOK
<1>4. frames[1].sig \in arrived
  BY <1>1, FrameEntries
<1> HIDE DEF Runs, r
<1>5. frames' \in Seq(Runs) /\ Len(frames') = Len(frames)
  BY <1>1, <1>2, <1>3, ExceptSeq
<1>6. DOMAIN frames = 1 .. Len(frames) /\ DOMAIN frames' = 1 .. Len(frames)
  BY <1>3, <1>5, LenProperties
<1>7. frames'[1] = r /\ \A i \in DOMAIN frames : i # 1 => frames'[i] = frames[i]
  BY <1>1, <1>3, <1>6
<1> QED
  BY <1>1, <1>2, <1>4, <1>5, <1>6, <1>7 DEF Runs

(* A signal that is taken puts a run on top.                               *)
LEMMA PushFrames ==
  ASSUME TypeOK, NEW s \in arrived,
         frames' = <<[sig |-> s, at |-> "test"]>> \o frames
  PROVE  /\ frames' \in Seq([sig : arrived, at : Steps])
         /\ frames'[1] = [sig |-> s, at |-> "test"]
         /\ \A i \in DOMAIN frames' \ {1} :
              i - 1 \in DOMAIN frames /\ frames'[i] = frames[i - 1]
         /\ \A i \in DOMAIN frames :
              i + 1 \in DOMAIN frames' /\ frames'[i + 1] = frames[i]
<1> DEFINE Runs == [sig : arrived, at : Steps]
           top == <<[sig |-> s, at |-> "test"]>>
<1>1. top \in Seq(Runs) /\ Len(top) = 1 /\ top[1] = [sig |-> s, at |-> "test"]
  BY DEF Steps
<1>2. frames \in Seq(Runs) /\ frames' = top \o frames
  BY DEF TypeOK
<1> HIDE DEF Runs, top
<1>3. /\ frames' \in Seq(Runs) /\ Len(frames') = 1 + Len(frames)
      /\ \A i \in 1 .. 1 + Len(frames) :
           frames'[i] = IF i <= 1 THEN top[i] ELSE frames[i - 1]
  BY <1>1, <1>2, ConcatProperties
<1>4. /\ Len(frames) \in Nat /\ DOMAIN frames = 1 .. Len(frames)
      /\ DOMAIN frames' = 1 .. 1 + Len(frames)
  BY <1>2, <1>3, LenProperties
<1> QED
  BY <1>1, <1>3, <1>4 DEF Runs

(* The innermost run returns.                                              *)
LEMMA PopFrames ==
  ASSUME TypeOK, frames # <<>>, frames' = Tail(frames)
  PROVE  /\ frames' \in Seq([sig : arrived, at : Steps])
         /\ \A i \in DOMAIN frames' :
              i + 1 \in DOMAIN frames /\ frames'[i] = frames[i + 1]
<1> DEFINE Runs == [sig : arrived, at : Steps]
<1>1. frames \in Seq(Runs)
  BY DEF TypeOK
<1> HIDE DEF Runs
<1>2. /\ frames' \in Seq(Runs) /\ Len(frames') = Len(frames) - 1
      /\ \A i \in 1 .. Len(frames') : frames'[i] = frames[i + 1]
  BY <1>1, HeadTailProperties
<1>3. /\ Len(frames) \in Nat /\ DOMAIN frames = 1 .. Len(frames)
      /\ DOMAIN frames' = 1 .. Len(frames')
  BY <1>1, <1>2, LenProperties
<1> QED
  BY <1>2, <1>3 DEF Runs
-----------------------------------------------------------------------------
(* main has just installed the handlers.                                   *)
LEMMA InitIInv == Init => IInv
<1> SUFFICES ASSUME Init
             PROVE  IInv
  OBVIOUS
<1>1. TypeOK
  BY EmptySeq DEF Init, TypeOK
<1> QED
  BY <1>1 DEF Init, IInv, CleanedUp, OneRunEach, ClosedBySomeRun, OneKindOneCleanup,
              ClosedBeforeDeath

(* A signal that is sent disturbs nothing.                                 *)
LEMMA ArriveIInv ==
  ASSUME IInv, NEW s \in Signals, Arrive(s)
  PROVE  IInv'
<1>1. arrived' = arrived \cup {s}
  BY DEF Arrive
<1>2. TypeOK'
  <2>1. [sig : arrived, at : Steps] \subseteq [sig : arrived', at : Steps]
    BY <1>1
  <2>2. frames \in Seq([sig : arrived', at : Steps])
    BY <2>1, SeqMonotonic DEF IInv, TypeOK
  <2> QED
    BY <1>1, <2>2 DEF Arrive, IInv, TypeOK
<1>3. CleanedUp' /\ OneRunEach' /\ ClosedBySomeRun'
  BY <1>1 DEF Arrive, IInv, CleanedUp, Closed, OneRunEach, ClosedBySomeRun
<1>4. OneKindOneCleanup' /\ ClosedBeforeDeath'
  BY <1>1 DEF Arrive, IInv, OneKindOneCleanup, ClosedBeforeDeath
<1> QED
  BY <1>2, <1>3, <1>4 DEF IInv

(* A signal that is taken finds its handler, and the run that begins is    *)
(* for a signal no other run is for; or it finds the default action, which *)
(* only a run that had closed everything has put there.                    *)
LEMMA TakeSignalIInv ==
  ASSUME IInv, NEW s \in Signals, TakeSignal(s)
  PROVE  IInv'
<1>1. s \in pending /\ s \in arrived /\ \A i \in DOMAIN frames : frames[i].sig # s
  BY DEF TakeSignal, Deliverable, Blocked, IInv, TypeOK
<1>2. CASE disposition[s] = "SIG_DFL"
  <2>1. TypeOK'
    BY <1>2 DEF TakeSignal, IInv, TypeOK
  <2>2. CleanedUp' /\ OneRunEach' /\ ClosedBySomeRun' /\ OneKindOneCleanup'
    BY <1>2 DEF TakeSignal, IInv, CleanedUp, Closed, OneRunEach, ClosedBySomeRun,
                OneKindOneCleanup
  <2>3. ClosedBeforeDeath'
    BY <1>1, <1>2 DEF TakeSignal, IInv, CleanedUp, Closed, ClosedBeforeDeath
  <2> QED
    BY <2>1, <2>2, <2>3 DEF IInv
<1>3. CASE disposition[s] # "SIG_DFL"
  <2>1. frames' = <<[sig |-> s, at |-> "test"]>> \o frames /\ disposition[s] = "cleanup_exit"
    BY <1>3 DEF TakeSignal, IInv, TypeOK
  <2>2. TypeOK'
    BY <1>1, <2>1, PushFrames DEF TakeSignal, IInv, TypeOK
  <2>3. CleanedUp'
    BY <1>1, <2>1, PushFrames DEF TakeSignal, IInv, CleanedUp, Closed
  <2>4. OneRunEach'
    <3>1. \A i, j \in DOMAIN frames' : frames'[i].sig = frames'[j].sig => i = j
      BY <1>1, <2>1, PushFrames DEF IInv, OneRunEach
    <3>2. \A i \in DOMAIN frames' :
            /\ frames'[i].at \in Early => disposition[frames'[i].sig] = "cleanup_exit"
            /\ frames'[i].at \in {"raise", "return"} =>
                 disposition[frames'[i].sig] = "SIG_DFL"
      BY <1>1, <2>1, PushFrames DEF IInv, OneRunEach
    <3> QED
      BY <3>1, <3>2 DEF OneRunEach, TakeSignal
  <2>5. ClosedBySomeRun'
    BY <1>1, <2>1, PushFrames DEF TakeSignal, IInv, ClosedBySomeRun
  <2>6. OneKindOneCleanup' /\ ClosedBeforeDeath'
    BY <1>3 DEF TakeSignal, IInv, OneKindOneCleanup, ClosedBeforeDeath
  <2> QED
    BY <2>2, <2>3, <2>4, <2>5, <2>6 DEF IInv
<1> QED
  BY <1>2, <1>3

(* A run that has yet to close the log and finds it closed is not the only *)
(* one: the log was closed by a run for another signal.                    *)
LEMMA TwoKindsAtWork ==
  ASSUME IInv, frames # <<>>, frames[1].at \in Early, log = "closed"
  PROVE  \E s, t \in arrived : s # t
<1>1. 1 \in DOMAIN frames /\ frames[1].sig \in arrived
  BY FrameEntries DEF IInv
<1>2. CASE \E i \in DOMAIN frames : frames[i].at \notin Early
  <2>1. PICK i \in DOMAIN frames : frames[i].at \notin Early
    BY <1>2
  <2>2. frames[i].sig # frames[1].sig /\ frames[i].sig \in arrived
    BY <1>1, <2>1, FrameEntries DEF IInv, OneRunEach
  <2> QED
    BY <1>1, <2>2 
<1>3. CASE \E s \in arrived : disposition[s] = "SIG_DFL"
  BY <1>1, <1>3 DEF IInv, OneRunEach
<1> QED
  BY <1>2, <1>3 DEF IInv, ClosedBySomeRun

(* The steps before the fclose, which leave files and dispositions alone.  *)
LEMMA EarlyStepIInv ==
  ASSUME IInv, NEW from \in Early, NEW to \in Early, Step(from, to),
         pending' \subseteq arrived, fatal_error_in_progress' \in BOOLEAN,
         misused' \in BOOLEAN, misused' => misused \/ log = "closed",
         death' \in {"none", "crash"},
         UNCHANGED <<disposition, arrived, log, files>>
  PROVE  IInv'
<1>1. from \in Steps /\ to \in Steps /\ frames # <<>> /\ frames[1].at \in Early
  BY DEF Early, Steps, Step
<1>2. TypeOK
  BY DEF IInv
<1>3. TypeOK'
  BY <1>1, <1>2, StepFrames DEF TypeOK
<1>4. CleanedUp'
  BY <1>1, <1>2, StepFrames DEF IInv, CleanedUp, Closed, Early
<1>5. OneRunEach'
  BY <1>1, <1>2, StepFrames DEF IInv, OneRunEach, Early
<1>6. ClosedBySomeRun'
  BY <1>1, <1>2, StepFrames DEF IInv, ClosedBySomeRun
<1>7. OneKindOneCleanup'
  BY <1>1, TwoKindsAtWork DEF IInv, OneKindOneCleanup
<1> QED
  BY <1>3, <1>4, <1>5, <1>6, <1>7 DEF IInv, ClosedBeforeDeath

(* Closing the log, for the first or for a second time.                    *)
LEMMA FcloseIInv == IInv /\ Fclose => IInv'
<1> SUFFICES ASSUME IInv, Fclose
             PROVE  IInv'
  OBVIOUS
<1>1. Step("fclose", "close") /\ "fclose" \in Steps /\ "close" \in Steps /\ TypeOK
  BY DEF Fclose, Steps, IInv
<1>2. frames # <<>> /\ frames[1].at \in Early
  BY DEF Fclose, Step, Early
<1>3. /\ misused' \in BOOLEAN /\ (misused' => misused \/ log = "closed")
      /\ death' \in {"none", "crash"} /\ log' = "closed"
      /\ UNCHANGED <<disposition, arrived, pending, fatal_error_in_progress, files>>
  BY <1>1 DEF Fclose, UseLog, Step, TypeOK
<1>4. TypeOK'
  BY <1>1, <1>3, StepFrames DEF TypeOK
<1>5. CleanedUp'
  BY <1>1, <1>3, StepFrames DEF IInv, CleanedUp, Closed
<1>6. OneRunEach'
  BY <1>1, <1>3, StepFrames DEF IInv, OneRunEach, Early
<1>7. ClosedBySomeRun'
  BY <1>1, <1>3, StepFrames DEF ClosedBySomeRun, Early
<1>8. OneKindOneCleanup'
  BY <1>2, <1>3, TwoKindsAtWork DEF IInv, OneKindOneCleanup
<1> QED
  BY <1>3, <1>4, <1>5, <1>6, <1>7, <1>8 DEF IInv, ClosedBeforeDeath

(* Closing the files after the log.                                        *)
LEMMA CloseIInv == IInv /\ Close => IInv'
<1> SUFFICES ASSUME IInv, Close
             PROVE  IInv'
  OBVIOUS
<1>1. Step("close", "signal") /\ "close" \in Steps /\ "signal" \in Steps /\ TypeOK
  BY DEF Close, Steps, IInv
<1>2. log = "closed"
  BY <1>1, StepFrames DEF IInv, CleanedUp
<1>3. TypeOK'
  BY <1>1, StepFrames DEF Close, TypeOK
<1>4. CleanedUp'
  BY <1>1, <1>2, StepFrames DEF Close, IInv, CleanedUp, Closed
<1>5. OneRunEach'
  BY <1>1, StepFrames DEF Close, IInv, OneRunEach, Early
<1>6. ClosedBySomeRun'
  BY <1>1, StepFrames DEF ClosedBySomeRun, Early
<1>7. OneKindOneCleanup' /\ ClosedBeforeDeath'
  BY DEF Close, Step, IInv, OneKindOneCleanup, ClosedBeforeDeath
<1> QED
  BY <1>3, <1>4, <1>5, <1>6, <1>7 DEF IInv

(* Putting back the default action, after everything is closed.            *)
LEMMA ResetIInv == IInv /\ Reset => IInv'
<1> SUFFICES ASSUME IInv, Reset
             PROVE  IInv'
  OBVIOUS
<1>1. Step("signal", "raise") /\ "signal" \in Steps /\ "raise" \in Steps /\ TypeOK
  BY DEF Reset, Steps, IInv
<1>2. Closed /\ log' = log /\ files' = files
  BY <1>1, StepFrames DEF Reset, IInv, CleanedUp
<1>3. TypeOK'
  BY <1>1, StepFrames DEF Reset, TypeOK
<1>4. CleanedUp'
  BY <1>2 DEF CleanedUp, Closed
<1>5. OneRunEach'
  <2>1. \A i, j \in DOMAIN frames' : frames'[i].sig = frames'[j].sig => i = j
    BY <1>1, StepFrames DEF IInv, OneRunEach
  <2>2. /\ \A s \in Signals : s # frames[1].sig => disposition'[s] = disposition[s]
        /\ disposition'[frames[1].sig] = "SIG_DFL"
        /\ \A i \in DOMAIN frames : frames[i].sig \in Signals
    <3>1. \A i \in DOMAIN frames : frames[i].sig \in Signals
      BY <1>1, FrameEntries
    <3>2. frames[1].sig \in Signals
      BY <1>1, <3>1, StepFrames
    <3> QED
      BY <1>1, <3>1, <3>2 DEF Reset, TypeOK
  <2>3. \A i \in DOMAIN frames : i # 1 => frames[i].sig # frames[1].sig
    BY <1>1, StepFrames DEF IInv, OneRunEach
  <2>4. \A i \in DOMAIN frames' :
          /\ frames'[i].at \in Early => disposition'[frames'[i].sig] = "cleanup_exit"
          /\ frames'[i].at \in {"raise", "return"} =>
               disposition'[frames'[i].sig] = "SIG_DFL"
    BY <1>1, <2>2, <2>3, StepFrames DEF IInv, OneRunEach, Early
  <2> QED
    BY <2>1, <2>4 DEF OneRunEach
<1>6. ClosedBySomeRun'
  BY <1>1, StepFrames DEF ClosedBySomeRun, Early
<1>7. OneKindOneCleanup' /\ ClosedBeforeDeath'
  BY DEF Reset, Step, IInv, OneKindOneCleanup, ClosedBeforeDeath
<1> QED
  BY <1>3, <1>4, <1>5, <1>6, <1>7 DEF IInv

(* Raising the signal again: its run was for a signal that was sent.       *)
LEMMA RaiseIInv == IInv /\ Raise => IInv'
<1> SUFFICES ASSUME IInv, Raise
             PROVE  IInv'
  OBVIOUS
<1>1. Step("raise", "return") /\ "raise" \in Steps /\ "return" \in Steps /\ TypeOK
  BY DEF Raise, Steps, IInv
<1>2. TypeOK'
  BY <1>1, StepFrames DEF Raise, TypeOK
<1>3. CleanedUp'
  BY <1>1, StepFrames DEF Raise, IInv, CleanedUp, Closed
<1>4. OneRunEach'
  BY <1>1, StepFrames DEF Raise, IInv, OneRunEach, Early
<1>5. ClosedBySomeRun'
  BY <1>1, StepFrames DEF ClosedBySomeRun, Early
<1>6. OneKindOneCleanup' /\ ClosedBeforeDeath'
  BY DEF Raise, Step, IInv, OneKindOneCleanup, ClosedBeforeDeath
<1> QED
  BY <1>2, <1>3, <1>4, <1>5, <1>6 DEF IInv

(* A run that returns has put back the default action of its signal.       *)
LEMMA ReturnIInv == IInv /\ Return => IInv'
<1> SUFFICES ASSUME IInv, Return
             PROVE  IInv'
  OBVIOUS
<1>1. frames # <<>> /\ frames' = Tail(frames) /\ frames[1].at = "return" /\ TypeOK
  BY DEF Return, IInv
<1>2. TypeOK'
  BY <1>1, PopFrames DEF Return, TypeOK
<1>3. CleanedUp'
  BY <1>1, PopFrames DEF Return, IInv, CleanedUp, Closed
<1>4. OneRunEach'
  BY <1>1, PopFrames DEF Return, IInv, OneRunEach
<1>5. ClosedBySomeRun'
  <2>1. frames[1].sig \in arrived /\ disposition[frames[1].sig] = "SIG_DFL"
    BY <1>1, FrameEntries DEF IInv, OneRunEach
  <2> QED
    BY <2>1 DEF Return, ClosedBySomeRun
<1>6. OneKindOneCleanup' /\ ClosedBeforeDeath'
  BY DEF Return, IInv, OneKindOneCleanup, ClosedBeforeDeath
<1> QED
  BY <1>2, <1>3, <1>4, <1>5, <1>6 DEF IInv

(* Every step keeps the invariant.                                         *)
LEMMA NextIInv == IInv /\ [Next]_signalVars => IInv'
<1> SUFFICES ASSUME IInv, [Next]_signalVars
             PROVE  IInv'
  OBVIOUS
<1> USE DEF Early
<1>1. CASE Test
  <2>1. pending' \subseteq arrived
    <3>1. Step("test", "mark") /\ "test" \in Steps /\ "mark" \in Steps /\ TypeOK
      BY <1>1 DEF Test, Steps, IInv
    <3> QED
      BY <1>1, <3>1, StepFrames DEF Test, TypeOK
  <2> QED
    BY <1>1, <2>1, EarlyStepIInv DEF Test, Step, IInv, TypeOK
<1>2. CASE Mark
  BY <1>2, EarlyStepIInv DEF Mark, Step, IInv, TypeOK
<1>3. CASE Fprintf
  BY <1>3, EarlyStepIInv DEF Fprintf, UseLog, Step, IInv, TypeOK
<1>4. CASE Fclose
  BY <1>4, FcloseIInv
<1>5. CASE Close
  BY <1>5, CloseIInv
<1>6. CASE Reset
  BY <1>6, ResetIInv
<1>7. CASE Raise
  BY <1>7, RaiseIInv
<1>8. CASE Return
  BY <1>8, ReturnIInv
<1>9. ASSUME NEW s \in Signals, TakeSignal(s) \/ Arrive(s)
      PROVE  IInv'
  BY <1>9, TakeSignalIInv, ArriveIInv
<1>10. CASE UNCHANGED signalVars
  BY <1>10 DEF signalVars, IInv, TypeOK, CleanedUp, Closed, OneRunEach, ClosedBySomeRun,
               OneKindOneCleanup, ClosedBeforeDeath
<1> QED
  BY <1>1, <1>2, <1>3, <1>4, <1>5, <1>6, <1>7, <1>8, <1>9, <1>10
  DEF Next, Handling, cleanup_exit

(* The invariant from which both properties follow.                        *)
THEOREM Invariant == Spec => []IInv
<1>1. Init => IInv
  BY InitIInv
<1>2. IInv /\ [Next]_signalVars => IInv'
  BY NextIInv
<1> QED
  BY <1>1, <1>2, PTL DEF Spec
-----------------------------------------------------------------------------
(* A process that dies of a signal has closed the log, its input and its   *)
(* output, and the signal is one that was sent to it, however many kinds   *)
(* interrupt each other's run of cleanup_exit.                             *)
THEOREM ClosedBeforeDeathHolds == Spec => []ClosedBeforeDeath
<1>1. IInv => ClosedBeforeDeath
  BY DEF IInv
<1> QED
  BY <1>1, Invariant, PTL

(* Signals of one kind, however many, never make cleanup_exit use the log  *)
(* after its fclose.                                                       *)
THEOREM OneKindOneCleanupHolds == Spec => []OneKindOneCleanup
<1>1. IInv => OneKindOneCleanup
  BY DEF IInv
<1> QED
  BY <1>1, Invariant, PTL

=============================================================================
