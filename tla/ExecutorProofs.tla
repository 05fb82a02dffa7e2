--------------------------- MODULE ExecutorProofs ---------------------------
(***************************************************************************)
(* Proofs about Executor: no output is reported after the closing event,   *)
(* for any streams, capacities, amounts of output and limits, and under    *)
(* every set of faults.                                                    *)
(*                                                                         *)
(* Two paths lead to the closing event.  After a child has run, Execute    *)
(* has waited for the sender before; when the child could not be started,  *)
(* it waits for the sender only after, and what keeps the sender silent is *)
(* that nothing was ever written.  To know that, every chunk is accounted  *)
(* for from the pipe to the event (Accounted).                             *)
(***************************************************************************)
EXTENDS Executor, TLAPS

-----------------------------------------------------------------------------
(* The inductive invariant                                                 *)

(* A chunk that was read and is not on the channel yet.                    *)
Held(s) == IF reader[s] = "hold" THEN 1 ELSE 0

(* Every chunk written is in the pipe, with the reader, on the channel or  *)
(* sent, also those that nobody will take from there any more.             *)
Accounted == \A s \in Stream : written[s] = pipe[s] + Held(s) + chan[s] + sent[s]

(* Without a child there is no process group, no signal and no output.     *)
NoChild ==
    proc = "none" =>
        /\ desc = "none"
        /\ signal = "none"
        /\ \A s \in Stream : written[s] = 0

(* Where in Execute there is no child yet, or never will be.               *)
Childless == {"called", "accept", "deploy", "setup", "start", "startfail", "startdrain"}

(* Where in Execute the sender may be at work.                             *)
Sending == {"start", "forked", "wait", "drain", "startfail", "startdrain"}

PlaceFits ==
    /\ pc \in Childless => proc = "none"
    /\ sender = "loop" => pc \in Sending
    /\ closing => pc \in {"report", "startdrain", "returned"}

IInv == TypeOK /\ Accounted /\ NoChild /\ PlaceFits

-----------------------------------------------------------------------------
(* Steps                                                                   *)

(* At the call there is nothing yet, and where no call is made there never *)
(* is anything.                                                            *)
LEMMA RestInv ==
    ASSUME NEW place \in {"called", "returned"}, InitAt(place)
    PROVE  IInv
  <1> USE DEF InitAt
  <1>1. /\ 0 \in 0 .. PipeCap /\ 0 \in 0 .. MaxWrite /\ 0 \in 0 .. ChanCap
        /\ "off" \in {"off", "read", "hold", "done"}
    BY ConstantsAssumption
  <1>2. /\ pipe \in [Stream -> 0 .. PipeCap] /\ written \in [Stream -> 0 .. MaxWrite]
        /\ sent \in [Stream -> 0 .. MaxWrite] /\ chan \in [Stream -> 0 .. ChanCap]
        /\ reader \in [Stream -> {"off", "read", "hold", "done"}]
    BY <1>1
  <1>3. TypeOK
    BY <1>2 DEF TypeOK, Place
  <1>4. Accounted
    <2> SUFFICES ASSUME NEW s \in Stream
                 PROVE  written[s] = pipe[s] + Held(s) + chan[s] + sent[s]
      BY DEF Accounted
    <2>1. /\ written[s] = 0 /\ pipe[s] = 0 /\ chan[s] = 0 /\ sent[s] = 0
          /\ Held(s) = 0
      BY DEF Held
    <2>2. 0 = 0 + 0 + 0 + 0
      OBVIOUS
    <2> QED
      BY <2>1, <2>2
  <1>5. NoChild /\ PlaceFits
    BY DEF NoChild, PlaceFits, Childless, Sending
  <1> QED
    BY <1>3, <1>4, <1>5 DEF IInv

LEMMA InitInv == Init => IInv
  BY RestInv DEF Init

(* What moves no chunk keeps every chunk accounted for.                    *)
LEMMA StillAccounted ==
    ASSUME Accounted, UNCHANGED <<written, pipe, reader, chan, sent>>
    PROVE  Accounted'
  BY DEF Accounted, Held

(* Starting the readers takes no chunk.                                    *)
LEMMA SpawnKeeps == IInv /\ Spawn => IInv'
  <1> SUFFICES ASSUME IInv, Spawn PROVE IInv'
    OBVIOUS
  <1>1. /\ \A s \in Stream : written[s] = 0 /\ reader'[s] = "read"
        /\ UNCHANGED <<written, pipe, chan, sent>>
    BY DEF IInv, Spawn, PlaceFits, NoChild, Childless, child
  <1>2. TypeOK'
    BY DEF IInv, TypeOK, Spawn, Place, child, fin
  <1>3. Accounted'
    BY <1>1 DEF IInv, TypeOK, Accounted, Held
  <1>4. NoChild' /\ PlaceFits'
    BY DEF IInv, Spawn, NoChild, PlaceFits, Childless, Sending, child, fin
  <1> QED
    BY <1>2, <1>3, <1>4 DEF IInv

(* A step of Execute, but for Spawn, touches no chunk; it goes past the    *)
(* sender's end only when the sender has ended.                            *)
LEMMA ExecuteKeeps == IInv /\ Execute => IInv'
  <1> SUFFICES ASSUME IInv, Execute, ~Spawn PROVE IInv'
    BY SpawnKeeps
  <1> USE DEF main, child, out, fin, vars
  <1>1. UNCHANGED <<written, pipe, reader, chan, sent, sender, desc, signal>>
    BY DEF Execute, Register, SendAccepted, RunDeployment, SetupFails, Fork, StartReturns,
           StartFails, Wait, Drain, Join, SendClosing, Return
  <1>2. Accounted'
    BY <1>1, StillAccounted DEF IInv
  <1>3. TypeOK'
    <2>1. /\ pc' \in Place /\ running' \in BOOLEAN /\ cancelled' \in BOOLEAN
          /\ told' \in BOOLEAN /\ ctxDone' \in BOOLEAN
      BY DEF Execute, Register, SendAccepted, RunDeployment, SetupFails, Fork, StartReturns,
             StartFails, Wait, Drain, Join, SendClosing, Return,
             IInv, TypeOK, Place
    <2>2. /\ proc' \in {"none", "alive", "dead"}
          /\ exit' = exit
          /\ open' \in BOOLEAN /\ watcher' = watcher
          /\ procDone' \in BOOLEAN /\ closing' \in BOOLEAN
      BY DEF Execute, Register, SendAccepted, RunDeployment, SetupFails, Fork, StartReturns,
             StartFails, Wait, Drain, Join, SendClosing, Return,
             IInv, TypeOK
    <2>3. status' \in {"none", "succeeded", "failed", "timed_out", "cancelled"}
      BY DEF Execute, Register, SendAccepted, RunDeployment, SetupFails, Fork, StartReturns,
             StartFails, Wait, Drain, Join, SendClosing, Return,
             ResultStatus, RunnerStatus, IInv, TypeOK
    <2> QED
      BY <1>1, <2>1, <2>2, <2>3 DEF IInv, TypeOK
  <1>4. NoChild' /\ PlaceFits'
    <2>1. CASE Register \/ SendAccepted \/ RunDeployment \/ SetupFails
      BY <1>1, <2>1 DEF Register, SendAccepted, RunDeployment, SetupFails,
         IInv, NoChild, PlaceFits, Childless, Sending
    <2>2. CASE Fork \/ StartReturns \/ StartFails
      BY <1>1, <2>2 DEF Fork, StartReturns, StartFails,
         IInv, NoChild, PlaceFits, Childless, Sending
    <2>3. CASE Wait \/ Drain
      BY <1>1, <2>3 DEF Wait, Drain,
         IInv, NoChild, PlaceFits, Childless, Sending
    <2>4. CASE Join
      BY <1>1, <2>4 DEF Join,
         IInv, NoChild, PlaceFits, Childless, Sending
    <2>5. CASE SendClosing \/ Return
      BY <1>1, <2>5 DEF SendClosing, Return,
         IInv, NoChild, PlaceFits, Childless, Sending
    <2> QED
      BY <2>1, <2>2, <2>3, <2>4, <2>5 DEF Execute
  <1> QED
    BY <1>2, <1>3, <1>4 DEF IInv

(* A write needs a living process, hence a child.                          *)
LEMMA WriteKeeps == ASSUME NEW s \in Stream, IInv, Write(s) PROVE IInv'
  <1> USE DEF main, child, out, fin, vars
  <1>1. /\ written' = [written EXCEPT ![s] = written[s] + 1]
        /\ pipe' = [pipe EXCEPT ![s] = pipe[s] + 1]
        /\ written[s] < MaxWrite /\ pipe[s] < PipeCap
        /\ UNCHANGED <<main, child, open, reader, chan, sender, sent, watcher, procDone, fin>>
    BY DEF Write
  <1>2. /\ written \in [Stream -> 0 .. MaxWrite] /\ pipe \in [Stream -> 0 .. PipeCap]
        /\ chan \in [Stream -> Nat] /\ sent \in [Stream -> Nat]
        /\ MaxWrite \in Nat /\ PipeCap \in Nat
    BY ConstantsAssumption DEF IInv, TypeOK
  <1>3. written' \in [Stream -> 0 .. MaxWrite] /\ pipe' \in [Stream -> 0 .. PipeCap]
    BY <1>1, <1>2
  <1>4. TypeOK'
    BY <1>1, <1>3 DEF IInv, TypeOK
  <1>5. Accounted'
    <2> SUFFICES ASSUME NEW r \in Stream
                 PROVE  written'[r] = pipe'[r] + Held(r)' + chan'[r] + sent'[r]
      BY DEF Accounted
    <2>1. Held(r)' = Held(r) /\ Held(r) \in Nat
      BY <1>1 DEF Held
    <2>2. written[r] = pipe[r] + Held(r) + chan[r] + sent[r]
      BY DEF IInv, Accounted
    <2> QED
      BY <1>1, <1>2, <2>1, <2>2
  <1>6. proc # "none"
    BY DEF Write, GroupAlive, IInv, NoChild
  <1>7. NoChild' /\ PlaceFits'
    BY <1>1, <1>6 DEF IInv, NoChild, PlaceFits
  <1> QED
    BY <1>4, <1>5, <1>7 DEF IInv

(* The processes of the group end, fork and are killed; a signal was only  *)
(* sent to a child that exists.                                            *)
LEMMA GroupKeeps ==
    ASSUME IInv, ForkDescendant \/ Exit \/ DescendantExit \/ KillTimer
    PROVE  IInv'
  <1> USE DEF main, child, out, fin, vars
  <1>1. /\ UNCHANGED <<main, out, watcher, procDone, fin>>
        /\ proc # "none" /\ proc' # "none"
    BY DEF ForkDescendant, Exit, DescendantExit, KillTimer, IInv, NoChild, TypeOK
  <1>2. TypeOK'
    BY <1>1 DEF ForkDescendant, Exit, DescendantExit, KillTimer, IInv, TypeOK
  <1>3. Accounted'
    BY <1>1, StillAccounted DEF IInv
  <1>4. NoChild' /\ PlaceFits'
    BY <1>1 DEF IInv, NoChild, PlaceFits
  <1> QED
    BY <1>2, <1>3, <1>4 DEF IInv

(* A reader moves a chunk from the pipe to its hands and on to the channel.*)
LEMMA ReaderKeeps == ASSUME NEW s \in Stream, IInv, Reader(s) PROVE IInv'
  <1> USE DEF main, child, out, fin, vars
  <1>1. /\ UNCHANGED <<main, child, written, open, sender, sent, watcher, procDone, fin>>
        /\ \A r \in Stream \ {s} :
              reader'[r] = reader[r] /\ pipe'[r] = pipe[r] /\ chan'[r] = chan[r]
    BY DEF Reader, Read, Push, ReadEnd, IInv, TypeOK
  <1>2. /\ pipe \in [Stream -> 0 .. PipeCap] /\ chan \in [Stream -> 0 .. ChanCap]
        /\ sent \in [Stream -> 0 .. MaxWrite] /\ written \in [Stream -> 0 .. MaxWrite]
        /\ reader \in [Stream -> {"off", "read", "hold", "done"}]
        /\ MaxWrite \in Nat /\ PipeCap \in Nat /\ ChanCap \in Nat
    BY ConstantsAssumption DEF IInv, TypeOK
  <1>3. /\ reader' \in [Stream -> {"off", "read", "hold", "done"}]
        /\ pipe' \in [Stream -> 0 .. PipeCap] /\ chan' \in [Stream -> 0 .. ChanCap]
        /\ pipe'[s] + Held(s)' + chan'[s] = pipe[s] + Held(s) + chan[s]
    <2>1. CASE Read(s)
      BY <1>2, <2>1 DEF Read, Held
    <2>2. CASE Push(s)
      BY <1>2, <2>2 DEF Push, Held
    <2>3. CASE ReadEnd(s)
      BY <1>2, <2>3 DEF ReadEnd, Held
    <2> QED
      BY <2>1, <2>2, <2>3 DEF Reader
  <1>4. TypeOK'
    BY <1>1, <1>3 DEF IInv, TypeOK
  <1>5. Accounted'
    <2> SUFFICES ASSUME NEW r \in Stream
                 PROVE  written'[r] = pipe'[r] + Held(r)' + chan'[r] + sent'[r]
      BY DEF Accounted
    <2>1. written[r] = pipe[r] + Held(r) + chan[r] + sent[r]
      BY DEF IInv, Accounted
    <2>2. CASE r = s
      BY <1>1, <1>2, <1>3, <2>1, <2>2 DEF Held
    <2>3. CASE r # s
      BY <1>1, <2>1, <2>3 DEF Held
    <2> QED
      BY <2>2, <2>3
  <1>6. NoChild' /\ PlaceFits'
    BY <1>1 DEF IInv, NoChild, PlaceFits
  <1> QED
    BY <1>4, <1>5, <1>6 DEF IInv

(* The sender moves a chunk from a channel into an event: what was sent is *)
(* a part of what was written.                                             *)
LEMMA SendKeeps == ASSUME NEW s \in Stream, IInv, SendChunk(s) PROVE IInv'
  <1> USE DEF main, child, out, fin, vars
  <1>1. /\ chan' = [chan EXCEPT ![s] = chan[s] - 1]
        /\ sent' = [sent EXCEPT ![s] = sent[s] + 1]
        /\ chan[s] > 0
        /\ UNCHANGED <<main, child, pipe, written, open, reader, sender, watcher, procDone, fin>>
    BY DEF SendChunk
  <1>2. /\ pipe \in [Stream -> 0 .. PipeCap] /\ chan \in [Stream -> 0 .. ChanCap]
        /\ sent \in [Stream -> 0 .. MaxWrite] /\ written \in [Stream -> 0 .. MaxWrite]
        /\ MaxWrite \in Nat /\ PipeCap \in Nat /\ ChanCap \in Nat
    BY ConstantsAssumption DEF IInv, TypeOK
  <1>3. \A r \in Stream : /\ Held(r)' = Held(r) /\ Held(r) \in Nat
                          /\ written[r] = pipe[r] + Held(r) + chan[r] + sent[r]
    BY <1>1 DEF Held, IInv, Accounted
  <1>4. Accounted'
    <2> SUFFICES ASSUME NEW r \in Stream
                 PROVE  written'[r] = pipe'[r] + Held(r)' + chan'[r] + sent'[r]
      BY DEF Accounted
    <2> QED
      BY <1>1, <1>2, <1>3
  <1>5. sent[s] + 1 \in 0 .. MaxWrite /\ chan[s] - 1 \in 0 .. ChanCap
    BY <1>1, <1>2, <1>3
  <1>6. TypeOK'
    BY <1>1, <1>5 DEF IInv, TypeOK
  <1>7. NoChild' /\ PlaceFits'
    BY <1>1 DEF IInv, NoChild, PlaceFits
  <1> QED
    BY <1>4, <1>6, <1>7 DEF IInv

(* The goroutines that leave, the cancellation and the timer move nothing. *)
LEMMA OthersKeep ==
    ASSUME IInv, SenderExit \/ Watcher \/ MarkCancelled \/ Timeout \/ UNCHANGED vars
    PROVE  IInv'
  <1> USE DEF main, child, out, fin, vars
  <1>1. UNCHANGED <<pc, proc, desc, pipe, written, open, reader, chan, sent, closing, exit, status>>
    BY DEF SenderExit, Watcher, WatchProcDone, WatchTerminate, MarkCancelled, Timeout
  <1>2. TypeOK'
    <2>1. /\ running' = running /\ procDone' = procDone
          /\ cancelled' \in BOOLEAN /\ told' \in BOOLEAN /\ ctxDone' \in BOOLEAN
      BY DEF SenderExit, Watcher, WatchProcDone, WatchTerminate, MarkCancelled, Timeout,
             IInv, TypeOK
    <2>2. /\ signal' \in {"none", "term", "kill"}
          /\ sender' \in {"off", "loop", "done"} /\ watcher' \in {"off", "loop", "done"}
      BY DEF SenderExit, Watcher, WatchProcDone, WatchTerminate, MarkCancelled, Timeout,
             IInv, TypeOK
    <2> QED
      BY <1>1, <2>1, <2>2 DEF IInv, TypeOK
  <1>3. Accounted'
    BY <1>1, StillAccounted DEF IInv
  <1>4. NoChild' /\ PlaceFits'
    BY <1>1 DEF SenderExit, Watcher, WatchProcDone, WatchTerminate, MarkCancelled, Timeout,
                IInv, NoChild, PlaceFits
  <1> QED
    BY <1>2, <1>3, <1>4 DEF IInv

(* Every step keeps the invariant.                                         *)
LEMMA NextKeeps == IInv /\ [Next]_vars => IInv'
  BY ExecuteKeeps, WriteKeeps, GroupKeeps, ReaderKeeps, SendKeeps, OthersKeep
  DEF Next, Child, Sender

-----------------------------------------------------------------------------
(* Results                                                                 *)

(* The invariant holds in every state of every call of Execute.            *)
THEOREM Invariance == Spec => []IInv
  BY InitInv, NextKeeps, PTL DEF Spec

(* Every variable of Executor keeps its type; in particular no more is     *)
(* reported than was written, and no channel exceeds its capacity.         *)
THEOREM TypeCorrect == Spec => []TypeOK
  BY Invariance, PTL DEF IInv

(* With the closing event sent, the sender has ended or has nothing it     *)
(* could send.                                                             *)
LEMMA ClosedSilent ==
    ASSUME IInv, closing, NEW s \in Stream
    PROVE  ~SendChunk(s)
  <1> SUFFICES ASSUME SendChunk(s) PROVE FALSE
    OBVIOUS
  <1>1. pc = "startdrain"
    BY DEF IInv, PlaceFits, Sending, SendChunk
  <1>2. written[s] = 0
    BY <1>1 DEF IInv, PlaceFits, Childless, NoChild
  <1>3. pipe[s] \in Nat /\ chan[s] \in Nat /\ sent[s] \in Nat /\ Held(s) \in Nat
    BY ConstantsAssumption DEF IInv, TypeOK, Held
  <1>4. chan[s] = 0
    BY <1>2, <1>3 DEF IInv, Accounted
  <1> QED
    BY <1>4 DEF SendChunk

(* Only the sender reports output.                                         *)
LEMMA OnlySenderSends ==
    ASSUME IInv, [Next]_vars, \A s \in Stream : ~SendChunk(s)
    PROVE  sent' = sent
  <1> USE DEF main, child, out, fin, vars
  <1>1. CASE Execute
    BY <1>1 DEF Execute, Register, SendAccepted, RunDeployment, SetupFails, Spawn, Fork,
       StartReturns, StartFails, Wait, Drain, Join, SendClosing, Return
  <1>2. CASE Child \/ KillTimer
    BY <1>2 DEF Child, ForkDescendant, Exit, DescendantExit, Write, KillTimer
  <1>3. CASE Sender \/ Watcher \/ \E s \in Stream : Reader(s)
    BY <1>3 DEF Sender, SenderExit, Watcher, WatchProcDone, WatchTerminate,
       Reader, Read, Push, ReadEnd
  <1>4. CASE MarkCancelled \/ Timeout \/ UNCHANGED vars
    BY <1>4 DEF MarkCancelled, Timeout
  <1> QED
    BY <1>1, <1>2, <1>3, <1>4 DEF Next

(* After finish has sent the closing event no output of the task is        *)
(* reported, whether its child ran, was killed or never started.           *)
THEOREM ClosingIsLastHolds == Spec => ClosingIsLast
  <1>1. IInv /\ [Next]_vars => [closing => sent' = sent]_vars
    BY ClosedSilent, OnlySenderSends
  <1> QED
    BY <1>1, Invariance, PTL DEF Spec, ClosingIsLast

=============================================================================
