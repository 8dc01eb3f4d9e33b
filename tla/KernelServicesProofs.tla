------------------------ MODULE KernelServicesProofs ------------------------
(***************************************************************************)
(* Proofs about KernelServices for any number of services and any faults.  *)
(* The argument follows one token: the request a call puts into pending,   *)
(* the service at work, the answer put into the kernel's pending.  There   *)
(* is at most one of the three, and none unless the kernel waits; unless a *)
(* signal was missed, and only services were called, there is one while it *)
(* does, so that it resumes.                                               *)
(***************************************************************************)
EXTENDS KernelServices, TLAPS

Waits == pc[Kernel] \in {"to_pause", "paused"}
Asked(s) == "USR1" \in pending[s]
Busy(s) == pc[s] \in {"set_tty", "use", "notify"}
Answered == "USR1" \in pending[Kernel]

(* The token, while every call has been to a service of the pool. *)
TurnInv ==
    ~strayed =>
        /\ Waits => called \in Services
        /\ Answered => Waits /\ served = called
        /\ \A s \in Services : Asked(s) =>
              Waits /\ s = called /\ ~Busy(s) /\ ~Answered /\ served = Nobody
        /\ \A s \in Services : Busy(s) =>
              /\ Waits /\ s = called /\ ~Answered
              /\ served = IF pc[s] = "notify" THEN s ELSE Nobody

(* Until it is done, spawn_child_processes has stored one pid per round. *)
ForkInv == pc[Kernel] \in {"start", "init", "spawn"} => forked = next

IInv == TypeOK /\ ForkInv /\ TurnInv /\ ModeOfReader /\ TerminalRestored

-----------------------------------------------------------------------------
LEMMA ProcFacts ==
    /\ Kernel \in Procs /\ Services \subseteq Procs
    /\ \A s \in Services : s # Kernel
    /\ Nobody \notin Services /\ Nobody # Kernel /\ Closed # Kernel
    /\ Closed \notin Services /\ Nobody # Closed
BY KernelAssumption DEF Procs, Services, Kernel

(***************************************************************************)
(* What Goto and Kill leave alone.                                         *)
(***************************************************************************)
LEMMA GotoFacts ==
    ASSUME TypeOK, NEW p \in Procs, NEW l, Goto(p, l)
    PROVE  /\ pc'[p] = l
           /\ \A q \in Procs : q # p => pc'[q] = pc[q]
BY DEF Goto, TypeOK

LEMMA KillFacts ==
    ASSUME TypeOK, NEW p \in Procs, NEW signal \in {"USR1", "TERM"}, Kill(p, signal)
    PROVE  /\ pending' \in [Procs -> SUBSET {"USR1", "TERM"}]
           /\ pending'[p] = pending[p] \cup {signal}
           /\ \A q \in Procs : q # p => pending'[q] = pending[q]
BY DEF Kill, TypeOK

-----------------------------------------------------------------------------
(* The token is where it was, or gone, after a step that moves nothing but *)
(* the kernel, outside its pause, or a service that is not at work.        *)
LEMMA QuietStep ==
    ASSUME TypeOK, TurnInv,
           \A p \in Procs : "USR1" \in pending'[p] => "USR1" \in pending[p],
           \A s \in Services : pc'[s] = pc[s] \/ ~Busy(s)',
           Waits' <=> Waits,
           called' = called, served' = served, strayed' = strayed
    PROVE  TurnInv'
<1> USE ProcFacts
<1> SUFFICES ASSUME ~strayed PROVE TurnInv'
  BY DEF TurnInv
<1>1. Answered' => Answered
  BY DEF Answered, Kernel
<1>2. \A s \in Services : Asked(s)' => Asked(s)
  BY DEF Asked
<1>3. \A s \in Services : Busy(s)' => Busy(s) /\ pc'[s] = pc[s]
  BY DEF Busy
<1> QED
  BY <1>1, <1>2, <1>3 DEF TurnInv
(* The initial state. *)
LEMMA InitIInv == Init => IInv
<1> SUFFICES ASSUME Init PROVE IInv
  OBVIOUS
<1> USE ProcFacts
<1>1. /\ pc[Kernel] = "start" /\ \A s \in Services : pc[s] = "none"
      /\ \A p \in Procs : pending[p] = {}
  BY DEF Init
<1>2. TypeOK
  <2>1. /\ pc \in [Procs -> KernelPC \cup ServicePC]
        /\ pending \in [Procs -> SUBSET {"USR1", "TERM"}]
    BY DEF Init, KernelPC, ServicePC
  <2>2. next \in 0 .. N /\ forked \in 0 .. N
    BY KernelAssumption DEF Init
  <2> QED
    BY <1>1, <2>1, <2>2 DEF Init, TypeOK, KernelPC, ServicePC
<1>3. TurnInv
  BY <1>1 DEF TurnInv, Waits, Asked, Busy, Answered
<1>4. ForkInv /\ ModeOfReader /\ TerminalRestored
  BY <1>1 DEF Init, ForkInv, ModeOfReader, TerminalRestored
<1> QED
  BY <1>2, <1>3, <1>4 DEF IInv

-----------------------------------------------------------------------------
(* The steps of the kernel. *)

LEMMA KernelKeepsTypes ==
    ASSUME TypeOK, ForkInv, KernelStep \/ ReadKey
    PROVE  TypeOK'
<1> USE ProcFacts, KernelAssumption DEF Goto, KernelPC, ServicePC, history
<1>1. CASE SetRawMode
  BY <1>1 DEF SetRawMode, TypeOK
<1>2. CASE InitServices
  BY <1>2 DEF InitServices, TypeOK
<1>3. CASE ForkService
  <2>1. CASE Goto(Kernel, "kill") /\ next' = 0 /\ UNCHANGED forked
    BY <1>3, <2>1 DEF ForkService, TypeOK
  <2>2. CASE forked' = forked + 1 /\ next' = next + 1 /\ Goto(next, "forked")
    <3> PICK n \in Services : n = next
      BY <1>3, <2>2 DEF ForkService, TypeOK, Services
    <3>1. pc' = [pc EXCEPT ![n] = "forked"] /\ next' = n + 1
      BY <2>2
    <3> QED
      BY <1>3, <2>2, <3>1 DEF ForkService, TypeOK, Services, ForkInv
  <2> QED
    BY <1>3, <2>1, <2>2 DEF ForkService
<1>4. CASE ForkDone
  BY <1>4 DEF ForkDone, TypeOK
<1>5. CASE KernelSetsTty
  BY <1>5 DEF KernelSetsTty, TypeOK
<1>6. CASE KernelPauses
  BY <1>6 DEF KernelPauses, TypeOK
<1>7. CASE KillService
  <2>1. CASE Kill(next, "TERM") /\ next' = next + 1 /\ UNCHANGED pc /\ next < N
    <3> PICK n \in Services : n = next
      BY <2>1 DEF TypeOK, Services
    <3>1. pending' \in [Procs -> SUBSET {"USR1", "TERM"}]
      BY <2>1, KillFacts
    <3>2. next' \in 0 .. N
      BY <2>1 DEF TypeOK
    <3> QED
      BY <1>7, <2>1, <3>1, <3>2 DEF KillService, TypeOK
  <2>2. CASE /\ pending' = [p \in Procs |-> IF p < forked THEN pending[p] \cup {"TERM"}
                                                         ELSE pending[p]]
             /\ Goto(Kernel, "killed") /\ UNCHANGED next
    <3>1. pending' \in [Procs -> SUBSET {"USR1", "TERM"}]
      BY <2>2 DEF TypeOK
    <3> QED
      BY <1>7, <2>2, <3>1 DEF KillService, TypeOK
  <2> QED
    BY <1>7, <2>1, <2>2 DEF KillService
<1>8. CASE KillDone
  BY <1>8 DEF KillDone, TypeOK
<1>9. CASE RestoreTty
  BY <1>9 DEF RestoreTty, TypeOK
<1>10. CASE ReadBadKey
  BY <1>10 DEF ReadBadKey, TypeOK
<1>11. CASE ReadQuitKey
  BY <1>11 DEF ReadQuitKey, TypeOK
<1>12. CASE CallBeyondPool
  <2>1. pending' \in [Procs -> SUBSET {"USR1", "TERM"}] /\ missed' \in BOOLEAN
    <3>1. CASE UNCHANGED <<pending, missed>>
      BY <3>1 DEF TypeOK
    <3>2. CASE /\ pending' = [p \in Procs |-> IF p = Kernel THEN pending[p]
                                                            ELSE pending[p] \cup {"USR1"}]
               /\ missed' = TRUE
      BY <3>2 DEF TypeOK
    <3> QED
      BY <1>12, <3>1, <3>2 DEF CallBeyondPool
  <2> QED
    BY <1>12, <2>1 DEF CallBeyondPool, TypeOK
<1>13. CASE \E s \in Services : ReadServiceKey(s)
  BY <1>13 DEF ReadServiceKey, Kill, TypeOK
<1> QED
  BY <1>1, <1>2, <1>3, <1>4, <1>5, <1>6, <1>7, <1>8, <1>9, <1>10, <1>11, <1>12, <1>13
     DEF KernelStep, ReadKey
LEMMA ServiceKeepsTypes ==
    ASSUME TypeOK, NEW s \in Services, ServiceStep(s) \/ Terminate(s)
    PROVE  TypeOK'
<1> USE ProcFacts DEF Goto, KernelPC, ServicePC, history
<1>1. CASE ServiceStarts(s)
  BY <1>1 DEF ServiceStarts, TypeOK
<1>2. CASE ServicePauses(s)
  BY <1>2 DEF ServicePauses, TypeOK
<1>3. CASE ServiceSetsTty(s)
  BY <1>3 DEF ServiceSetsTty, TypeOK
<1>4. CASE UseService(s)
  BY <1>4 DEF UseService, TypeOK
<1>5. CASE ServiceNotifies(s)
  BY <1>5, KillFacts DEF ServiceNotifies, TypeOK
<1>6. CASE Terminate(s)
  BY <1>6 DEF Terminate, TypeOK
<1> QED
  BY <1>1, <1>2, <1>3, <1>4, <1>5, <1>6 DEF ServiceStep

LEMMA WakeUpKeepsTypes ==
    ASSUME TypeOK, NEW p \in Procs, WakeUp(p)
    PROVE  TypeOK'
<1> USE ProcFacts DEF Goto, KernelPC, ServicePC
<1>1. pending' \in [Procs -> SUBSET {"USR1", "TERM"}]
  BY DEF WakeUp, TypeOK
<1>2. CASE pc[p] = "paused" /\ Goto(p, "set_tty") /\ UNCHANGED missed
  BY <1>1, <1>2 DEF WakeUp, TypeOK
<1>3. CASE missed' = TRUE /\ UNCHANGED pc
  BY <1>1, <1>3 DEF WakeUp, TypeOK
<1> QED
  BY <1>2, <1>3 DEF WakeUp
-----------------------------------------------------------------------------
(* The token, the modes of the terminal and the pool, step by step. *)

OtherInv == ForkInv /\ TurnInv /\ ModeOfReader /\ TerminalRestored

LEMMA KernelKeepsOthers ==
    ASSUME IInv, KernelStep \/ ReadKey
    PROVE  OtherInv'
<1> USE ProcFacts DEF IInv, OtherInv, history
<1>a. \A s \in Services : ~Waits /\ ~strayed => ~Busy(s) /\ ~Asked(s)
  BY DEF TurnInv
<1>1. CASE SetRawMode
  <2>1. pc'[Kernel] = "init" /\ \A s \in Services : pc'[s] = pc[s]
    BY <1>1, GotoFacts DEF SetRawMode
  <2>2. TurnInv'
    BY <1>1, <2>1, QuietStep DEF SetRawMode, Waits
  <2> QED
    BY <1>1, <1>a, <2>1, <2>2
       DEF SetRawMode, ForkInv, ModeOfReader, TerminalRestored, Waits, Busy
<1>2. CASE InitServices
  <2>1. /\ pc'[Kernel] \in {"spawn", "exited"} /\ (pc'[Kernel] = "exited" => tty' = "old")
        /\ pc[Kernel] = "init" /\ \A s \in Services : pc'[s] = pc[s]
    BY <1>2, GotoFacts DEF InitServices
  <2>2. TurnInv'
    BY <1>2, <2>1, QuietStep DEF InitServices, Waits
  <2> QED
    BY <1>2, <1>a, <2>1, <2>2
       DEF InitServices, ForkInv, ModeOfReader, TerminalRestored, Waits, Busy
<1>3. CASE ForkService
  <2>1. /\ pc[Kernel] = "spawn" /\ pc'[Kernel] \in {"spawn", "kill"}
        /\ \A s \in Services : pc'[s] = pc[s] \/ pc'[s] = "forked"
        /\ pc'[Kernel] = "spawn" => forked' = next'
    <3>1. CASE Goto(Kernel, "kill")
      BY <1>3, <3>1, GotoFacts DEF ForkService
    <3>2. CASE forked' = forked + 1 /\ next' = next + 1 /\ Goto(next, "forked")
      <4> PICK n \in Services : n = next
        BY <1>3, KernelAssumption DEF ForkService, TypeOK, Services
      <4>1. Goto(n, "forked")
        BY <3>2 DEF Goto
      <4> QED
        BY <1>3, <3>2, <4>1, GotoFacts DEF ForkService, ForkInv
    <3> QED
      BY <1>3, <3>1, <3>2 DEF ForkService
  <2>2. TurnInv'
    BY <1>3, <2>1, QuietStep DEF ForkService, Waits, Busy
  <2> QED
    BY <1>3, <1>a, <2>1, <2>2
       DEF ForkService, ForkInv, ModeOfReader, TerminalRestored, Waits, Busy
<1>4. CASE ForkDone
  <2>1. pc'[Kernel] = "set_tty" /\ \A s \in Services : pc'[s] = pc[s]
    BY <1>4, GotoFacts DEF ForkDone
  <2>2. TurnInv'
    BY <1>4, <2>1, QuietStep DEF ForkDone, Waits
  <2> QED
    BY <1>4, <2>1, <2>2 DEF ForkDone, ForkInv, ModeOfReader, TerminalRestored
<1>5. CASE KernelSetsTty
  <2>1. pc'[Kernel] = "read" /\ \A s \in Services : pc'[s] = pc[s]
    BY <1>5, GotoFacts DEF KernelSetsTty
  <2>2. TurnInv'
    BY <1>5, <2>1, QuietStep DEF KernelSetsTty, Waits
  <2> QED
    BY <1>5, <1>a, <2>1, <2>2
       DEF KernelSetsTty, ForkInv, ModeOfReader, TerminalRestored, Waits, Busy
<1>6. CASE KernelPauses
  <2>1. pc'[Kernel] = "paused" /\ \A s \in Services : pc'[s] = pc[s]
    BY <1>6, GotoFacts DEF KernelPauses
  <2>2. TurnInv'
    BY <1>6, <2>1, QuietStep DEF KernelPauses, Waits
  <2> QED
    BY <1>6, <2>1, <2>2 DEF KernelPauses, ForkInv, ModeOfReader, TerminalRestored
<1>7. CASE KillService
  <2>1. /\ pc[Kernel] = "kill" /\ pc'[Kernel] \in {"kill", "killed"}
        /\ \A s \in Services : pc'[s] = pc[s]
    BY <1>7, GotoFacts DEF KillService
  <2>2. \A p \in Procs : "USR1" \in pending'[p] => "USR1" \in pending[p]
    <3>1. CASE Kill(next, "TERM") /\ next < N
      <4> PICK n \in Services : n = next
        BY <3>1, KernelAssumption DEF TypeOK, Services
      <4>1. Kill(n, "TERM")
        BY <3>1 DEF Kill
      <4> QED
        BY <4>1, KillFacts
    <3>2. CASE pending' = [p \in Procs |-> IF p < forked THEN pending[p] \cup {"TERM"}
                                                          ELSE pending[p]]
      BY <3>2
    <3> QED
      BY <1>7, <3>1, <3>2 DEF KillService
  <2>3. TurnInv'
    BY <1>7, <2>1, <2>2, QuietStep DEF KillService, Waits
  <2> QED
    BY <1>7, <2>1, <2>3 DEF KillService, ForkInv, ModeOfReader, TerminalRestored
<1>8. CASE KillDone
  <2>1. pc'[Kernel] = "restore" /\ \A s \in Services : pc'[s] = pc[s]
    BY <1>8, GotoFacts DEF KillDone
  <2>2. TurnInv'
    BY <1>8, <2>1, QuietStep DEF KillDone, Waits
  <2> QED
    BY <1>8, <2>1, <2>2 DEF KillDone, ForkInv, ModeOfReader, TerminalRestored
<1>9. CASE RestoreTty
  <2>1. pc'[Kernel] = "exited" /\ \A s \in Services : pc'[s] = pc[s]
    BY <1>9, GotoFacts DEF RestoreTty
  <2>2. TurnInv'
    BY <1>9, <2>1, QuietStep DEF RestoreTty, Waits
  <2> QED
    BY <1>9, <2>1, <2>2 DEF RestoreTty, ForkInv, ModeOfReader, TerminalRestored
<1>10. CASE ReadBadKey
  <2>1. pc'[Kernel] = "set_tty" /\ \A s \in Services : pc'[s] = pc[s]
    BY <1>10, GotoFacts DEF ReadBadKey
  <2>2. TurnInv'
    BY <1>10, <2>1, QuietStep DEF ReadBadKey, Waits
  <2> QED
    BY <1>10, <2>1, <2>2 DEF ReadBadKey, ForkInv, ModeOfReader, TerminalRestored
<1>11. CASE ReadQuitKey
  <2>1. pc'[Kernel] = "kill" /\ \A s \in Services : pc'[s] = pc[s]
    BY <1>11, GotoFacts DEF ReadQuitKey
  <2>2. TurnInv'
    BY <1>11, <2>1, QuietStep DEF ReadQuitKey, Waits
  <2> QED
    BY <1>11, <2>1, <2>2 DEF ReadQuitKey, ForkInv, ModeOfReader, TerminalRestored
<1>12. CASE CallBeyondPool
  <2>1. pc'[Kernel] = "to_pause" /\ strayed'
    BY <1>12, GotoFacts DEF CallBeyondPool
  <2> QED
    BY <2>1 DEF ForkInv, TurnInv, ModeOfReader, TerminalRestored
<1>13. ASSUME NEW s \in Services, ReadServiceKey(s) PROVE OtherInv'
  <2>1. /\ pc[Kernel] = "read" /\ pc'[Kernel] = "to_pause"
        /\ \A r \in Services : pc'[r] = pc[r]
    BY <1>13, GotoFacts DEF ReadServiceKey
  <2>2. /\ pending'[Kernel] = pending[Kernel]
        /\ \A r \in Services \ {s} : pending'[r] = pending[r]
    BY <1>13, KillFacts DEF ReadServiceKey
  <2>3. TurnInv'
    <3> SUFFICES ASSUME ~strayed PROVE TurnInv'
      BY <1>13 DEF ReadServiceKey, TurnInv
    <3>1. ~Waits /\ ~Answered
      BY <2>1 DEF Waits, TurnInv
    <3>2. \A r \in Services : ~Busy(r)' /\ (Asked(r)' => r = s)
      BY <1>a, <2>1, <2>2, <3>1 DEF Busy, Asked
    <3>3. ~Answered'
      BY <2>2, <3>1 DEF Answered, Kernel
    <3>4. Waits' /\ called' = s /\ served' = Nobody
      BY <1>13, <2>1 DEF ReadServiceKey, Waits, Kernel
    <3> QED
      BY <3>2, <3>3, <3>4 DEF TurnInv
  <2> QED
    BY <1>13, <2>1, <2>3 DEF ReadServiceKey, ForkInv, ModeOfReader, TerminalRestored
<1> QED
  BY <1>1, <1>2, <1>3, <1>4, <1>5, <1>6, <1>7, <1>8, <1>9, <1>10, <1>11, <1>12, <1>13
     DEF KernelStep, ReadKey
LEMMA ServiceKeepsOthers ==
    ASSUME IInv, NEW s \in Services, ServiceStep(s) \/ Terminate(s)
    PROVE  OtherInv'
<1> USE ProcFacts DEF IInv, OtherInv, history
<1>a. \A l : Goto(s, l) => /\ pc'[s] = l
                            /\ \A q \in Procs : q # s => pc'[q] = pc[q]
  BY GotoFacts
<1>1. CASE ServiceStarts(s) \/ ServicePauses(s)
  <2>1. /\ pc'[Kernel] = pc[Kernel] /\ pc'[s] \notin {"set_tty", "use", "notify"}
        /\ \A r \in Services : r # s => pc'[r] = pc[r]
    BY <1>1, <1>a DEF ServiceStarts, ServicePauses
  <2>2. UNCHANGED <<next, forked, called, pending, tty, served, history>>
    BY <1>1 DEF ServiceStarts, ServicePauses
  <2>3. TurnInv'
    BY <2>1, <2>2, QuietStep DEF Waits, Busy
  <2> QED
    BY <2>1, <2>2, <2>3 DEF ForkInv, ModeOfReader, TerminalRestored
<1>2. CASE ServiceSetsTty(s)
  <2>1. /\ pc'[Kernel] = pc[Kernel] /\ pc[s] = "set_tty" /\ pc'[s] = "use"
        /\ \A r \in Services : r # s => pc'[r] = pc[r]
    BY <1>2, <1>a DEF ServiceSetsTty
  <2>2. \A r \in Services : Busy(r)' <=> Busy(r)
    BY <2>1 DEF Busy
  <2>3. TurnInv'
    BY <1>2, <2>1, <2>2 DEF ServiceSetsTty, TurnInv, Waits, Asked, Answered, Kernel
  <2>4. ~strayed => pc[Kernel] # "read"
    BY <2>1 DEF TurnInv, Busy, Waits
  <2> QED
    BY <1>2, <2>1, <2>3, <2>4 DEF ServiceSetsTty, ForkInv, ModeOfReader, TerminalRestored
<1>3. CASE UseService(s)
  <2>1. /\ pc'[Kernel] = pc[Kernel] /\ pc[s] = "use" /\ pc'[s] = "notify"
        /\ \A r \in Services : r # s => pc'[r] = pc[r]
    BY <1>3, <1>a DEF UseService
  <2>2. \A r \in Services : Busy(r)' <=> Busy(r)
    BY <2>1 DEF Busy
  <2>3. ~strayed => \A r \in Services : Busy(r) \/ Asked(r) => r = s
    BY <2>1 DEF TurnInv, Busy
  <2>4. ~strayed => Busy(s) /\ ~Asked(s) /\ ~Answered
    BY <2>1 DEF TurnInv, Busy
  <2>5. TurnInv'
    BY <1>3, <2>1, <2>2, <2>3, <2>4
       DEF UseService, TurnInv, Waits, Asked, Answered, Kernel
  <2> QED
    BY <1>3, <2>1, <2>5 DEF UseService, ForkInv, ModeOfReader, TerminalRestored
<1>4. CASE ServiceNotifies(s)
  <2>1. /\ pc'[Kernel] = pc[Kernel] /\ pc[s] = "notify" /\ pc'[s] = "to_pause"
        /\ \A r \in Services : r # s => pc'[r] = pc[r]
    BY <1>4, <1>a DEF ServiceNotifies
  <2>2. \A r \in Services : pending'[r] = pending[r]
    BY <1>4, KillFacts DEF ServiceNotifies
  <2>3. ~strayed => /\ Busy(s) /\ Waits /\ s = called /\ served = s /\ ~Asked(s)
                    /\ \A r \in Services : Busy(r) \/ Asked(r) => r = s
    BY <2>1 DEF TurnInv, Busy
  <2>4. \A r \in Services : (Busy(r)' => Busy(r) /\ r # s) /\ (Asked(r)' <=> Asked(r))
    BY <2>1, <2>2 DEF Busy, Asked
  <2>5. TurnInv'
    BY <1>4, <2>1, <2>3, <2>4 DEF ServiceNotifies, TurnInv, Waits, Kernel
  <2> QED
    BY <1>4, <2>1, <2>5 DEF ServiceNotifies, ForkInv, ModeOfReader, TerminalRestored
<1>5. CASE Terminate(s)
  <2>1. /\ pc'[Kernel] = pc[Kernel] /\ pc'[s] = "dead"
        /\ \A r \in Services : r # s => pc'[r] = pc[r]
    BY <1>5, <1>a DEF Terminate
  <2>2. \A p \in Procs : "USR1" \in pending'[p] => "USR1" \in pending[p]
    BY <1>5 DEF Terminate, TypeOK
  <2>3. TurnInv'
    BY <1>5, <2>1, <2>2, QuietStep DEF Terminate, Waits, Busy
  <2> QED
    BY <1>5, <2>1, <2>3 DEF Terminate, ForkInv, ModeOfReader, TerminalRestored
<1> QED
  BY <1>1, <1>2, <1>3, <1>4, <1>5 DEF ServiceStep

LEMMA WakeUpKeepsOthers ==
    ASSUME IInv, NEW p \in Procs, WakeUp(p)
    PROVE  OtherInv'
<1> USE ProcFacts DEF IInv, OtherInv
<1>1. /\ "USR1" \in pending[p] /\ "USR1" \notin pending'[p]
      /\ \A q \in Procs : q # p => pending'[q] = pending[q]
  BY DEF WakeUp, TypeOK
<1>2. UNCHANGED <<next, forked, called, tty, served, strayed>>
  BY DEF WakeUp
<1>3. \A q \in Procs : "USR1" \in pending'[q] => "USR1" \in pending[q]
  BY <1>1
<1>4. CASE UNCHANGED pc
  <2>1. TurnInv'
    BY <1>2, <1>3, <1>4, QuietStep DEF Waits
  <2> QED
    BY <1>2, <1>4, <2>1 DEF ForkInv, ModeOfReader, TerminalRestored
<1>5. CASE pc[p] = "paused" /\ Goto(p, "set_tty")
  <2>1. /\ pc[p] = "paused" /\ pc'[p] = "set_tty"
        /\ \A q \in Procs : q # p => pc'[q] = pc[q]
    BY <1>5, GotoFacts
  <2>2. TurnInv'
    <3> SUFFICES ASSUME ~strayed PROVE TurnInv'
      BY <1>2 DEF TurnInv
    <3>1. CASE p = Kernel
      <4>1. Answered /\ \A s \in Services : ~Busy(s) /\ ~Asked(s)
        BY <1>1, <3>1 DEF TurnInv, Answered
      <4>2. ~Waits' /\ ~Answered' /\ \A s \in Services : ~Busy(s)' /\ ~Asked(s)'
        BY <1>1, <2>1, <3>1, <4>1 DEF Waits, Answered, Busy, Asked, Kernel
      <4> QED
        BY <4>2 DEF TurnInv
    <3>2. CASE p \in Services
      <4>1. /\ Waits /\ p = called /\ ~Answered /\ served = Nobody
            /\ \A s \in Services : Busy(s) \/ Asked(s) => s = p
        BY <1>1, <3>2 DEF TurnInv, Asked
      <4>2. Waits' /\ ~Answered' /\ called' = p /\ served' = Nobody
        BY <1>1, <1>2, <2>1, <3>2, <4>1 DEF Waits, Answered, Kernel
      <4>3. \A s \in Services : ~Asked(s)' /\ (Busy(s)' => s = p)
        BY <1>1, <2>1, <3>2, <4>1 DEF Asked, Busy
      <4> QED
        BY <2>1, <3>2, <4>2, <4>3 DEF TurnInv
    <3> QED
      BY <3>1, <3>2, KernelAssumption DEF Procs, Services, Kernel
  <2> QED
    BY <1>2, <2>1, <2>2 DEF ForkInv, ModeOfReader, TerminalRestored
<1> QED
  BY <1>4, <1>5 DEF WakeUp
-----------------------------------------------------------------------------
(***************************************************************************)
(* IInv is inductive.  What it claims is not enough without TurnInv: that  *)
(* two processes never read from the terminal follows from where the token *)
(* is, not from the counters of any of them.                               *)
(***************************************************************************)
LEMMA Induction == IInv /\ [Next]_vars => IInv'
<1> SUFFICES ASSUME IInv, [Next]_vars PROVE IInv'
  OBVIOUS
<1>1. CASE KernelStep \/ ReadKey
  BY <1>1, KernelKeepsTypes, KernelKeepsOthers DEF IInv, OtherInv
<1>2. ASSUME NEW s \in Services, ServiceStep(s) \/ Terminate(s) PROVE IInv'
  BY <1>2, ServiceKeepsTypes, ServiceKeepsOthers DEF IInv, OtherInv
<1>3. ASSUME NEW p \in Procs, WakeUp(p) PROVE IInv'
  BY <1>3, WakeUpKeepsTypes, WakeUpKeepsOthers DEF IInv, OtherInv
<1>4. CASE UNCHANGED vars
  <2>1. TypeOK' /\ ForkInv' /\ ModeOfReader' /\ TerminalRestored'
    BY <1>4 DEF IInv, vars, history, TypeOK, ForkInv, ModeOfReader, TerminalRestored
  <2>2. TurnInv'
    BY <1>4 DEF IInv, vars, history, TurnInv, Waits, Asked, Busy, Answered, Kernel
  <2> QED
    BY <2>1, <2>2 DEF IInv
<1> QED
  BY <1>1, <1>2, <1>3, <1>4 DEF Next, Stopped

LEMMA Invariance == Spec => []IInv
BY InitIInv, Induction, PTL DEF Spec

(* Every variable stays in its range, whatever fails. *)
THEOREM TypeCorrect == Spec => []TypeOK
<1>1. IInv => TypeOK
  BY DEF IInv
<1> QED
  BY <1>1, Invariance, PTL

(***************************************************************************)
(* Mutual exclusion at the terminal, for any number of services (main.c    *)
(* 70-77, 97-100).                                                         *)
(***************************************************************************)
THEOREM SingleReader == Spec => []OneReader
<1>1. IInv => OneReader
  BY DEF IInv, OneReader, TurnInv, Waits, Busy
<1> QED
  BY <1>1, Invariance, PTL

(* A reader never sees the terminal in another process's mode. *)
THEOREM ReadersMode == Spec => []ModeOfReader
<1>1. IInv => ModeOfReader
  BY DEF IInv
<1> QED
  BY <1>1, Invariance, PTL

(* After main has returned nothing undoes its last apply_tty. *)
THEOREM Restoration == Spec => []TerminalRestored
<1>1. IInv => TerminalRestored
  BY DEF IInv
<1> QED
  BY <1>1, Invariance, PTL

-----------------------------------------------------------------------------
(* The refinement of Console *)

holder == IF strayed THEN Nobody
          ELSE IF pc[Kernel] \in {"exited", "killed"} THEN Closed
          ELSE IF pc[Kernel] \in {"to_pause", "paused"} THEN called
          ELSE Kernel

LEMMA MappedInit == Init => Terminal!ConsoleInit
BY ProcFacts DEF Init, Terminal!ConsoleInit

(* Once the terminal is lost every step is a Lost step. *)
LEMMA MappedLost ==
    ASSUME IInv, strayed, strayed', served' \in Services \cup {Nobody}
    PROVE  Terminal!ConsoleNext
BY DEF Terminal!ConsoleNext, Terminal!Lost

LEMMA MappedStutter ==
    ASSUME UNCHANGED <<holder, served>>
    PROVE  UNCHANGED Terminal!consoleVars
BY DEF holder, Terminal!consoleVars
LEMMA MappedKernel ==
    ASSUME IInv, TypeOK', ~strayed, KernelStep \/ ReadKey
    PROVE  Terminal!ConsoleNext \/ UNCHANGED Terminal!consoleVars
<1> USE ProcFacts DEF IInv, history
<1>a. ASSUME pc'[Kernel] \notin {"to_pause", "paused", "exited", "killed"},
             pc[Kernel] \notin {"to_pause", "paused", "exited", "killed"},
             UNCHANGED <<served, strayed>>
      PROVE  UNCHANGED Terminal!consoleVars
  <2>1. UNCHANGED <<holder, served>>
    BY <1>a DEF holder, Kernel
  <2> QED
    BY <2>1, MappedStutter
<1>b. ASSUME pc'[Kernel] \in {"exited", "killed"},
             pc[Kernel] \notin {"to_pause", "paused", "exited", "killed"},
             UNCHANGED <<served, strayed>>
      PROVE  Terminal!ConsoleNext
  <2>1. Terminal!Close
    BY <1>b DEF Terminal!Close, Kernel
  <2> QED
    BY <2>1 DEF Terminal!ConsoleNext
<1>1. CASE SetRawMode
  BY <1>1, <1>a, GotoFacts DEF SetRawMode
<1>2. CASE InitServices
  <2>1. pc[Kernel] = "init" /\ pc'[Kernel] \in {"spawn", "exited"}
    BY <1>2, GotoFacts DEF InitServices
  <2> QED
    BY <1>2, <1>a, <1>b, <2>1 DEF InitServices
<1>3. CASE ForkService
  <2>1. pc[Kernel] = "spawn" /\ pc'[Kernel] \in {"spawn", "kill"}
    <3>1. CASE Goto(Kernel, "kill")
      BY <1>3, <3>1, GotoFacts DEF ForkService
    <3>2. CASE Goto(next, "forked")
      BY <1>3, <3>2, KernelAssumption DEF ForkService, Goto, TypeOK, Kernel
    <3> QED
      BY <1>3, <3>1, <3>2 DEF ForkService
  <2> QED
    BY <1>3, <1>a, <2>1 DEF ForkService
<1>4. CASE ForkDone
  BY <1>4, <1>a, GotoFacts DEF ForkDone
<1>5. CASE KernelSetsTty
  BY <1>5, <1>a, GotoFacts DEF KernelSetsTty
<1>6. CASE KernelPauses
  <2>1. pc[Kernel] = "to_pause" /\ pc'[Kernel] = "paused"
    BY <1>6, GotoFacts DEF KernelPauses
  <2>2. UNCHANGED <<holder, served>>
    BY <1>6, <2>1 DEF KernelPauses, holder, Kernel
  <2> QED
    BY <2>2, MappedStutter
<1>7. CASE KillService
  <2>1. pc[Kernel] = "kill" /\ pc'[Kernel] \in {"kill", "killed"}
    BY <1>7, GotoFacts DEF KillService
  <2> QED
    BY <1>7, <1>a, <1>b, <2>1 DEF KillService
<1>8. CASE KillDone
  BY <1>8, <1>a, GotoFacts DEF KillDone
<1>9. CASE RestoreTty
  BY <1>9, <1>b, GotoFacts DEF RestoreTty
<1>10. CASE ReadBadKey
  BY <1>10, <1>a, GotoFacts DEF ReadBadKey
<1>11. CASE ReadQuitKey
  BY <1>11, <1>a, GotoFacts DEF ReadQuitKey
<1>12. CASE CallBeyondPool
  <2>1. pc[Kernel] = "read" /\ strayed' /\ served' = Nobody
    BY <1>12 DEF CallBeyondPool
  <2>2. Terminal!Lose
    BY <2>1 DEF Terminal!Lose
  <2> QED
    BY <2>2 DEF Terminal!ConsoleNext
<1>13. ASSUME NEW s \in Services, ReadServiceKey(s) PROVE Terminal!ConsoleNext
  <2>1. pc[Kernel] = "read" /\ pc'[Kernel] = "to_pause"
    BY <1>13, GotoFacts DEF ReadServiceKey
  <2>2. Terminal!Hand
    BY <1>13, <2>1 DEF ReadServiceKey, Terminal!Hand, Kernel
  <2> QED
    BY <2>2 DEF Terminal!ConsoleNext
<1> QED
  BY <1>1, <1>2, <1>3, <1>4, <1>5, <1>6, <1>7, <1>8, <1>9, <1>10, <1>11, <1>12, <1>13
     DEF KernelStep, ReadKey

LEMMA MappedService ==
    ASSUME IInv, TypeOK', ~strayed, NEW s \in Services, ServiceStep(s) \/ Terminate(s)
    PROVE  Terminal!ConsoleNext \/ UNCHANGED Terminal!consoleVars
<1> USE ProcFacts DEF IInv, history
<1>1. pc'[Kernel] = pc[Kernel] /\ called' = called /\ strayed' = strayed
  BY GotoFacts
     DEF ServiceStep, ServiceStarts, ServicePauses, ServiceSetsTty, UseService,
         ServiceNotifies, Terminate
<1>2. holder' = holder
  BY <1>1 DEF holder, Kernel
<1>3. CASE UseService(s)
  <2>1. Waits /\ s = called /\ served = Nobody
    BY <1>3 DEF UseService, TurnInv, Busy
  <2>2. holder = s /\ served' = s
    BY <1>3, <2>1 DEF UseService, holder, Waits
  <2>3. Terminal!Process
    BY <1>2, <2>1, <2>2 DEF Terminal!Process, holder
  <2> QED
    BY <2>3 DEF Terminal!ConsoleNext
<1>4. CASE UNCHANGED served
  BY <1>2, <1>4, MappedStutter
<1> QED
  BY <1>3, <1>4
     DEF ServiceStep, ServiceStarts, ServicePauses, ServiceSetsTty, ServiceNotifies, Terminate

LEMMA MappedWakeUp ==
    ASSUME IInv, ~strayed, NEW p \in Procs, WakeUp(p)
    PROVE  Terminal!ConsoleNext \/ UNCHANGED Terminal!consoleVars
<1> USE ProcFacts DEF IInv
<1>1. UNCHANGED <<called, served, strayed>>
  BY DEF WakeUp
<1>2. CASE pc'[Kernel] = pc[Kernel]
  <2>1. UNCHANGED <<holder, served>>
    BY <1>1, <1>2 DEF holder, Kernel
  <2> QED
    BY <2>1, MappedStutter
<1>3. CASE p = Kernel /\ pc[Kernel] = "paused" /\ pc'[Kernel] = "set_tty"
  <2>1. served = called /\ called \in Services
    BY <1>3 DEF WakeUp, TurnInv, Answered, Waits
  <2>2. Terminal!Return
    BY <1>1, <1>3, <2>1 DEF Terminal!Return, Kernel
  <2> QED
    BY <2>2 DEF Terminal!ConsoleNext
<1> QED
  BY <1>2, <1>3, GotoFacts DEF WakeUp

(***************************************************************************)
(* The kernel, the services and their signals together pass the terminal   *)
(* on as Console says: to the service called, which processes one string,  *)
(* and back.                                                               *)
(***************************************************************************)
THEOREM Refinement == Spec => ImplementsConsole
<1>1. IInv /\ TypeOK' /\ [Next]_vars => [Terminal!ConsoleNext]_(Terminal!consoleVars)
  <2> SUFFICES ASSUME IInv, TypeOK', [Next]_vars
               PROVE  Terminal!ConsoleNext \/ UNCHANGED Terminal!consoleVars
    OBVIOUS
  <2>1. CASE UNCHANGED vars
    BY <2>1, MappedStutter DEF vars, history, holder, Kernel
  <2>2. CASE Next /\ ~UNCHANGED vars
    <3>1. CASE ~strayed
      BY <2>2, <3>1, MappedKernel, MappedService, MappedWakeUp DEF Next, Stopped
    <3>2. CASE strayed
      <4>1. strayed'
        BY <2>2, <3>2
           DEF Next, Stopped, KernelStep, ReadKey, ServiceStep, SetRawMode, InitServices,
               ForkService, ForkDone, KernelSetsTty, KernelPauses, KillService, KillDone,
               RestoreTty, ReadBadKey, ReadQuitKey, CallBeyondPool, ReadServiceKey,
               ServiceStarts, ServicePauses, ServiceSetsTty, UseService, ServiceNotifies,
               WakeUp, Terminate, history
      <4> QED
        BY <3>2, <4>1, MappedLost DEF TypeOK
    <3> QED
      BY <3>1, <3>2
  <2> QED
    BY <2>1, <2>2
<1>2. IInv => TypeOK
  BY DEF IInv
<1> QED
  BY <1>1, <1>2, MappedInit, Invariance, PTL DEF Spec, ImplementsConsole, Terminal!ConsoleSpec

-----------------------------------------------------------------------------
(* The kernel resumes, and the services end. *)

Quits(s) == "TERM" \in pending[s]
Leaves == pc[Kernel] \in {"kill", "restore", "exited", "killed"}
Gone == pc[Kernel] \in {"exited", "killed"}

(* The token is lost only with a signal that was missed, or that no service*)
(* was sent, and nobody is asked to quit before the kernel leaves.         *)
Lossy == missed \/ strayed

TokenInv ==
    /\ Waits /\ ~Lossy => Asked(called) \/ Busy(called) \/ Answered
    /\ \A s \in Services : Quits(s) => Leaves

(* The services with a pid in the pool are those that were forked, and     *)
(* kill_services passes over none of them.                                 *)
PoolInv ==
    /\ pc[Kernel] \in {"start", "init"} => forked = 0
    /\ \A s \in Services :
           /\ pc[s] = "none" <=> ~(s < forked)
           /\ Quits(s) => s < forked
           /\ Leaves /\ s < forked => \/ Quits(s) \/ pc[s] = "dead"
                                      \/ pc[Kernel] = "kill" /\ ~(s < next)

LInv == IInv /\ TokenInv /\ PoolInv

LEMMA InitLInv == Init => LInv
<1> SUFFICES ASSUME Init PROVE LInv
  OBVIOUS
<1>1. /\ pc[Kernel] = "start" /\ \A s \in Services : pc[s] = "none" /\ pending[s] = {}
      /\ forked = 0 /\ ~strayed
  BY ProcFacts DEF Init
<1>2. \A s \in Services : ~(s < 0)
  BY KernelAssumption DEF Services
<1>3. TokenInv
  BY <1>1 DEF TokenInv, Waits, Quits
<1>4. PoolInv
  BY <1>1, <1>2 DEF PoolInv, Quits, Leaves
<1> QED
  BY <1>3, <1>4, InitIInv DEF LInv

(* Nothing becomes of the two when no pending signal, position or number   *)
(* they speak about changes.                                               *)
LEMMA TokenAside ==
    ASSUME TypeOK, TokenInv,
           \A p \in Procs : "USR1" \in pending[p] => "USR1" \in pending'[p],
           \A s \in Services : Busy(s) => Busy(s)',
           \A s \in Services : Quits(s)' => Quits(s) \/ Leaves',
           Leaves => Leaves',
           Waits' => Waits,
           UNCHANGED <<called, history>>,
           ~strayed /\ Waits => called \in Services
    PROVE  TokenInv'
<1> USE ProcFacts DEF history, Lossy
<1>1. \A s \in Services : Asked(s) => Asked(s)'
  BY DEF Asked
<1>2. Answered => Answered'
  BY DEF Answered, Kernel
<1>3. ASSUME Waits', ~Lossy' PROVE (Asked(called) \/ Busy(called) \/ Answered)'
  <2>1. called \in Services
    BY <1>3 DEF TokenInv
  <2>2. Asked(called)' \/ Busy(called)' \/ Answered'
    BY <1>1, <1>2, <1>3, <2>1 DEF TokenInv, Asked, Busy
  <2> QED
    BY <2>2
<1> QED
  BY <1>3 DEF TokenInv

LEMMA KernelKeepsToken ==
    ASSUME LInv, KernelStep \/ ReadKey
    PROVE  TokenInv'
<1> USE ProcFacts DEF LInv, IInv, history, Lossy
<1>t. ~strayed /\ Waits => called \in Services
  BY DEF TurnInv
<1>a. ASSUME pc[Kernel] # "kill", ~Leaves, Goto(Kernel, pc'[Kernel]), UNCHANGED pending,
             UNCHANGED <<called, history>>, Waits' => Waits
      PROVE  TokenInv'
  <2>1. \A s \in Services : pc'[s] = pc[s]
    BY <1>a, GotoFacts
  <2> QED
    BY <1>a, <1>t, <2>1, TokenAside DEF Busy, Quits
<1>1. CASE SetRawMode \/ InitServices \/ ForkDone \/ KernelSetsTty \/ ReadBadKey \/ ReadQuitKey
  <2>1. PICK l \in {"init", "spawn", "exited", "set_tty", "read", "kill"} :
           /\ Goto(Kernel, l) /\ pc[Kernel] \notin {"kill", "restore", "exited", "killed"}
           /\ UNCHANGED pending /\ UNCHANGED <<called, history>>
    BY <1>1 DEF SetRawMode, InitServices, ForkDone, KernelSetsTty, ReadBadKey, ReadQuitKey
  <2>2. pc'[Kernel] = l
    BY <2>1, GotoFacts
  <2> QED
    BY <1>a, <2>1, <2>2 DEF Leaves, Waits
<1>2. CASE KernelPauses
  <2>1. /\ Goto(Kernel, "paused") /\ pc[Kernel] = "to_pause" /\ UNCHANGED pending
        /\ UNCHANGED <<called, history>>
    BY <1>2 DEF KernelPauses
  <2>2. pc'[Kernel] = "paused"
    BY <2>1, GotoFacts
  <2> QED
    BY <1>a, <2>1, <2>2 DEF Leaves, Waits
<1>3. CASE ForkService
  <2>1. pc[Kernel] = "spawn" /\ UNCHANGED pending /\ UNCHANGED <<called, history>>
    BY <1>3 DEF ForkService
  <2>2. CASE Goto(Kernel, "kill")
    <3>1. pc'[Kernel] = "kill"
      BY <2>2, GotoFacts
    <3> QED
      BY <1>a, <2>1, <2>2, <3>1 DEF Leaves, Waits
  <2>3. CASE Goto(next, "forked")
    <3> PICK n \in Services : n = next
      BY <1>3, KernelAssumption DEF ForkService, TypeOK, Services
    <3>1. Goto(n, "forked")
      BY <2>3
    <3>2. /\ pc'[n] = "forked" /\ \A q \in Procs : q # n => pc'[q] = pc[q]
          /\ pc'[Kernel] = "spawn"
      BY <2>1, <3>1, GotoFacts
    <3>3. ~Waits' /\ \A s \in Services : ~Quits(s)'
      BY <2>1, <3>2 DEF Waits, Quits, TokenInv, Leaves
    <3> QED
      BY <2>1, <3>3 DEF TokenInv
  <2> QED
    BY <1>3, <2>2, <2>3 DEF ForkService
<1>4. CASE KillService
  <2>1. pc[Kernel] = "kill" /\ pc'[Kernel] \in {"kill", "killed"} /\ UNCHANGED history
    BY <1>4, GotoFacts DEF KillService
  <2> QED
    BY <2>1 DEF TokenInv, Waits, Leaves
<1>5. CASE KillDone \/ RestoreTty
  <2>1. pc'[Kernel] \in {"restore", "exited"} /\ UNCHANGED history
    BY <1>5, GotoFacts DEF KillDone, RestoreTty
  <2> QED
    BY <2>1 DEF TokenInv, Waits, Leaves
<1>6. CASE CallBeyondPool
  <2>1. /\ pc[Kernel] = "read" /\ pc'[Kernel] = "to_pause" /\ strayed'
        /\ \A s \in Services : Quits(s)' => Quits(s)
    BY <1>6, GotoFacts DEF CallBeyondPool, Quits
  <2> QED
    BY <2>1 DEF TokenInv, Leaves
<1>7. ASSUME NEW s \in Services, ReadServiceKey(s) PROVE TokenInv'
  <2>1. /\ pc[Kernel] = "read" /\ pc'[Kernel] = "to_pause" /\ UNCHANGED history
        /\ called' = s
    BY <1>7, GotoFacts DEF ReadServiceKey
  <2>2. /\ "USR1" \in pending'[s]
        /\ \A r \in Services : Quits(r)' => Quits(r)
    <3>1. Kill(s, "USR1")
      BY <1>7 DEF ReadServiceKey
    <3> QED
      BY <3>1, KillFacts DEF Quits
  <2> QED
    BY <2>1, <2>2 DEF TokenInv, Leaves, Asked
<1> QED
  BY <1>1, <1>2, <1>3, <1>4, <1>5, <1>6, <1>7 DEF KernelStep, ReadKey

LEMMA ServiceKeepsToken ==
    ASSUME LInv, NEW s \in Services, ServiceStep(s) \/ Terminate(s)
    PROVE  TokenInv'
<1> USE ProcFacts DEF LInv, IInv, history, Lossy
<1>t. ~strayed /\ Waits => called \in Services
  BY DEF TurnInv
<1>a. \A l : Goto(s, l) => /\ pc'[s] = l
                            /\ \A q \in Procs : q # s => pc'[q] = pc[q]
  BY GotoFacts
<1>1. CASE \E l \in {"to_pause", "paused", "use", "notify"} :
              /\ Goto(s, l) /\ UNCHANGED pending /\ UNCHANGED <<called, history>>
              /\ Busy(s) => l \in {"use", "notify"}
  <2>1. /\ \A r \in Services : Busy(r) => Busy(r)'
        /\ Leaves' = Leaves /\ Waits' = Waits
        /\ \A r \in Services : Quits(r)' = Quits(r)
    BY <1>1, <1>a DEF Busy, Leaves, Waits, Quits
  <2> QED
    BY <1>1, <1>t, <2>1, TokenAside
<1>2. CASE ServiceNotifies(s)
  <2>1. /\ "USR1" \in pending'[Kernel] /\ UNCHANGED history
        /\ \A r \in Services : Quits(r)' = Quits(r)
    BY <1>2, KillFacts DEF ServiceNotifies, Quits
  <2>2. pc'[Kernel] = pc[Kernel]
    BY <1>2, <1>a DEF ServiceNotifies
  <2> QED
    BY <2>1, <2>2 DEF TokenInv, Answered, Leaves, Waits, Kernel
<1>3. CASE Terminate(s)
  <2>1. Leaves /\ pc'[Kernel] = pc[Kernel] /\ UNCHANGED history
    BY <1>3, <1>a DEF Terminate, TokenInv, Quits
  <2> QED
    BY <2>1 DEF TokenInv, Leaves, Waits
<1> QED
  BY <1>1, <1>2, <1>3
     DEF ServiceStep, ServiceStarts, ServicePauses, ServiceSetsTty, UseService, Busy

LEMMA WakeUpKeepsToken ==
    ASSUME LInv, NEW p \in Procs, WakeUp(p)
    PROVE  TokenInv'
<1> USE ProcFacts DEF LInv, IInv, Lossy
<1>1. /\ "USR1" \in pending[p]
      /\ \A q \in Procs : q # p => pending'[q] = pending[q]
      /\ \A q \in Procs : "TERM" \in pending'[q] <=> "TERM" \in pending[q]
      /\ UNCHANGED <<called, strayed>>
  BY DEF WakeUp, TypeOK
<1>2. \A s \in Services : Quits(s)' = Quits(s)
  BY <1>1 DEF Quits
<1>3. CASE missed' = TRUE /\ UNCHANGED pc
  BY <1>1, <1>2, <1>3 DEF TokenInv, Leaves
<1>4. CASE pc[p] = "paused" /\ Goto(p, "set_tty") /\ UNCHANGED missed
  <2>1. /\ pc'[p] = "set_tty"
        /\ \A q \in Procs : q # p => pc'[q] = pc[q]
    BY <1>4, GotoFacts
  <2>2. CASE p = Kernel
    <3>1. ~Waits' /\ ~Leaves
      BY <1>4, <2>1, <2>2 DEF Waits, Leaves
    <3> QED
      BY <1>1, <1>2, <1>4, <3>1 DEF TokenInv
  <2>3. CASE p \in Services
    <3>1. pc'[Kernel] = pc[Kernel]
      BY <2>1, <2>3
    <3>2. ~strayed => Waits /\ p = called
      BY <1>1, <2>3 DEF TurnInv, Asked
    <3>3. ~Lossy => Busy(called)'
      BY <1>1, <2>1, <3>2 DEF TokenInv, Busy
    <3> QED
      BY <1>1, <1>2, <1>4, <3>1, <3>3 DEF TokenInv, Waits, Leaves
  <2> QED
    BY <2>2, <2>3, KernelAssumption DEF Procs, Services, Kernel
<1> QED
  BY <1>3, <1>4 DEF WakeUp

-----------------------------------------------------------------------------
(* The pool is as it was when nobody joins it, quits, dies or is passed by *)
(* kill_services.                                                          *)
LEMMA PoolAside ==
    ASSUME TypeOK, PoolInv, UNCHANGED forked,
           \A s \in Services : (pc[s] = "none" <=> pc'[s] = "none"),
           \A s \in Services : pc[s] = "dead" => pc'[s] = "dead",
           \A s \in Services : Quits(s)' <=> Quits(s),
           pc'[Kernel] \in {"start", "init"} => pc[Kernel] \in {"start", "init"},
           \/ ~Leaves'
           \/ pc'[Kernel] = "kill" /\ next' = 0
           \/ Leaves /\ (pc[Kernel] = "kill" => ~(next < N) \/ (pc'[Kernel] = "kill" /\ next' = next))
           \/ forked = 0
    PROVE  PoolInv'
<1>1. \A s \in Services : s \in Nat /\ s < N /\ ~(s < 0) /\ next \in Int /\ N \in Int
  BY KernelAssumption DEF TypeOK, Services
<1>2. ASSUME NEW s \in Services, Leaves', s < forked
      PROVE  Quits(s)' \/ pc'[s] = "dead" \/ (pc'[Kernel] = "kill" /\ ~(s < next'))
  <2>1. CASE pc'[Kernel] = "kill" /\ next' = 0
    BY <1>1, <2>1
  <2>2. CASE Leaves /\ (pc[Kernel] = "kill" => ~(next < N) \/ (pc'[Kernel] = "kill" /\ next' = next))
    <3>1. Quits(s) \/ pc[s] = "dead" \/ (pc[Kernel] = "kill" /\ ~(s < next))
      BY <1>2, <2>2 DEF PoolInv
    <3>2. CASE pc[Kernel] = "kill" /\ ~(s < next)
      <4>1. next < N
        BY <1>1, <3>2
      <4> QED
        BY <2>2, <3>2, <4>1
    <3> QED
      BY <3>1, <3>2
  <2>3. CASE forked = 0
    BY <1>1, <1>2, <2>3
  <2> QED
    BY <1>2, <2>1, <2>2, <2>3
<1> QED
  BY <1>2 DEF PoolInv

LEMMA KernelKeepsPool ==
    ASSUME LInv, KernelStep \/ ReadKey
    PROVE  PoolInv'
<1> USE ProcFacts DEF LInv, IInv
<1>a. ASSUME NEW l \in KernelPC, Goto(Kernel, l), UNCHANGED <<pending, forked>>,
             l \in {"start", "init"} => pc[Kernel] \in {"start", "init"},
             \/ l \notin {"kill", "restore", "exited", "killed"}
             \/ l = "kill" /\ next' = 0
             \/ pc[Kernel] \in {"kill", "restore"} /\ (pc[Kernel] = "kill" => ~(next < N))
             \/ forked = 0
      PROVE  PoolInv'
  <2>1. pc'[Kernel] = l /\ \A s \in Services : pc'[s] = pc[s]
    BY <1>a, GotoFacts
  <2> QED
    BY <1>a, <2>1, PoolAside DEF Leaves, Quits
<1>1. CASE SetRawMode
  BY <1>1, <1>a DEF SetRawMode, KernelPC
<1>2. CASE InitServices
  <2>1. forked = 0
    BY <1>2 DEF InitServices, PoolInv
  <2> QED
    BY <1>2, <1>a, <2>1 DEF InitServices, KernelPC
<1>3. CASE ForkDone
  BY <1>3, <1>a DEF ForkDone, KernelPC
<1>4. CASE KernelSetsTty
  BY <1>4, <1>a DEF KernelSetsTty, KernelPC
<1>5. CASE KernelPauses
  BY <1>5, <1>a DEF KernelPauses, KernelPC
<1>6. CASE KillDone
  BY <1>6, <1>a DEF KillDone, KernelPC
<1>7. CASE RestoreTty
  BY <1>7, <1>a DEF RestoreTty, KernelPC
<1>8. CASE ReadBadKey
  BY <1>8, <1>a DEF ReadBadKey, KernelPC
<1>9. CASE ReadQuitKey
  BY <1>9, <1>a DEF ReadQuitKey, KernelPC
<1>10. CASE CallBeyondPool
  <2>1. /\ pc'[Kernel] = "to_pause" /\ UNCHANGED forked
        /\ \A s \in Services : pc'[s] = pc[s] /\ (Quits(s)' <=> Quits(s))
    BY <1>10, GotoFacts DEF CallBeyondPool, Quits
  <2> QED
    BY <2>1, PoolAside DEF Leaves
<1>11. ASSUME NEW s \in Services, ReadServiceKey(s) PROVE PoolInv'
  <2>1. /\ pc'[Kernel] = "to_pause" /\ UNCHANGED forked
        /\ \A r \in Services : pc'[r] = pc[r]
    BY <1>11, GotoFacts DEF ReadServiceKey
  <2>2. Kill(s, "USR1")
    BY <1>11 DEF ReadServiceKey
  <2>3. \A r \in Services : Quits(r)' <=> Quits(r)
    BY <2>2, KillFacts DEF Quits
  <2> QED
    BY <2>1, <2>3, PoolAside DEF Leaves
<1>12. CASE ForkService
  <2>1. pc[Kernel] = "spawn" /\ UNCHANGED pending /\ next < N /\ forked = next
    BY <1>12 DEF ForkService, ForkInv
  <2>2. CASE Goto(Kernel, "kill") /\ next' = 0 /\ UNCHANGED forked
    BY <1>a, <2>1, <2>2 DEF KernelPC
  <2>3. CASE forked' = forked + 1 /\ next' = next + 1 /\ Goto(next, "forked")
    <3> PICK n \in Services : n = next
      BY <2>1, KernelAssumption DEF TypeOK, Services
    <3>1. Goto(n, "forked")
      BY <2>3
    <3>2. /\ pc'[n] = "forked" /\ \A q \in Procs : q # n => pc'[q] = pc[q]
          /\ pc'[Kernel] = "spawn"
      BY <2>1, <3>1, GotoFacts
    <3>3. \A s \in Services : s \in Int /\ n \in Int
      BY KernelAssumption DEF Services
    <3>4. \A s \in Services : s < forked' <=> s < forked \/ s = n
      BY <2>1, <2>3, <3>3
    <3>5. \A s \in Services : Quits(s)' = Quits(s)
      BY <2>1 DEF Quits
    <3>6. ~Leaves'
      BY <3>2 DEF Leaves
    <3> QED
      BY <3>2, <3>4, <3>5, <3>6 DEF PoolInv
  <2> QED
    BY <1>12, <2>2, <2>3 DEF ForkService
<1>13. CASE KillService
  <2>1. pc[Kernel] = "kill" /\ next < N /\ UNCHANGED forked
    BY <1>13 DEF KillService
  <2>2. CASE next < forked /\ Kill(next, "TERM") /\ next' = next + 1 /\ UNCHANGED pc
    <3> PICK n \in Services : n = next
      BY <2>1, KernelAssumption DEF TypeOK, Services
    <3>1. Kill(n, "TERM")
      BY <2>2
    <3>2. /\ Quits(n)' /\ \A r \in Services : r # n => Quits(r)' = Quits(r)
      BY <3>1, KillFacts DEF Quits
    <3>3. \A s \in Services : s \in Int /\ n \in Int
      BY KernelAssumption DEF Services
    <3>4. \A s \in Services : ~(s < next) /\ s # n => ~(s < next')
      BY <2>2, <3>3
    <3> QED
      BY <2>1, <2>2, <3>2, <3>4 DEF PoolInv, Leaves
  <2>3. CASE /\ pending' = [p \in Procs |-> IF p < forked THEN pending[p] \cup {"TERM"}
                                                         ELSE pending[p]]
             /\ Goto(Kernel, "killed")
    <3>1. pc'[Kernel] = "killed" /\ \A s \in Services : pc'[s] = pc[s]
      BY <2>3, GotoFacts
    <3>2. \A s \in Services : (s < forked => Quits(s)') /\ (Quits(s)' => Quits(s) \/ s < forked)
      BY <2>3 DEF Quits
    <3> QED
      BY <2>1, <3>1, <3>2 DEF PoolInv
  <2> QED
    BY <1>13, <2>2, <2>3 DEF KillService
<1> QED
  BY <1>1, <1>2, <1>3, <1>4, <1>5, <1>6, <1>7, <1>8, <1>9, <1>10, <1>11, <1>12, <1>13
     DEF KernelStep, ReadKey

LEMMA ServiceKeepsPool ==
    ASSUME LInv, NEW s \in Services, ServiceStep(s) \/ Terminate(s)
    PROVE  PoolInv'
<1> USE ProcFacts DEF LInv, IInv
<1>a. \A l : Goto(s, l) => /\ pc'[s] = l
                            /\ \A q \in Procs : q # s => pc'[q] = pc[q]
  BY GotoFacts
<1>1. CASE ServiceStep(s)
  <2>1. PICK l \in {"to_pause", "paused", "use", "notify"} :
           /\ Goto(s, l) /\ UNCHANGED <<next, forked>> /\ pc[s] \notin {"none", "dead"}
           /\ pending' = pending \/ Kill(Kernel, "USR1")
    BY <1>1
       DEF ServiceStep, ServiceStarts, ServicePauses, ServiceSetsTty, UseService, ServiceNotifies
  <2>2. \A r \in Services : Quits(r)' <=> Quits(r)
    BY <2>1, KillFacts DEF Quits
  <2>3. pc'[s] = l /\ \A q \in Procs : q # s => pc'[q] = pc[q]
    BY <1>a, <2>1
  <2> QED
    BY <2>1, <2>2, <2>3 DEF PoolInv, Leaves
<1>2. CASE Terminate(s)
  <2>1. /\ pc'[s] = "dead" /\ \A q \in Procs : q # s => pc'[q] = pc[q]
        /\ UNCHANGED <<next, forked>> /\ Quits(s) /\ ~Quits(s)'
        /\ \A r \in Services : r # s => Quits(r)' = Quits(r)
    BY <1>2, <1>a DEF Terminate, TypeOK, Quits
  <2> QED
    BY <2>1 DEF PoolInv, Leaves
<1> QED
  BY <1>1, <1>2

LEMMA WakeUpKeepsPool ==
    ASSUME LInv, NEW p \in Procs, WakeUp(p)
    PROVE  PoolInv'
<1> USE ProcFacts DEF LInv, IInv
<1>1. \A s \in Services : Quits(s)' = Quits(s)
  BY DEF WakeUp, TypeOK, Quits
<1>2. UNCHANGED <<next, forked>>
  BY DEF WakeUp
<1>3. CASE UNCHANGED pc
  BY <1>1, <1>2, <1>3 DEF PoolInv, Leaves
<1>4. CASE pc[p] = "paused" /\ Goto(p, "set_tty")
  <2>1. /\ pc'[p] = "set_tty"
        /\ \A q \in Procs : q # p => pc'[q] = pc[q]
    BY <1>4, GotoFacts
  <2>2. Leaves' => Leaves /\ pc'[Kernel] = pc[Kernel]
    BY <2>1 DEF Leaves
  <2> QED
    BY <1>1, <1>2, <1>4, <2>1, <2>2 DEF PoolInv
<1> QED
  BY <1>3, <1>4 DEF WakeUp

LEMMA LInduction == LInv /\ [Next]_vars => LInv'
<1> SUFFICES ASSUME LInv, [Next]_vars PROVE LInv'
  OBVIOUS
<1>0. IInv'
  BY Induction DEF LInv
<1>1. CASE KernelStep \/ ReadKey
  BY <1>0, <1>1, KernelKeepsToken, KernelKeepsPool DEF LInv
<1>2. ASSUME NEW s \in Services, ServiceStep(s) \/ Terminate(s) PROVE LInv'
  BY <1>0, <1>2, ServiceKeepsToken, ServiceKeepsPool DEF LInv
<1>3. ASSUME NEW p \in Procs, WakeUp(p) PROVE LInv'
  BY <1>0, <1>3, WakeUpKeepsToken, WakeUpKeepsPool DEF LInv
<1>4. CASE UNCHANGED vars
  BY <1>0, <1>4
     DEF LInv, vars, history, Lossy, TokenInv, PoolInv, Waits, Asked, Busy, Answered, Quits, Leaves, Kernel
<1> QED
  BY <1>1, <1>2, <1>3, <1>4 DEF Next, Stopped

LEMMA LInvariance == Spec => []LInv
BY InitLInv, LInduction, PTL DEF Spec

-----------------------------------------------------------------------------
(* The kernel waits for service s, which it has called, and no signal was  *)
(* missed or went astray.                                                  *)
Calls(s) == pc[Kernel] = "paused" /\ called = s /\ ~Lossy

(* While it does, only services take steps. *)
LEMMA PausedStep ==
    ASSUME LInv, [Next]_vars, NEW s \in Services, Calls(s)
    PROVE  \/ UNCHANGED vars
           \/ \E r \in Services : ServiceStep(r) /\ called' = called /\ UNCHANGED history
           \/ \E p \in Procs : WakeUp(p)
<1> USE ProcFacts DEF history
<1>1. ~KernelStep /\ ~ReadKey
  BY DEF Calls, KernelStep, ReadKey, SetRawMode, InitServices, ForkService, ForkDone,
         KernelSetsTty, KernelPauses, KillService, KillDone, RestoreTty, ReadBadKey,
         ReadQuitKey, CallBeyondPool, ReadServiceKey
<1>2. \A r \in Services : ~Terminate(r)
  BY DEF Calls, LInv, TokenInv, Quits, Leaves, Terminate
<1>3. \A r \in Services : ServiceStep(r) => called' = called /\ UNCHANGED history
  BY DEF ServiceStep, ServiceStarts, ServicePauses, ServiceSetsTty, UseService, ServiceNotifies
<1> QED
  BY <1>1, <1>2, <1>3 DEF Next, Stopped

(* What a service's step does to the positions and to the signals. *)
LEMMA ServiceStepFacts ==
    ASSUME TypeOK, NEW r \in Services, ServiceStep(r)
    PROVE  /\ \A q \in Procs : q # r => pc'[q] = pc[q]
           /\ \A q \in Procs : "USR1" \in pending[q] => "USR1" \in pending'[q]
           /\ pc[r] = "set_tty" => pc'[r] = "use"
           /\ pc[r] = "use" => pc'[r] = "notify"
           /\ pc[r] = "notify" => "USR1" \in pending'[Kernel]
<1> USE ProcFacts
<1>a. \A l : Goto(r, l) => pc'[r] = l /\ \A q \in Procs : q # r => pc'[q] = pc[q]
  BY GotoFacts
<1>1. CASE ServiceNotifies(r)
  BY <1>1, <1>a, KillFacts DEF ServiceNotifies
<1>2. CASE ServiceStarts(r) \/ ServicePauses(r) \/ ServiceSetsTty(r) \/ UseService(r)
  BY <1>2, <1>a DEF ServiceStarts, ServicePauses, ServiceSetsTty, UseService
<1> QED
  BY <1>1, <1>2 DEF ServiceStep

(* What the delivery of a SIGUSR1 does to them. *)
LEMMA WakeUpFacts ==
    ASSUME TypeOK, NEW p \in Procs, WakeUp(p)
    PROVE  /\ \A q \in Procs : q # p => pc'[q] = pc[q] /\ pending'[q] = pending[q]
           /\ called' = called /\ strayed' = strayed
           /\ \/ pc[p] = "paused" /\ pc'[p] = "set_tty" /\ missed' = missed
              \/ missed'
<1>1. \A l : Goto(p, l) => pc'[p] = l /\ \A q \in Procs : q # p => pc'[q] = pc[q]
  BY GotoFacts
<1> QED
  BY <1>1 DEF WakeUp, TypeOK

(* What fairness is about: a service at work can go on, and a signal that  *)
(* is pending can be delivered.  The provers know nothing of ENABLED, so   *)
(* these are hypotheses below.                                             *)
CanWork(s) == Busy(s) => ENABLED <<ServiceStep(s)>>_vars
CanWakeUp(p) == "USR1" \in pending[p] => ENABLED <<WakeUp(p)>>_vars
CanQuit(s) == Quits(s) => ENABLED <<Terminate(s)>>_vars
AlwaysAble(s) == [](CanWork(s) /\ CanWakeUp(s) /\ CanWakeUp(Kernel) /\ CanQuit(s))

(* The token goes from the kernel's call through the service back to it. *)
LEMMA OneResumes ==
    ASSUME NEW s \in Services
    PROVE  /\ Spec /\ AlwaysAble(s)
           /\ ServiceRuns(s) /\ WakeUpDelivered(s) /\ WakeUpDelivered(Kernel)
           => ((pc[Kernel] = "paused" /\ called = s) ~> (pc[Kernel] # "paused" \/ missed \/ strayed))
<1> USE ProcFacts DEF Lossy, history
<1> DEFINE Goal == pc[Kernel] # "paused" \/ missed \/ strayed
           Sent == Calls(s) /\ Asked(s)
           At(l) == Calls(s) /\ pc[s] = l
           Back == Calls(s) /\ Answered
<1>s. ASSUME LInv, [Next]_vars, Calls(s), ~Goal'
      PROVE  /\ Calls(s)'
             /\ \/ UNCHANGED vars
                \/ \E r \in Services : ServiceStep(r)
                \/ \E r \in Services : WakeUp(r) /\ pc[r] = "paused" /\ pc'[r] = "set_tty"
  <2>1. CASE UNCHANGED vars
    BY <1>s, <2>1 DEF vars, history, Calls
  <2>2. ASSUME NEW r \in Services, ServiceStep(r), called' = called, UNCHANGED history
        PROVE  Calls(s)'
    BY <1>s, <2>2, ServiceStepFacts DEF Calls, LInv, IInv, Kernel
  <2>3. ASSUME NEW p \in Procs, WakeUp(p)
        PROVE  Calls(s)' /\ p \in Services /\ pc[p] = "paused" /\ pc'[p] = "set_tty"
    BY <1>s, <2>3, WakeUpFacts, KernelAssumption
       DEF Calls, LInv, IInv, Procs, Services, Kernel
  <2> QED
    BY <1>s, <2>1, <2>2, <2>3, PausedStep
<1>0. LInv /\ (pc[Kernel] = "paused" /\ called = s)
        => Goal \/ Sent \/ At("set_tty") \/ At("use") \/ At("notify") \/ Back
  BY DEF LInv, TokenInv, Calls, Waits, Busy
<1>1. LInv /\ [Next]_vars /\ Sent
        => (Sent' /\ ~<<WakeUp(s)>>_vars) \/ At("set_tty")' \/ Goal'
  <2> SUFFICES ASSUME LInv, [Next]_vars, Sent, ~Goal'
               PROVE  (Sent' /\ ~<<WakeUp(s)>>_vars) \/ At("set_tty")'
    OBVIOUS
  <2>1. CASE WakeUp(s)
    BY <1>s, <2>1, WakeUpFacts DEF LInv, IInv
  <2>2. CASE ~WakeUp(s)
    <3>1. "USR1" \in pending'[s]
      BY <1>s, <2>2, ServiceStepFacts, WakeUpFacts DEF LInv, IInv, Asked, vars
    <3> QED
      BY <1>s, <2>2, <3>1 DEF Asked
  <2> QED
    BY <2>1, <2>2
<1>w. ASSUME LInv, [Next]_vars, Calls(s), Busy(s), ~Goal'
      PROVE  Calls(s)' /\ (ServiceStep(s) \/ pc'[s] = pc[s])
  <2>1. ASSUME NEW r \in Services, WakeUp(r), pc[r] = "paused", pc'[r] = "set_tty"
        PROVE  pc'[s] = pc[s]
    BY <1>w, <2>1, WakeUpFacts DEF LInv, IInv, Busy
  <2>2. ASSUME NEW r \in Services, ServiceStep(r), r # s
        PROVE  pc'[s] = pc[s]
    BY <2>2, <1>w, ServiceStepFacts DEF LInv, IInv
  <2> QED
    BY <1>s, <1>w, <2>1, <2>2 DEF vars
<1>2. LInv /\ [Next]_vars /\ At("set_tty")
        => (At("set_tty")' /\ ~<<ServiceStep(s)>>_vars) \/ At("use")' \/ Goal'
  BY <1>w, ServiceStepFacts DEF LInv, IInv, Busy
<1>3. LInv /\ [Next]_vars /\ At("use")
        => (At("use")' /\ ~<<ServiceStep(s)>>_vars) \/ At("notify")' \/ Goal'
  BY <1>w, ServiceStepFacts DEF LInv, IInv, Busy
<1>4. LInv /\ [Next]_vars /\ At("notify")
        => (At("notify")' /\ ~<<ServiceStep(s)>>_vars) \/ Back' \/ Goal'
  BY <1>w, ServiceStepFacts DEF LInv, IInv, Busy, Answered, Kernel
<1>5. LInv /\ [Next]_vars /\ Back
        => (Back' /\ ~<<WakeUp(Kernel)>>_vars) \/ Goal'
  <2> SUFFICES ASSUME LInv, [Next]_vars, Back, ~Goal'
               PROVE  Back' /\ ~<<WakeUp(Kernel)>>_vars
    OBVIOUS
  <2>1. ~WakeUp(Kernel)
    BY WakeUpFacts DEF LInv, IInv, Kernel
  <2>2. "USR1" \in pending'[Kernel]
    BY <1>s, ServiceStepFacts, WakeUpFacts DEF LInv, IInv, Answered, vars
  <2> QED
    BY <1>s, <2>1, <2>2 DEF Answered, Kernel
<1>6. /\ Sent => "USR1" \in pending[s]
      /\ At("set_tty") => Busy(s)
      /\ At("use") => Busy(s)
      /\ At("notify") => Busy(s)
      /\ Back => "USR1" \in pending[Kernel]
  BY DEF Asked, Busy, Answered
<1> HIDE DEF Goal, Sent, At, Back
<1>7. /\ Spec /\ AlwaysAble(s)
      /\ ServiceRuns(s) /\ WakeUpDelivered(s) /\ WakeUpDelivered(Kernel)
      => ((pc[Kernel] = "paused" /\ called = s) ~> Goal)
  BY <1>0, <1>1, <1>2, <1>3, <1>4, <1>5, <1>6, LInvariance, PTL
     DEF Spec, AlwaysAble, CanWork, CanWakeUp, ServiceRuns, WakeUpDelivered
<1> QED
  BY <1>7 DEF Goal

(***************************************************************************)
(* However many services there are and whatever they do meanwhile, a call  *)
(* comes back unless a signal was missed, or an index behind the pool's    *)
(* end was called: the answer is given, and only to a kernel that waits    *)
(* for it (main.c 71-77, 99-100).                                          *)
(***************************************************************************)
THEOREM CallsComeBack ==
    FairSpec /\ (\A s \in Services : AlwaysAble(s)) => ResumesUnlessMissed
<1>1. ASSUME NEW s \in Services
      PROVE  FairSpec /\ (\A q \in Services : AlwaysAble(q))
                 => ((pc[Kernel] = "paused" /\ called = s) ~> (pc[Kernel] # "paused" \/ missed \/ strayed))
  <2>1. FairSpec /\ (\A q \in Services : AlwaysAble(q))
            => /\ Spec /\ AlwaysAble(s)
               /\ ServiceRuns(s) /\ WakeUpDelivered(s) /\ WakeUpDelivered(Kernel)
    BY ProcFacts DEF FairSpec, Fairness
  <2> QED
    BY <2>1, OneResumes, PTL
<1>2. FairSpec /\ (\A q \in Services : AlwaysAble(q))
          => \A s \in Services :
                 (pc[Kernel] = "paused" /\ called = s) ~> (pc[Kernel] # "paused" \/ missed \/ strayed)
  BY <1>1
<1> QED
  BY <1>2 DEF ResumesUnlessMissed

-----------------------------------------------------------------------------
(* A kernel that is gone stays gone; a service that is dead or was never   *)
(* forked stays so, and a SIGTERM stays pending until it is delivered.     *)
LEMMA GoneStep ==
    ASSUME LInv, [Next]_vars, Gone, NEW s \in Services
    PROVE  /\ Gone'
           /\ pc[s] \in {"none", "dead"} => pc'[s] = pc[s]
           /\ Quits(s) => Quits(s)' \/ pc'[s] = "dead"
           /\ Terminate(s) => pc'[s] = "dead"
<1> USE ProcFacts DEF LInv, IInv
<1>1. ~KernelStep /\ ~ReadKey
  BY DEF Gone, KernelStep, ReadKey, SetRawMode, InitServices, ForkService, ForkDone,
         KernelSetsTty, KernelPauses, KillService, KillDone, RestoreTty, ReadBadKey,
         ReadQuitKey, CallBeyondPool, ReadServiceKey
<1>2. ASSUME NEW r \in Services, ServiceStep(r)
      PROVE  /\ pc'[Kernel] = pc[Kernel]
             /\ pc[s] \in {"none", "dead"} => pc'[s] = pc[s]
             /\ Quits(s) => Quits(s)'
  <2>1. pc[r] \notin {"none", "dead"}
    BY <1>2
       DEF ServiceStep, ServiceStarts, ServicePauses, ServiceSetsTty, UseService, ServiceNotifies
  <2>2. \A q \in Procs : "TERM" \in pending[q] => "TERM" \in pending'[q]
    BY <1>2, KillFacts
       DEF ServiceStep, ServiceStarts, ServicePauses, ServiceSetsTty, UseService, ServiceNotifies
  <2> QED
    BY <1>2, <2>1, <2>2, ServiceStepFacts DEF Quits
<1>3. ASSUME NEW r \in Services, Terminate(r)
      PROVE  /\ pc'[Kernel] = pc[Kernel]
             /\ pc[s] \in {"none", "dead"} => pc'[s] = pc[s]
             /\ Quits(s) => Quits(s)' \/ pc'[s] = "dead"
             /\ r = s => pc'[s] = "dead"
  <2>1. /\ pc'[r] = "dead" /\ \A q \in Procs : q # r => pc'[q] = pc[q]
        /\ \A q \in Procs : q # r => pending'[q] = pending[q]
    BY <1>3, GotoFacts DEF Terminate, TypeOK
  <2>2. pc[r] # "none"
    BY <1>3 DEF Terminate, PoolInv, Quits
  <2> QED
    BY <2>1, <2>2 DEF Quits
<1>4. ASSUME NEW p \in Procs, WakeUp(p)
      PROVE  /\ pc'[Kernel] = pc[Kernel]
             /\ pc[s] \in {"none", "dead"} => pc'[s] = pc[s]
             /\ Quits(s) => Quits(s)'
  <2>1. /\ pc[p] # "paused" => UNCHANGED pc
        /\ \A q \in Procs : q # p => pc'[q] = pc[q]
    BY <1>4, WakeUpFacts DEF WakeUp
  <2>2. "TERM" \in pending[s] => "TERM" \in pending'[s]
    BY <1>4 DEF WakeUp, TypeOK
  <2> QED
    BY <2>1, <2>2 DEF Gone, Quits
<1>5. CASE UNCHANGED vars
  BY <1>5, <1>3 DEF vars, Gone, Quits
<1> QED
  BY <1>1, <1>2, <1>3, <1>4, <1>5 DEF Next, Stopped, Gone

(* Once the kernel is gone, service s ends and stays ended. *)
LEMMA OneEnds ==
    ASSUME NEW s \in Services
    PROVE  Spec /\ AlwaysAble(s) /\ QuitDelivered(s)
               => ((pc[Kernel] \in {"exited", "killed"}) ~> [](pc[s] \in {"none", "dead"}))
<1> DEFINE Away == pc[Kernel] \in {"exited", "killed"}
           Ended == pc[s] \in {"none", "dead"}
           Quitting == Quits(s)
           Over == Gone
<1>1. LInv /\ Away => Over /\ (Ended \/ Quitting)
  BY DEF LInv, PoolInv, Gone, Leaves
<1>2. LInv /\ [Next]_vars /\ Over => Over' /\ (Ended => Ended')
  BY GoneStep
<1>3. LInv /\ [Next]_vars /\ Over /\ Quitting
         => (Quitting' /\ ~<<Terminate(s)>>_vars) \/ Ended'
  BY GoneStep
<1>4. Quitting => Quits(s)
  OBVIOUS
<1> HIDE DEF Away, Ended, Quitting, Over
<1>5. Spec /\ AlwaysAble(s) /\ QuitDelivered(s) => (Away ~> []Ended)
  BY <1>1, <1>2, <1>3, <1>4, LInvariance, PTL DEF Spec, AlwaysAble, CanQuit, QuitDelivered
<1> QED
  BY <1>5 DEF Away, Ended

(***************************************************************************)
(* No service outlives the kernel, however many there are, wherever each   *)
(* of them is when the kernel goes, and also when fork failed half-way     *)
(* (main.c 55, 109).                                                       *)
(***************************************************************************)
THEOREM NoOrphans ==
    FairSpec /\ (\A s \in Services : AlwaysAble(s)) => ServicesEnd
<1>1. ASSUME NEW s \in Services
      PROVE  FairSpec /\ (\A q \in Services : AlwaysAble(q))
                 => ((pc[Kernel] \in {"exited", "killed"}) ~> [](pc[s] \in {"none", "dead"}))
  <2>1. FairSpec /\ (\A q \in Services : AlwaysAble(q))
            => Spec /\ AlwaysAble(s) /\ QuitDelivered(s)
    BY DEF FairSpec, Fairness
  <2> QED
    BY <2>1, OneEnds, PTL
<1>2. FairSpec /\ (\A q \in Services : AlwaysAble(q))
          => \A s \in Services :
                 (pc[Kernel] \in {"exited", "killed"}) ~> [](pc[s] \in {"none", "dead"})
  BY <1>1
<1> QED
  BY <1>2 DEF ServicesEnd
=============================================================================
