--------------------------- MODULE KernelServices ---------------------------
(***************************************************************************)
(* The process pool of fork/: a kernel that reads single keys from the     *)
(* terminal and N services, forked from it, that each read and process one *)
(* line when they are asked to.  They share the terminal and talk by       *)
(* SIGUSR1; the kernel ends them by SIGTERM.                               *)
(*                                                                         *)
(* A signal is pending from kill() until it is delivered, and a second one *)
(* of the same kind is not queued.  A SIGUSR1 that is delivered outside    *)
(* pause() runs its handler and is gone: a later pause() waits for another *)
(* one.  (signal() installs handlers that persist and restart read(), as   *)
(* the gnu99 build does, so no read is cut short.)                         *)
(*                                                                         *)
(* The services are 0 .. N-1, like service_id; process N is the kernel.    *)
(***************************************************************************)
EXTENDS Integers

CONSTANTS
    N,          \* N_SERVICES
    Nobody,     \* stands for an index that is no service
    Closed,     \* stands for the owner of the terminal after the end
    Faults,     \* the calls that may fail: "init_services", "fork"
    StrayDigit  \* the byte that follows c on the kernel's stack may be a digit

ASSUME KernelAssumption ==
    /\ N \in Nat \ {0}
    /\ Nobody \notin Int /\ Closed \notin Int /\ Nobody # Closed
    /\ Faults \subseteq {"init_services", "fork"}
    /\ StrayDigit \in BOOLEAN

Services == 0 .. N - 1
Kernel == N
Procs == 0 .. N

VARIABLES
    pc,         \* where each process is
    next,       \* i of spawn_child_processes and of kill_services
    forked,     \* the number of pids stored in the pool; the others are 0
    called,     \* the index main passes to call_service
    pending,    \* the pending signals of each process
    tty,        \* the mode of the terminal
    served,     \* (history) the service that processed a string since the last call
    missed,     \* (history) a SIGUSR1 came to a process that was not in pause()
    strayed     \* (history) the kernel has called an index behind the pool's end

history == <<missed, strayed>>
vars == <<pc, next, forked, called, pending, tty, served, history>>

KernelPC == {"start", "init", "spawn", "set_tty", "read", "to_pause", "paused",
             "kill", "restore", "exited", "killed"}
ServicePC == {"none", "forked", "to_pause", "paused", "set_tty", "use", "notify", "dead"}

-----------------------------------------------------------------------------
Init == /\ pc = [p \in Procs |-> IF p = Kernel THEN "start" ELSE "none"]
        /\ next = 0
        /\ forked = 0
        /\ called = Nobody
        /\ pending = [p \in Procs |-> {}]
        /\ tty = "old"
        /\ served = Nobody
        /\ missed = FALSE
        /\ strayed = FALSE

Goto(p, l) == pc' = [pc EXCEPT ![p] = l]

(* kill() with the pid of process p. *)
Kill(p, signal) == pending' = [pending EXCEPT ![p] = @ \cup {signal}]

-----------------------------------------------------------------------------
(***************************************************************************)
(* Plausible mistakes, each a replacement for the action its name begins   *)
(* with; none is part of Next.  A property that survived all of them would *)
(* say little about the code.                                              *)
(***************************************************************************)
ForkService_OneTooMany ==
    /\ pc[Kernel] = "spawn" /\ next <= N
    /\ next' = next + 1 /\ forked' = forked + 1
    /\ Goto(next, "forked")
    /\ UNCHANGED <<called, pending, tty, served, history>>

KernelSetsTty_OnlyAtStart ==
    /\ pc[Kernel] = "set_tty"
    /\ Goto(Kernel, "read")
    /\ UNCHANGED <<next, forked, called, pending, tty, served, history>>

ReadQuitKey_SparesFirst ==
    /\ pc[Kernel] = "read"
    /\ next' = 1
    /\ Goto(Kernel, "kill")
    /\ UNCHANGED <<forked, called, pending, tty, served, history>>

ReadServiceKey_CountsFromOne(s) ==
    /\ pc[Kernel] = "read"
    /\ called' = s
    /\ Kill(IF s = 0 THEN 0 ELSE s - 1, "USR1")
    /\ served' = Nobody
    /\ Goto(Kernel, "to_pause")
    /\ UNCHANGED <<next, forked, tty, history>>

KernelPauses_Not ==
    /\ pc[Kernel] = "to_pause"
    /\ Goto(Kernel, "set_tty")
    /\ UNCHANGED <<next, forked, called, pending, tty, served, history>>

RestoreTty_Not ==
    /\ pc[Kernel] = "restore"
    /\ Goto(Kernel, "exited")
    /\ UNCHANGED <<next, forked, called, pending, tty, served, history>>

ServiceNotifies_Not(s) ==
    /\ pc[s] = "notify"
    /\ Goto(s, "to_pause")
    /\ UNCHANGED <<next, forked, called, pending, tty, served, history>>

-----------------------------------------------------------------------------
(* The kernel, in the order of main. *)

SetRawMode ==
    /\ pc[Kernel] = "start"
    /\ tty' = "raw"
    /\ Goto(Kernel, "init")
    /\ UNCHANGED <<next, forked, called, pending, served, history>>

(* make_pool, init_services and listen_to_children. *)
InitServices ==
    /\ pc[Kernel] = "init"
    /\ \/ Goto(Kernel, "spawn") /\ UNCHANGED tty
       \/ /\ "init_services" \in Faults
          /\ tty' = "old"
          /\ Goto(Kernel, "exited")
    /\ UNCHANGED <<next, forked, called, pending, served, history>>

(***************************************************************************)
(* One round of spawn_child_processes.  The child inherits the kernel's    *)
(* handler of SIGUSR1 and no pending signal.  When fork fails, the pids    *)
(* from here on are still the zeros of calloc and kill_services is called. *)
(***************************************************************************)
ForkService ==
    /\ pc[Kernel] = "spawn" /\ next < N
    /\ \/ /\ forked' = forked + 1
          /\ next' = next + 1
          /\ Goto(next, "forked")
       \/ /\ "fork" \in Faults
          /\ next' = 0
          /\ Goto(Kernel, "kill")
          /\ UNCHANGED forked
    /\ UNCHANGED <<called, pending, tty, served, history>>

ForkDone ==
    /\ pc[Kernel] = "spawn" /\ ~(next < N)
    /\ Goto(Kernel, "set_tty")
    /\ UNCHANGED <<next, forked, called, pending, tty, served, history>>

(* The head of the loop: noncanonical mode for one key. *)
KernelSetsTty ==
    /\ pc[Kernel] = "set_tty"
    /\ tty' = "raw"
    /\ Goto(Kernel, "read")
    /\ UNCHANGED <<next, forked, called, pending, served, history>>

(* A key that names no service: once more from the head of the loop. *)
ReadBadKey ==
    /\ pc[Kernel] = "read"
    /\ Goto(Kernel, "set_tty")
    /\ UNCHANGED <<next, forked, called, pending, tty, served, history>>

(* Q or q. *)
ReadQuitKey ==
    /\ pc[Kernel] = "read"
    /\ next' = 0
    /\ Goto(Kernel, "kill")
    /\ UNCHANGED <<forked, called, pending, tty, served, history>>

(***************************************************************************)
(* The digit of service s, then call_service(atoi(&c)).  atoi reads on     *)
(* behind c.  A digit found there after a '0' is itself the index, so one  *)
(* key stands for another; after any other digit see CallBeyondPool.       *)
(***************************************************************************)
ReadServiceKey(s) ==
    /\ pc[Kernel] = "read"
    /\ called' = s
    /\ Kill(s, "USR1")
    /\ served' = Nobody
    /\ Goto(Kernel, "to_pause")
    /\ UNCHANGED <<next, forked, tty, history>>

(***************************************************************************)
(* A service's digit with a second one behind it: an index beyond the end  *)
(* of pids.  What is found there is the pid of no process of this program, *)
(* or 0, which addresses all of them; the kernel's own handler then runs   *)
(* before kill() returns, and its later pause() misses that signal.        *)
(***************************************************************************)
CallBeyondPool ==
    /\ StrayDigit
    /\ pc[Kernel] = "read"
    /\ \/ UNCHANGED <<pending, missed>>
       \/ /\ pending' = [p \in Procs |-> IF p = Kernel THEN pending[p]
                                                      ELSE pending[p] \cup {"USR1"}]
          /\ missed' = TRUE
    /\ called' = Nobody
    /\ served' = Nobody
    /\ strayed' = TRUE
    /\ Goto(Kernel, "to_pause")
    /\ UNCHANGED <<next, forked, tty>>

KernelPauses ==
    /\ pc[Kernel] = "to_pause"
    /\ Goto(Kernel, "paused")
    /\ UNCHANGED <<next, forked, called, pending, tty, served, history>>

(***************************************************************************)
(* One round of kill_services.  A pid of 0 addresses the whole process     *)
(* group: the kernel has no handler for SIGTERM and dies in kill().        *)
(***************************************************************************)
KillService ==
    /\ pc[Kernel] = "kill" /\ next < N
    /\ \/ /\ next < forked
          /\ Kill(next, "TERM")
          /\ next' = next + 1
          /\ UNCHANGED pc
       \/ /\ ~(next < forked)
          /\ pending' = [p \in Procs |-> IF p < forked THEN pending[p] \cup {"TERM"}
                                                       ELSE pending[p]]
          /\ Goto(Kernel, "killed")
          /\ UNCHANGED next
    /\ UNCHANGED <<forked, called, tty, served, history>>

KillDone ==
    /\ pc[Kernel] = "kill" /\ ~(next < N)
    /\ Goto(Kernel, "restore")
    /\ UNCHANGED <<next, forked, called, pending, tty, served, history>>

(* release_services, apply_tty(&old_tty) and return. *)
RestoreTty ==
    /\ pc[Kernel] = "restore"
    /\ tty' = "old"
    /\ Goto(Kernel, "exited")
    /\ UNCHANGED <<next, forked, called, pending, served, history>>

-----------------------------------------------------------------------------
(* A service, from its fork. *)

(* signal(SIGUSR1, work_handler), signal(SIGTERM, quit_handler). *)
ServiceStarts(s) ==
    /\ pc[s] = "forked"
    /\ Goto(s, "to_pause")
    /\ UNCHANGED <<next, forked, called, pending, tty, served, history>>

ServicePauses(s) ==
    /\ pc[s] = "to_pause"
    /\ Goto(s, "paused")
    /\ UNCHANGED <<next, forked, called, pending, tty, served, history>>

ServiceSetsTty(s) ==
    /\ pc[s] = "set_tty"
    /\ tty' = "old"
    /\ Goto(s, "use")
    /\ UNCHANGED <<next, forked, called, pending, served, history>>

(* use_service: one line is read and processed, or found empty. *)
UseService(s) ==
    /\ pc[s] = "use"
    /\ served' = s
    /\ Goto(s, "notify")
    /\ UNCHANGED <<next, forked, called, pending, tty, history>>

ServiceNotifies(s) ==
    /\ pc[s] = "notify"
    /\ Kill(Kernel, "USR1")
    /\ Goto(s, "to_pause")
    /\ UNCHANGED <<next, forked, called, tty, served, history>>

-----------------------------------------------------------------------------
(* Delivery of a pending signal. *)

(* work_handler or kernel_sighandler returns, and so does pause(). *)
WakeUp(p) ==
    /\ "USR1" \in pending[p]
    /\ pending' = [pending EXCEPT ![p] = @ \ {"USR1"}]
    /\ \/ /\ pc[p] = "paused"
          /\ Goto(p, "set_tty")
          /\ UNCHANGED missed
       \/ /\ pc[p] # "paused"
          /\ missed' = TRUE
          /\ UNCHANGED pc
    /\ UNCHANGED <<next, forked, called, tty, served, strayed>>

(* quit_handler, or the default action before it is installed. *)
Terminate(s) ==
    /\ "TERM" \in pending[s]
    /\ pending' = [pending EXCEPT ![s] = {}]
    /\ Goto(s, "dead")
    /\ UNCHANGED <<next, forked, called, tty, served, history>>

-----------------------------------------------------------------------------
(* What the kernel does without its user. *)
KernelStep ==
    \/ SetRawMode \/ InitServices \/ ForkService \/ ForkDone
    \/ KernelSetsTty \/ KernelPauses
    \/ KillService \/ KillDone \/ RestoreTty

ReadKey == \/ ReadBadKey \/ ReadQuitKey \/ CallBeyondPool
           \/ \E s \in Services : ReadServiceKey(s)

ServiceStep(s) ==
    \/ ServiceStarts(s) \/ ServicePauses(s) \/ ServiceSetsTty(s)
    \/ UseService(s) \/ ServiceNotifies(s)

(* Nothing runs any more: after the end, after a missed signal, or after a *)
(* call that reached no service.                                           *)
Stopped == (pc[Kernel] \in {"exited", "killed"} \/ missed \/ strayed) /\ UNCHANGED vars

Next == \/ KernelStep \/ ReadKey
        \/ \E s \in Services : ServiceStep(s) \/ Terminate(s)
        \/ \E p \in Procs : WakeUp(p)
        \/ Stopped

(***************************************************************************)
(* Every process is scheduled, every signal is delivered, and a user who   *)
(* was asked for a line types one.  No user has to press another key.      *)
(***************************************************************************)
KernelRuns == WF_vars(KernelStep)
ServiceRuns(s) == WF_vars(ServiceStep(s))
QuitDelivered(s) == WF_vars(Terminate(s))
WakeUpDelivered(p) == WF_vars(WakeUp(p))

Fairness == /\ KernelRuns
            /\ \A s \in Services : ServiceRuns(s) /\ QuitDelivered(s)
            /\ \A p \in Procs : WakeUpDelivered(p)

Spec == Init /\ [][Next]_vars
FairSpec == Spec /\ Fairness

-----------------------------------------------------------------------------
(* Every variable stays in its range; the counters stay within the pool. *)
TypeOK ==
    /\ pc \in [Procs -> KernelPC \cup ServicePC]
    /\ pc[Kernel] \in KernelPC
    /\ \A s \in Services : pc[s] \in ServicePC
    /\ next \in 0 .. N /\ forked \in 0 .. N
    /\ called \in Services \cup {Nobody}
    /\ pending \in [Procs -> SUBSET {"USR1", "TERM"}]
    /\ tty \in {"old", "raw"}
    /\ served \in Services \cup {Nobody}
    /\ missed \in BOOLEAN /\ strayed \in BOOLEAN

(***************************************************************************)
(* Only one process at a time reads from the terminal or sets its mode: a  *)
(* service only while the kernel is suspended "in order to release the     *)
(* terminal" (main.c 97-100), and no two services (main.c 70-77).  (Once   *)
(* an index beyond the pool was called there is nothing to promise.)       *)
(***************************************************************************)
OneReader ==
    \A s \in Services : pc[s] \in {"set_tty", "use"} /\ ~strayed
        => /\ pc[Kernel] \in {"to_pause", "paused"}
           /\ \A r \in Services \ {s} : pc[r] \notin {"set_tty", "use"}

(***************************************************************************)
(* The reader finds the terminal in its own mode: the kernel reads keys    *)
(* in noncanonical mode, a service reads a line in the user's mode         *)
(* (main.c 72-73, 86-90), whoever changed the mode last.                   *)
(***************************************************************************)
ModeOfReader ==
    ~strayed => /\ pc[Kernel] = "read" => tty = "raw"
                /\ \A s \in Services : pc[s] = "use" => tty = "old"

(***************************************************************************)
(* When main has returned, the terminal is in its initial mode and stays   *)
(* there, whatever the services still do (main.c 107-112).                 *)
(***************************************************************************)
TerminalRestored == pc[Kernel] = "exited" => tty = "old"

(***************************************************************************)
(* The terminal passes from the kernel to the service that was called and, *)
(* once that service has processed one string, back to the kernel.         *)
(***************************************************************************)
Terminal == INSTANCE Console WITH
    Owners <- Services,
    Shell <- Kernel,
    holder <- IF strayed THEN Nobody
              ELSE IF pc[Kernel] \in {"exited", "killed"} THEN Closed
              ELSE IF pc[Kernel] \in {"to_pause", "paused"} THEN called
              ELSE Kernel

ImplementsConsole == Terminal!ConsoleSpec

(***************************************************************************)
(* Whichever service it has called, the kernel comes back from pause()     *)
(* unless some signal was missed: while only services are called, the race *)
(* between kill() and pause() is the only way to hang (main.c 71-77,       *)
(* 99-100).  Nothing is promised once an index behind the pool's end was   *)
(* called, as nobody need answer that call.                                *)
(***************************************************************************)
ResumesUnlessMissed ==
    \A s \in Services :
        (pc[Kernel] = "paused" /\ called = s) ~> (pc[Kernel] # "paused" \/ missed \/ strayed)

(***************************************************************************)
(* No service outlives the kernel: kill_services reaches each of them,     *)
(* also one that has not installed its handlers yet, and also after a      *)
(* failed fork, and none comes back (main.c 55, 109).                      *)
(***************************************************************************)
ServicesEnd ==
    \A s \in Services :
        (pc[Kernel] \in {"exited", "killed"}) ~> [](pc[s] \in {"none", "dead"})

-----------------------------------------------------------------------------
(***************************************************************************)
(* kernel.c 11-12, of the kernel's handler: "empty signal handler to wake  *)
(* up from pause() after child service finishes its work".                 *)
(***************************************************************************)
WakesUp == (pc[Kernel] = "paused") ~> (pc[Kernel] # "paused")

(***************************************************************************)
(* main.c 52-58: "correctly handle the forking error case", whose branch   *)
(* applies old_tty, so that a kernel that is gone leaves the terminal in   *)
(* its initial mode.                                                       *)
(***************************************************************************)
RestoredAfterForkError == pc[Kernel] \in {"exited", "killed"} => tty = "old"
=============================================================================
