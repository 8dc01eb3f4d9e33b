--------------------------- MODULE StringServices ---------------------------
(***************************************************************************)
(* What use_service of fork/ does: it reads one line from the terminal,    *)
(* byte by byte into a buffer that doubles when it is full, and changes    *)
(* the line in place by one of four loops.  A step is a round of a loop.   *)
(* KernelServices has all of this as its one step UseService; this module  *)
(* looks inside, at one call after another on the same terminal.           *)
(*                                                                         *)
(* The terminal's input is a sequence of bytes that comes to an end; the   *)
(* buffer is indexed from 0, as in C.                                      *)
(***************************************************************************)
EXTENDS Integers, Sequences

CONSTANTS
    BufferSize,     \* BUFFER_SIZE, the capacity of a new string
    Memory,         \* no calloc of more bytes than this succeeds
    CallocMayFail,  \* other callocs may fail, too
    SizeMax,        \* the largest size_t
    Bytes,          \* the bytes on the terminal
    Inputs,         \* what may be typed
    Unset           \* stands for the value of ch before it is assigned

NUL == 0
NewLine == 10

ASSUME StringAssumption ==
    /\ BufferSize \in Nat \ {0} /\ Memory \in Nat /\ SizeMax \in Nat
    /\ 2 * Memory <= SizeMax
    /\ CallocMayFail \in BOOLEAN
    /\ Bytes \subseteq 0 .. 255 /\ {NUL, NewLine} \subseteq Bytes
    /\ Inputs \subseteq Seq(Bytes)
    /\ Unset \notin 0 .. 255

(* actions[], by the operation each handler calls. *)
Operations == {"swap_register", "invert_string", "swap_neighbours", "swap_charset"}

VARIABLES
    pc,         \* where the service is
    service,    \* the operation that was called
    input,      \* everything the terminal delivers
    at,         \* the number of bytes read from it
    ch,         \* ch of read_string
    str,        \* whether the string_t pointer is "null" or "made"
    raw,        \* raw_string, length and capacity of the string
    length,
    capacity,
    i,          \* the index of the operation's loop
    live,       \* the number of blocks calloc gave and free did not take back
    from,       \* (history) at, when read_string was called
    failed      \* (history) read_string has given up within a line

string == <<str, raw, length, capacity>>
vars == <<pc, service, input, at, ch, string, i, live, from, failed>>

PC == {"idle", "empty", "read", "check", "reject", "loop", "print"}

-----------------------------------------------------------------------------
(* What a byte becomes. *)

IsUpper(c) == c \in 65 .. 90
IsLower(c) == c \in 97 .. 122
SwapCase(c) == IF IsUpper(c) THEN c + 32 ELSE IF IsLower(c) THEN c - 32 ELSE c

(* c |= 1 << 7 *)
SetHighBit(c) == IF c < 128 THEN c + 128 ELSE c

(* n - 1 for a size_t n. *)
Pred(n) == IF n = 0 THEN SizeMax ELSE n - 1

(***************************************************************************)
(* What each operation is to make of byte k of a line of n bytes, where    *)
(* old[j] is byte j before.                                                *)
(***************************************************************************)
Expected(op, old(_), n, k) ==
    CASE op = "swap_register" -> SwapCase(old(k))
      [] op = "invert_string" -> old(n - 1 - k)
      [] op = "swap_neighbours" -> IF (k % 2) = 1 THEN old(k - 1)
                                   ELSE IF k + 1 < n THEN old(k + 1)
                                   ELSE old(k)
      [] op = "swap_charset" -> SetHighBit(old(k))

-----------------------------------------------------------------------------
Init == /\ pc = "idle"
        /\ service = "swap_register"
        /\ input \in Inputs
        /\ at = 0
        /\ ch = Unset
        /\ str = "null"
        /\ raw = << >> /\ length = 0 /\ capacity = 0
        /\ i = 0
        /\ live = 0
        /\ from = 0
        /\ failed = FALSE

(* calloc(n, 1) may succeed, or may fail. *)
MayGet(n) == n <= Memory
MayBeDenied(n) == CallocMayFail \/ n > Memory

(* The string is freed, with delete_string, or was never made. *)
NoString == str' = "null" /\ raw' = << >> /\ length' = 0 /\ capacity' = 0

(* The byte ch holds after read(): the old one at the end of the input. *)
Taken == IF at < Len(input) THEN {input[at + 1]}
         ELSE IF ch = Unset THEN Bytes ELSE {ch}

(* calloc and strncpy of resize_string: a copy of length bytes up to a NUL. *)
Doubled == [k \in 0 .. 2 * capacity - 1 |->
              IF k < length /\ (\A j \in 0 .. k : raw[j] # NUL) THEN raw[k] ELSE NUL]

-----------------------------------------------------------------------------
UseService(op) ==
    /\ pc = "idle"
    /\ service' = op
    /\ ch' = Unset
    /\ from' = at
    /\ pc' = "empty"
    /\ UNCHANGED <<input, at, string, i, live, failed>>

(***************************************************************************)
(* empty_string: the string_t and its bytes, or nothing.                   *)
(***************************************************************************)
EmptyString ==
    /\ pc = "empty"
    /\ \/ /\ MayGet(BufferSize)
          /\ str' = "made"
          /\ raw' = [k \in 0 .. BufferSize - 1 |-> NUL]
          /\ length' = 0 /\ capacity' = BufferSize
          /\ live' = live + 2
          /\ pc' = "read"
       \/ /\ MayBeDenied(BufferSize)
          /\ pc' = "check"
          /\ UNCHANGED <<string, live>>
    /\ UNCHANGED <<service, input, at, ch, i, from, failed>>

(* The rest of a round of read_string, on a buffer with room for b. *)
StoreOrStop(b, buffer, size) ==
    /\ capacity' = size
    /\ \/ /\ b = NewLine
          /\ raw' = buffer
          /\ pc' = "check"
          /\ UNCHANGED length
       \/ /\ b # NewLine
          /\ raw' = [buffer EXCEPT ![length] = b]
          /\ length' = length + 1
          /\ UNCHANGED pc
    /\ UNCHANGED <<str, live, failed>>

(***************************************************************************)
(* Plausible mistakes, each a replacement for the action its name begins   *)
(* with; none is part of Next.                                             *)
(***************************************************************************)
ReadByte_With(Room(_)) ==
    /\ pc = "read"
    /\ at' = IF at < Len(input) THEN at + 1 ELSE at
    /\ \E b \in Taken : ch' = b /\ Room(b)
    /\ UNCHANGED <<service, input, i, from>>

(* The buffer grows one byte too late. *)
ReadByte_LetsItOverflow ==
    LET Room(b) == IF length <= capacity THEN StoreOrStop(b, raw, capacity)
                                         ELSE StoreOrStop(b, Doubled, 2 * capacity)
    IN  ReadByte_With(Room)

(* The newline is looked for before the buffer grows. *)
ReadByte_StopsFirst ==
    LET Room(b) == IF b = NewLine \/ length < capacity
                   THEN StoreOrStop(b, raw, capacity)
                   ELSE StoreOrStop(b, Doubled, 2 * capacity)
    IN  ReadByte_With(Room)

(* A full buffer ends the line. *)
ReadByte_StopsWhenFull ==
    LET Room(b) == IF length + 1 < capacity
                   THEN StoreOrStop(b, raw, capacity)
                   ELSE StoreOrStop(NewLine, raw, capacity)
    IN  ReadByte_With(Room)

(* A full buffer is filled again from its start. *)
ReadByte_StartsOver ==
    LET Room(b) == IF length < capacity
                   THEN StoreOrStop(b, raw, capacity)
                   ELSE length' = 0 /\ UNCHANGED <<pc, str, raw, capacity, live, failed>>
    IN  ReadByte_With(Room)

CheckString_AllowsEmpty ==
    /\ pc = "check"
    /\ i' = 0
    /\ pc' = IF str = "null" THEN "reject" ELSE "loop"
    /\ UNCHANGED <<service, input, at, ch, string, live, from, failed>>

Reject_KeepsString ==
    /\ pc = "reject"
    /\ NoString
    /\ pc' = "idle"
    /\ UNCHANGED <<service, input, at, ch, i, live, from, failed>>

(***************************************************************************)
(* A round of read_string.  Room is made before the byte is looked at, so  *)
(* that there is some left behind the line.  When that fails, the rest of  *)
(* the line stays on the terminal.                                         *)
(***************************************************************************)
ReadByte ==
    /\ pc = "read"
    /\ at' = IF at < Len(input) THEN at + 1 ELSE at
    /\ \E b \in Taken :
         /\ ch' = b
         /\ \/ capacity # length /\ StoreOrStop(b, raw, capacity)
            \/ /\ capacity = length /\ MayGet(2 * capacity)
               /\ StoreOrStop(b, Doubled, 2 * capacity)
            \/ /\ capacity = length /\ MayBeDenied(2 * capacity)
               /\ NoString
               /\ live' = live - 2
               /\ failed' = (failed \/ b # NewLine)
               /\ pc' = "check"
    /\ UNCHANGED <<service, input, i, from>>

(* The early returns of the four operations. *)
CheckString ==
    /\ pc = "check"
    /\ i' = 0
    /\ \/ (str = "null" \/ length = 0) /\ pc' = "reject"
       \/ ~(str = "null" \/ length = 0) /\ pc' = "loop"
    /\ UNCHANGED <<service, input, at, ch, string, live, from, failed>>

(* "Could not process the input!", delete_string and return. *)
Reject ==
    /\ pc = "reject"
    /\ live' = IF str = "null" THEN live ELSE live - 2
    /\ NoString
    /\ pc' = "idle"
    /\ UNCHANGED <<service, input, at, ch, i, from, failed>>

-----------------------------------------------------------------------------
(* The loops: how far each runs, which bytes a round touches and changes.  *)

Bound_InvertsTwice == IF service = "swap_neighbours" THEN Pred(length) ELSE length

Bound == CASE service = "swap_neighbours" -> Pred(length)
           [] service = "invert_string" -> length \div 2
           [] OTHER -> length

Touched == CASE service = "swap_neighbours" -> {i, i + 1}
             [] service = "invert_string" -> {i, length - i - 1}
             [] OTHER -> {i}

(* swap() of services.c *)
Swapped(k, l) == [raw EXCEPT ![k] = raw[l], ![l] = raw[k]]

LoopRound ==
    /\ pc = "loop" /\ i < Bound
    /\ \/ /\ service = "swap_register"
          /\ raw' = [raw EXCEPT ![i] = SwapCase(@)]
          /\ i' = i + 1
       \/ /\ service = "invert_string"
          /\ raw' = Swapped(i, length - i - 1)
          /\ i' = i + 1
       \/ /\ service = "swap_neighbours"
          /\ raw' = Swapped(i, i + 1)
          /\ i' = i + 2
       \/ /\ service = "swap_charset"
          /\ raw' = [raw EXCEPT ![i] = SetHighBit(@)]
          /\ i' = i + 1
    /\ UNCHANGED <<pc, service, input, at, ch, str, length, capacity, live, from, failed>>

LoopDone ==
    /\ pc = "loop" /\ ~(i < Bound)
    /\ pc' = "print"
    /\ UNCHANGED <<service, input, at, ch, string, i, live, from, failed>>

(* The processed string is printed with %s, then deleted. *)
PrintAndDelete ==
    /\ pc = "print"
    /\ NoString
    /\ live' = live - 2
    /\ pc' = "idle"
    /\ UNCHANGED <<service, input, at, ch, i, from, failed>>

-----------------------------------------------------------------------------
Work == \/ EmptyString \/ ReadByte \/ CheckString \/ Reject
        \/ LoopRound \/ LoopDone \/ PrintAndDelete

Next == Work \/ \E op \in Operations : UseService(op)

(* The service is scheduled; what is not typed yet is typed in time. *)
Spec == Init /\ [][Next]_vars
FairSpec == Spec /\ WF_vars(Work)

-----------------------------------------------------------------------------
(* Every variable stays in its range; length never passes capacity. *)
TypeOK ==
    /\ pc \in PC /\ service \in Operations
    /\ input \in Inputs /\ at \in 0 .. Len(input) /\ from \in 0 .. at
    /\ ch \in Bytes \cup {Unset}
    /\ str \in {"null", "made"}
    /\ capacity \in Nat /\ length \in 0 .. capacity
    /\ raw \in [0 .. capacity - 1 -> 0 .. 255]
    /\ i \in Nat /\ live \in Nat /\ failed \in BOOLEAN

(***************************************************************************)
(* read_string leaves a NUL right behind the line, within the buffer, and  *)
(* the operations leave it alone: the %s of the handlers (services.c 34,   *)
(* 46, 58, 70) never runs out of the string.                               *)
(***************************************************************************)
Terminated ==
    pc \in {"loop", "print"} => length < capacity /\ raw[length] = NUL

(***************************************************************************)
(* No round of an operation touches a byte outside the line: length - 1 of *)
(* swap_neighbours does not wrap around, and its last pair is complete     *)
(* (services.c 74-95).                                                     *)
(***************************************************************************)
InBounds == pc = "loop" /\ i < Bound => Touched \subseteq 0 .. length - 1

(* Byte k of the line that the call has read. *)
LineByte(k) == input[from + k + 1]

(***************************************************************************)
(* What is printed is made from a line that really ended on the terminal,  *)
(* not from what read_string makes up at the end of the input, and it is   *)
(* what the operation is to make of it, however often the buffer was moved.*)
(* A NUL within the line spoils this once the buffer is moved (utils.c 43).*)
(***************************************************************************)
Result ==
    pc = "print" =>
        /\ at = from + length + 1 /\ input[at] = NewLine
        /\ \/ /\ \E k \in 0 .. length - 1 : LineByte(k) = NUL
              /\ length >= BufferSize
           \/ \A k \in 0 .. length - 1 :
                raw[k] = Expected(service, LineByte, length, k)

(***************************************************************************)
(* Calls take the input line by line: what is processed began behind the   *)
(* newline of the line before, unless a full memory made an earlier call   *)
(* stop within a line (utils.c 53-66).                                     *)
(***************************************************************************)
WholeLines ==
    pc = "print" /\ ~failed => from = 0 \/ input[from] = NewLine

(***************************************************************************)
(* Every block is freed by the end of the call, on each way out of it, and *)
(* the failed calls of calloc free what they have (utils.c 6-22, 57-60).   *)
(***************************************************************************)
AllFreed == /\ pc = "idle" => live = 0
            /\ live = IF str = "made" THEN 2 ELSE 0

(***************************************************************************)
(* A call returns, even at the end of the input, where read_string appends *)
(* the last byte again until no memory is left (utils.c 53-66).            *)
(***************************************************************************)
Returns == (pc # "idle") ~> (pc = "idle")
=============================================================================
