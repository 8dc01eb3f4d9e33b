------------------------ MODULE StringServicesProofs ------------------------
(***************************************************************************)
(* Proofs about StringServices for every input and every size of buffer    *)
(* and memory.  While read_string reads, the buffer holds the bytes read   *)
(* since the call, until the input has ended; in round i of an operation   *)
(* the bytes it is done with are as expected and the others still as read. *)
(* At the end: how many steps a call can take.                             *)
(***************************************************************************)
EXTENDS StringServices, TLAPS

(* The string exists between empty_string and delete_string. *)
Allocation ==
    /\ pc \in {"idle", "empty"} => str = "null"
    /\ pc \in {"read", "loop", "print"} => str = "made"
    /\ str = "null" => capacity = 0
    /\ str = "made" => capacity >= BufferSize
    /\ live = IF str = "made" THEN 2 ELSE 0

(* Behind the line there are NULs only, and at least one once it is read. *)
Padding ==
    /\ \A k \in 0 .. capacity - 1 : k >= length => raw[k] = NUL
    /\ pc # "read" /\ str = "made" => length < capacity

(* A NUL was read, and the buffer has been moved or is about to be. *)
Spoiled == /\ \E k \in 0 .. length - 1 : LineByte(k) = NUL
           /\ length >= BufferSize

Intact == \A k \in 0 .. length - 1 : raw[k] = LineByte(k)

(* read_string, before and after the input has ended. *)
Reading ==
    /\ pc = "empty" => at = from
    /\ pc = "read" =>
        /\ length > 0 => ch # NewLine /\ ch # Unset
        /\ \/ at = from + length /\ (Spoiled \/ Intact)
           \/ at < from + length /\ at = Len(input)

LineRead == at = from + length + 1 /\ input[at] = NewLine

Done(k) == IF service = "invert_string" THEN k < i \/ k >= length - i ELSE k < i

(* What is to become of byte k of the line. *)
Wanted(k) == Expected(service, LineByte, length, k)

HalfWay ==
    \A k \in 0 .. length - 1 :
        raw[k] = IF Done(k) THEN Wanted(k) ELSE LineByte(k)

(* The loops stop where they are to stop. *)
Index == CASE service = "invert_string" -> 2 * i <= length
           [] service = "swap_neighbours" -> i <= length /\ (i % 2) = 0
           [] OTHER -> i <= length

Processing ==
    /\ pc \in {"check", "reject"} /\ str = "made" /\ length > 0
         => LineRead /\ (Spoiled \/ Intact)
    /\ pc = "reject" => str = "null" \/ length = 0
    /\ pc = "loop" => length > 0 /\ LineRead /\ Index /\ (Spoiled \/ HalfWay)
    /\ pc = "print" => length > 0

(* A line begins behind the first n bytes, or nothing is left there. *)
Boundary(n) == n = 0 \/ input[n] = NewLine \/ n = Len(input)

Aligned ==
    ~failed => /\ pc # "read" => Boundary(at)
               /\ pc # "idle" => Boundary(from)

IInv == /\ TypeOK /\ Allocation /\ Padding /\ Reading /\ Processing
        /\ Result /\ Aligned

-----------------------------------------------------------------------------
LEMMA Facts ==
    /\ BufferSize \in Nat /\ BufferSize > 0
    /\ Bytes \subseteq 0 .. 255 /\ NUL \in Bytes /\ NewLine \in Bytes
    /\ NUL \in 0 .. 255 /\ NUL # NewLine /\ Unset \notin Bytes
    /\ SizeMax \in Nat
<1>1. NUL = 0 /\ NewLine = 10
  BY DEF NUL, NewLine
<1>2. Bytes \subseteq 0 .. 255 /\ NUL \in Bytes /\ NewLine \in Bytes
  BY StringAssumption
<1>3. Unset \notin Bytes
  BY StringAssumption
<1>4. BufferSize \in Nat /\ BufferSize > 0 /\ SizeMax \in Nat
  BY StringAssumption
<1> QED
  BY <1>1, <1>2, <1>3, <1>4

LEMMA InputType ==
    ASSUME TypeOK
    PROVE  /\ input \in Seq(Bytes) /\ Len(input) \in Nat
           /\ at \in Nat /\ from \in Nat /\ length \in Nat /\ capacity \in Nat
           /\ \A n \in 1 .. Len(input) : input[n] \in Bytes
<1>1. input \in Seq(Bytes)
  BY StringAssumption DEF TypeOK
<1> QED
  BY <1>1 DEF TypeOK

(* What an operation makes of a byte is a byte. *)
LEMMA ByteTypes ==
    ASSUME NEW c \in 0 .. 255
    PROVE  SwapCase(c) \in 0 .. 255 /\ SetHighBit(c) \in 0 .. 255
BY DEF SwapCase, SetHighBit, IsUpper, IsLower

(* read() puts one of the terminal's bytes into ch. *)
LEMMA TakenFacts ==
    ASSUME TypeOK, NEW b \in Taken
    PROVE  /\ b \in Bytes
           /\ at < Len(input) => b = input[at + 1]
           /\ at >= Len(input) /\ ch # Unset => b = ch
<1> USE Facts, InputType
<1>1. CASE at < Len(input)
  BY <1>1 DEF Taken
<1>2. CASE ~(at < Len(input))
  BY <1>2 DEF Taken, TypeOK
<1> QED
  BY <1>1, <1>2

(***************************************************************************)
(* The buffer a byte is stored to, moved if it was full, has room for it   *)
(* and holds what it held, unless there is a NUL in it.                    *)
(***************************************************************************)
Buffer == IF capacity = length THEN Doubled ELSE raw
Size == IF capacity = length THEN 2 * capacity ELSE capacity

LEMMA RoomFacts ==
    ASSUME TypeOK, Allocation, Padding, pc = "read"
    PROVE  /\ Size \in Nat /\ length < Size /\ Size >= BufferSize
           /\ Buffer \in [0 .. Size - 1 -> 0 .. 255]
           /\ \A k \in 0 .. Size - 1 : k >= length => Buffer[k] = NUL
           /\ \/ \A k \in 0 .. length - 1 : Buffer[k] = raw[k]
              \/ length >= BufferSize /\ \E k \in 0 .. length - 1 : raw[k] = NUL
<1> USE Facts
<1>1. /\ capacity \in Nat /\ length \in 0 .. capacity /\ capacity >= BufferSize
      /\ raw \in [0 .. capacity - 1 -> 0 .. 255]
  BY DEF TypeOK, Allocation
<1>2. CASE capacity = length
  <2>1. Size = 2 * capacity /\ Buffer = Doubled
    BY <1>2 DEF Size, Buffer
  <2>2. /\ 2 * capacity \in Nat /\ length < 2 * capacity
        /\ 2 * capacity >= BufferSize
    BY <1>1, <1>2
  <2>3. Doubled \in [0 .. 2 * capacity - 1 -> 0 .. 255]
    BY <1>1, <1>2 DEF Doubled
  <2>4. \A k \in 0 .. 2 * capacity - 1 : k >= length => Doubled[k] = NUL
    BY <1>1 DEF Doubled
  <2>5. CASE \E k \in 0 .. length - 1 : raw[k] = NUL
    BY <1>1, <1>2, <2>1, <2>2, <2>3, <2>4, <2>5
  <2>6. CASE \A k \in 0 .. length - 1 : raw[k] # NUL
    <3> SUFFICES ASSUME NEW k \in 0 .. length - 1 PROVE Doubled[k] = raw[k]
      BY <2>1, <2>2, <2>3, <2>4
    <3>1. k \in 0 .. 2 * capacity - 1 /\ k < length
      BY <1>1, <1>2
    <3>2. \A j \in 0 .. k : raw[j] # NUL
      BY <1>1, <2>6
    <3> QED
      BY <3>1, <3>2 DEF Doubled
  <2> QED
    BY <2>5, <2>6
<1>3. CASE capacity # length
  BY <1>1, <1>3 DEF Size, Buffer, Padding
<1> QED
  BY <1>2, <1>3

(* A round of read_string stores a byte, ends the line or gives up. *)
LEMMA ReadCases ==
    ASSUME ReadByte
    PROVE  /\ pc = "read"
           /\ at' = IF at < Len(input) THEN at + 1 ELSE at
           /\ UNCHANGED <<service, input, i, from>>
           /\ \E b \in Taken :
                /\ ch' = b
                /\ \/ StoreOrStop(b, Buffer, Size)
                   \/ /\ NoString /\ live' = live - 2 /\ pc' = "check"
                      /\ failed' = (failed \/ b # NewLine)
BY DEF ReadByte, Buffer, Size

-----------------------------------------------------------------------------
LEMMA InitIInv == Init => IInv
<1> SUFFICES ASSUME Init PROVE IInv
  OBVIOUS
<1> USE Facts
<1>1. input \in Seq(Bytes)
  BY StringAssumption DEF Init
<1>2. TypeOK
  <2>1. raw \in [0 .. capacity - 1 -> 0 .. 255]
    BY DEF Init
  <2>2. Len(input) \in Nat
    BY <1>1
  <2>3. pc \in PC /\ service \in Operations /\ input \in Inputs
    BY DEF Init, PC, Operations
  <2>4. /\ at \in 0 .. Len(input) /\ from \in 0 .. at
        /\ capacity \in Nat /\ length \in 0 .. capacity /\ i \in Nat /\ live \in Nat
    BY <2>2 DEF Init
  <2>5. /\ ch \in Bytes \cup {Unset} /\ str \in {"null", "made"}
        /\ failed \in BOOLEAN
    BY DEF Init
  <2> QED
    BY <2>1, <2>3, <2>4, <2>5 DEF TypeOK
<1> QED
  BY <1>2 DEF Init, IInv, Allocation, Padding, Reading, Processing, Result, Aligned,
              Boundary
-----------------------------------------------------------------------------
(* One lemma for each action. *)

LEMMA UseServiceStep ==
    ASSUME IInv, NEW op \in Operations, UseService(op)
    PROVE  IInv'
<1> USE Facts, InputType DEF IInv, UseService, string
<1>1. TypeOK'
  BY DEF TypeOK, PC
<1>2. Allocation'
  BY DEF Allocation
<1>3. Padding' /\ Reading' /\ Processing' /\ Result' /\ Aligned'
  BY <1>1 DEF Allocation, Padding, Reading, Processing, Result, Aligned, Boundary
<1> QED
  BY <1>1, <1>2, <1>3

LEMMA EmptyStringStep ==
    ASSUME IInv, EmptyString
    PROVE  IInv'
<1> USE Facts, InputType
<1>1. pc = "empty" /\ str = "null" /\ live = 0 /\ capacity = 0
  BY DEF IInv, EmptyString, Allocation
<1>2. UNCHANGED <<service, input, at, ch, i, from, failed>>
  BY DEF EmptyString
<1>3. Aligned'
  BY <1>1, <1>2 DEF EmptyString, IInv, Aligned, Boundary
<1>4. CASE pc' = "read" /\ str' = "made" /\ length' = 0 /\ capacity' = BufferSize
           /\ live' = live + 2 /\ raw' = [k \in 0 .. BufferSize - 1 |-> NUL]
  <2>1. TypeOK'
    BY <1>1, <1>2, <1>4 DEF IInv, TypeOK, PC
  <2>2. Allocation' /\ Processing' /\ Result'
    BY <1>1, <1>4 DEF Allocation, Processing, Result
  <2>3. Padding'
    BY <1>4 DEF Padding
  <2>4. at' = from' + length'
    BY <1>1, <1>2, <1>4 DEF IInv, Reading
  <2> QED
    BY <1>3, <2>1, <2>2, <2>3, <2>4, <1>4 DEF IInv, Reading, Intact
<1>5. CASE pc' = "check" /\ UNCHANGED <<string, live>>
  <2>1. TypeOK'
    BY <1>1, <1>2, <1>5 DEF IInv, TypeOK, PC, string
  <2> QED
    BY <1>1, <1>2, <1>3, <1>5, <2>1 DEF IInv, Allocation, Padding, Reading, Processing,
       Result, string
<1> QED
  BY <1>4, <1>5 DEF EmptyString

-----------------------------------------------------------------------------
(* read_string: a byte is stored, the line ends, or no memory is left. *)

LEMMA StoreStep ==
    ASSUME IInv, ReadByte, NEW b \in Taken, ch' = b, b # NewLine,
           StoreOrStop(b, Buffer, Size)
    PROVE  IInv'
<1> USE Facts
<1>1. TypeOK /\ Allocation /\ Padding /\ Reading /\ Aligned
  BY DEF IInv
<1>2. /\ pc = "read" /\ pc' = "read" /\ str = "made" /\ str' = "made"
      /\ UNCHANGED <<service, input, i, from, live, failed>>
      /\ at' = IF at < Len(input) THEN at + 1 ELSE at
      /\ length' = length + 1 /\ capacity' = Size
      /\ raw' = [Buffer EXCEPT ![length] = b]
  BY <1>1, ReadCases DEF StoreOrStop, Allocation
<1>3. /\ b \in Bytes /\ b \in 0 .. 255 /\ b # Unset
      /\ at < Len(input) => b = input[at + 1]
  BY <1>1, TakenFacts
<1>4. /\ Size \in Nat /\ length < Size /\ Size >= BufferSize
      /\ Buffer \in [0 .. Size - 1 -> 0 .. 255]
      /\ \A k \in 0 .. Size - 1 : k >= length => Buffer[k] = NUL
      /\ \/ \A k \in 0 .. length - 1 : Buffer[k] = raw[k]
         \/ length >= BufferSize /\ \E k \in 0 .. length - 1 : raw[k] = NUL
  BY <1>1, <1>2, RoomFacts
<1>5. at \in Nat /\ from \in Nat /\ length \in Nat /\ Len(input) \in Nat /\ at <= Len(input)
  BY <1>1, InputType DEF TypeOK
<1>6. /\ raw'[length] = b
      /\ \A k \in 0 .. Size - 1 : k # length => raw'[k] = Buffer[k]
      /\ raw' \in [0 .. Size - 1 -> 0 .. 255]
  BY <1>2, <1>3, <1>4, <1>5
<1>7. TypeOK'
  <2>1. at' \in 0 .. Len(input') /\ from' \in 0 .. at' /\ length' \in 0 .. capacity'
    BY <1>1, <1>2, <1>4, <1>5 DEF TypeOK
  <2>2. ch' \in Bytes \cup {Unset} /\ pc' \in PC
    BY <1>2, <1>3 DEF PC
  <2> QED
    BY <1>1, <1>2, <1>4, <1>6, <2>1, <2>2 DEF TypeOK
<1>8. Allocation'
  BY <1>1, <1>2, <1>4 DEF Allocation
<1>9. Padding'
  <2> SUFFICES ASSUME NEW k \in 0 .. Size - 1, k >= length + 1
               PROVE  raw'[k] = NUL
    BY <1>2 DEF Padding
  <2> QED
    BY <1>4, <1>5, <1>6
<1>10. Reading'
  <2>1. CASE at < Len(input) /\ at = from + length /\ (Spoiled \/ Intact)
    <3>1. at' = from' + length'
      BY <1>2, <1>5, <2>1
    <3>2. b = input[from + length + 1]
      BY <1>3, <2>1
    <3>4. CASE Intact /\ \A k \in 0 .. length - 1 : Buffer[k] = raw[k]
      <4>1. Intact'
        <5> SUFFICES ASSUME NEW k \in 0 .. length PROVE raw'[k] = input[from + k + 1]
          BY <1>2, <1>5 DEF Intact, LineByte
        <5>1. CASE k = length
          BY <1>6, <3>2, <5>1
        <5>2. CASE k # length
          <6>1. k \in 0 .. length - 1 /\ k \in 0 .. Size - 1
            BY <1>4, <1>5, <5>2
          <6> QED
            BY <1>6, <3>4, <5>2, <6>1 DEF Intact, LineByte
        <5> QED
          BY <5>1, <5>2
      <4> QED
        BY <1>2, <1>3, <3>1, <4>1 DEF Reading
    <3>5. CASE length >= BufferSize /\ \E k \in 0 .. length - 1 : LineByte(k) = NUL
      <4>1. PICK k \in 0 .. length - 1 : LineByte(k) = NUL
        BY <3>5
      <4>2. k \in 0 .. length' - 1 /\ LineByte(k)' = NUL /\ length' >= BufferSize
        BY <1>2, <1>5, <3>5, <4>1 DEF LineByte
      <4>3. Spoiled'
        BY <4>2 DEF Spoiled
      <4> QED
        BY <1>2, <1>3, <3>1, <4>3 DEF Reading
    <3> QED
      BY <1>4, <2>1, <3>4, <3>5 DEF Spoiled, Intact
  <2>2. CASE at = Len(input)
    <3>1. at' = at /\ at <= from + length
      BY <1>1, <1>2, <1>5, <2>2 DEF Reading
    <3>2. at' < from' + length' /\ at' = Len(input')
      BY <1>2, <1>5, <2>2, <3>1
    <3> QED
      BY <1>2, <1>3, <3>2 DEF Reading
  <2> QED
    BY <1>1, <1>2, <1>5, <2>1, <2>2 DEF Reading
<1>11. Processing' /\ Result'
  BY <1>2 DEF Processing, Result
<1>12. Aligned'
  BY <1>1, <1>2 DEF Aligned, Boundary
<1> QED
  BY <1>7, <1>8, <1>9, <1>10, <1>11, <1>12 DEF IInv

(* At a newline the string is kept as it is, moved if it was full. *)
LEMMA StopStep ==
    ASSUME IInv, ReadByte, NEW b \in Taken, ch' = b, b = NewLine,
           StoreOrStop(b, Buffer, Size)
    PROVE  IInv'
<1> USE Facts
<1>1. TypeOK /\ Allocation /\ Padding /\ Reading /\ Aligned
  BY DEF IInv
<1>2. /\ pc = "read" /\ pc' = "check" /\ str = "made" /\ str' = "made"
      /\ UNCHANGED <<service, input, i, from, live, failed, length>>
      /\ at' = IF at < Len(input) THEN at + 1 ELSE at
      /\ capacity' = Size /\ raw' = Buffer
  BY <1>1, ReadCases DEF StoreOrStop, Allocation
<1>3. /\ at < Len(input) => NewLine = input[at + 1]
      /\ at >= Len(input) /\ ch # Unset => NewLine = ch
  BY <1>1, TakenFacts
<1>4. /\ Size \in Nat /\ length < Size /\ Size >= BufferSize
      /\ Buffer \in [0 .. Size - 1 -> 0 .. 255]
      /\ \A k \in 0 .. Size - 1 : k >= length => Buffer[k] = NUL
      /\ \/ \A k \in 0 .. length - 1 : Buffer[k] = raw[k]
         \/ length >= BufferSize /\ \E k \in 0 .. length - 1 : raw[k] = NUL
  BY <1>1, <1>2, RoomFacts
<1>5. at \in Nat /\ from \in Nat /\ length \in Nat /\ Len(input) \in Nat /\ at <= Len(input)
  BY <1>1, InputType DEF TypeOK
<1>6. TypeOK'
  <2>1. at' \in 0 .. Len(input') /\ from' \in 0 .. at' /\ length' \in 0 .. capacity'
    BY <1>1, <1>2, <1>4, <1>5 DEF TypeOK
  <2>2. ch' \in Bytes \cup {Unset} /\ pc' \in PC
    BY <1>2 DEF PC
  <2> QED
    BY <1>1, <1>2, <1>4, <2>1, <2>2 DEF TypeOK
<1>7. Allocation'
  BY <1>1, <1>2, <1>4 DEF Allocation
<1>8. Padding'
  BY <1>2, <1>4 DEF Padding
<1>9. ASSUME length > 0
      PROVE  LineRead' /\ (Spoiled \/ Intact)'
  <2>1. at < Len(input)
    BY <1>1, <1>2, <1>3, <1>5, <1>9 DEF Reading
  <2>2. at = from + length /\ (Spoiled \/ Intact)
    BY <1>1, <1>2, <1>5, <2>1 DEF Reading
  <2>3. LineRead'
    BY <1>2, <1>3, <1>5, <2>1, <2>2 DEF LineRead
  <2>4. CASE Intact /\ \A k \in 0 .. length - 1 : Buffer[k] = raw[k]
    <3>1. Intact'
      BY <1>2, <2>4 DEF Intact, LineByte
    <3> QED
      BY <2>3, <3>1
  <2>5. CASE length >= BufferSize /\ \E k \in 0 .. length - 1 : LineByte(k) = NUL
    <3>1. Spoiled'
      BY <1>2, <2>5 DEF Spoiled, LineByte
    <3> QED
      BY <2>3, <3>1
  <2> QED
    BY <1>4, <2>2, <2>4, <2>5 DEF Spoiled, Intact
<1>10. Reading' /\ Result'
  BY <1>2 DEF Reading, Result
<1>11. Processing'
  BY <1>2, <1>9 DEF Processing
<1>12. Aligned'
  <2>1. Boundary(at)'
    BY <1>2, <1>3, <1>5 DEF Boundary
  <2>2. ~failed' => Boundary(from)'
    BY <1>1, <1>2 DEF Aligned, Boundary
  <2> QED
    BY <2>1, <2>2 DEF Aligned, Boundary
<1> QED
  BY <1>6, <1>7, <1>8, <1>10, <1>11, <1>12 DEF IInv

(* What TypeOK says of a string that is gone, or was never made. *)
LEMMA NoStringType ==
    ASSUME NoString
    PROVE  /\ capacity' = 0 /\ length' = 0 /\ str' = "null"
           /\ raw' \in [0 .. capacity' - 1 -> 0 .. 255]
<1>1. capacity' = 0 /\ length' = 0 /\ str' = "null" /\ raw' = << >>
  BY DEF NoString
<1>2. << >> \in [0 .. 0 - 1 -> 0 .. 255]
  OBVIOUS
<1> QED
  BY <1>1, <1>2

(* Without memory the string is freed, and the line is left where it is. *)
LEMMA GiveUpStep ==
    ASSUME IInv, ReadByte, NEW b \in Taken, ch' = b,
           NoString, live' = live - 2, pc' = "check", failed' = (failed \/ b # NewLine)
    PROVE  IInv'
<1> USE Facts
<1>1. TypeOK /\ Allocation /\ Padding /\ Reading /\ Aligned
  BY DEF IInv
<1>2. /\ pc = "read" /\ str = "made" /\ live = 2
      /\ UNCHANGED <<service, input, i, from>>
      /\ at' = IF at < Len(input) THEN at + 1 ELSE at
      /\ capacity' = 0 /\ length' = 0 /\ str' = "null"
      /\ raw' \in [0 .. capacity' - 1 -> 0 .. 255]
  BY <1>1, ReadCases, NoStringType DEF Allocation
<1>3. b \in Bytes /\ (at < Len(input) => b = input[at + 1])
  BY <1>1, TakenFacts
<1>4. at \in Nat /\ from \in Nat /\ Len(input) \in Nat /\ at <= Len(input)
  BY <1>1, InputType DEF TypeOK
<1>5. TypeOK'
  <2>1. at' \in 0 .. Len(input') /\ from' \in 0 .. at' /\ length' \in 0 .. capacity'
    BY <1>1, <1>2, <1>4 DEF TypeOK
  <2>2. /\ ch' \in Bytes \cup {Unset} /\ pc' \in PC /\ live' \in Nat
        /\ failed' \in BOOLEAN
    BY <1>1, <1>2, <1>3 DEF PC, TypeOK
  <2> QED
    BY <1>1, <1>2, <2>1, <2>2 DEF TypeOK
<1>6. Allocation' /\ Padding' /\ Reading' /\ Processing' /\ Result'
  BY <1>2 DEF Allocation, Padding, Reading, Processing, Result
<1>7. Aligned'
  <2> SUFFICES ASSUME ~failed' PROVE Boundary(at)' /\ Boundary(from)'
    BY DEF Aligned
  <2>1. ~failed /\ b = NewLine
    BY <1>1 DEF TypeOK
  <2> QED
    BY <1>1, <1>2, <1>3, <1>4, <2>1 DEF Aligned, Boundary
<1> QED
  BY <1>5, <1>6, <1>7 DEF IInv

LEMMA ReadByteStep ==
    ASSUME IInv, ReadByte
    PROVE  IInv'
<1>1. PICK b \in Taken :
         /\ ch' = b
         /\ \/ StoreOrStop(b, Buffer, Size)
            \/ /\ NoString /\ live' = live - 2 /\ pc' = "check"
               /\ failed' = (failed \/ b # NewLine)
  BY ReadCases
<1>2. CASE StoreOrStop(b, Buffer, Size)
  BY <1>1, <1>2, StoreStep, StopStep
<1>3. CASE /\ NoString /\ live' = live - 2 /\ pc' = "check"
           /\ failed' = (failed \/ b # NewLine)
  BY <1>1, <1>3, GiveUpStep
<1> QED
  BY <1>1, <1>2, <1>3

-----------------------------------------------------------------------------
(* The operations. *)

LEMMA CheckStringStep ==
    ASSUME IInv, CheckString
    PROVE  IInv'
<1> USE Facts, InputType
<1>1. TypeOK /\ Allocation /\ Padding /\ Processing /\ Aligned
  BY DEF IInv
<1>2. /\ pc = "check" /\ i' = 0
      /\ UNCHANGED <<service, input, at, ch, str, raw, length, capacity, live, from, failed>>
      /\ \/ pc' = "reject" /\ (str = "null" \/ length = 0)
         \/ pc' = "loop" /\ ~(str = "null" \/ length = 0)
  BY DEF CheckString, string
<1>3. TypeOK'
  BY <1>1, <1>2 DEF TypeOK, PC
<1>4. Allocation' /\ Padding' /\ Reading' /\ Result'
  BY <1>1, <1>2 DEF TypeOK, Allocation, Padding, Reading, Result
<1>5. Aligned'
  BY <1>1, <1>2 DEF Aligned, Boundary
<1>6. Spoiled' <=> Spoiled
  BY <1>2 DEF Spoiled, LineByte
<1>7. CASE pc' = "reject"
  <2>1. Intact' <=> Intact
    BY <1>2 DEF Intact, LineByte
  <2>2. Processing'
    BY <1>1, <1>2, <1>6, <1>7, <2>1 DEF Processing, LineRead
  <2> QED
    BY <1>3, <1>4, <1>5, <2>2 DEF IInv
<1>8. CASE pc' = "loop"
  <2>1. length \in Nat /\ length > 0 /\ str = "made"
    BY <1>1, <1>2, <1>8 DEF TypeOK
  <2>2. LineRead /\ (Spoiled \/ Intact)
    BY <1>1, <1>2, <2>1 DEF Processing
  <2>3. Index'
    BY <1>2, <2>1 DEF Index
  <2>4. ASSUME Intact PROVE HalfWay'
    <3> SUFFICES ASSUME NEW k \in 0 .. length - 1
                 PROVE  ~Done(k)' /\ raw'[k] = LineByte(k)'
      BY <1>2 DEF HalfWay
    <3>1. ~Done(k)'
      BY <1>2, <2>1 DEF Done
    <3> QED
      BY <1>2, <2>4, <3>1 DEF Intact, LineByte
  <2>5. Processing'
    BY <1>2, <1>6, <1>8, <2>1, <2>2, <2>3, <2>4 DEF Processing, LineRead
  <2> QED
    BY <1>3, <1>4, <1>5, <2>5 DEF IInv
<1> QED
  BY <1>2, <1>7, <1>8

(* What every round of an operation leaves alone. *)
LEMMA RoundFrame ==
    ASSUME IInv, pc = "loop",
           UNCHANGED <<pc, service, input, at, ch, str, length, capacity, live, from, failed>>,
           raw' \in [0 .. capacity - 1 -> 0 .. 255],
           \A k \in 0 .. capacity - 1 : k >= length => raw'[k] = raw[k],
           i' \in Nat, Index', HalfWay => HalfWay'
    PROVE  IInv'
<1> USE Facts, InputType
<1>1. TypeOK'
  BY DEF IInv, TypeOK
<1>2. Padding' /\ Allocation' /\ Reading' /\ Result'
  BY DEF IInv, Padding, Allocation, Reading, Result
<1>3. Spoiled' <=> Spoiled
  BY DEF Spoiled, LineByte
<1>4. Processing'
  BY <1>3 DEF IInv, Processing, LineRead
<1>5. Aligned'
  BY DEF IInv, Aligned, Boundary
<1> QED
  BY <1>1, <1>2, <1>4, <1>5 DEF IInv

(* swap() exchanges two bytes of the buffer. *)
LEMMA SwappedFacts ==
    ASSUME capacity \in Nat, raw \in [0 .. capacity - 1 -> 0 .. 255],
           NEW k \in 0 .. capacity - 1, NEW l \in 0 .. capacity - 1, k # l
    PROVE  /\ Swapped(k, l) \in [0 .. capacity - 1 -> 0 .. 255]
           /\ Swapped(k, l)[k] = raw[l] /\ Swapped(k, l)[l] = raw[k]
           /\ \A j \in 0 .. capacity - 1 : j # k /\ j # l => Swapped(k, l)[j] = raw[j]
<1>1. raw[k] \in 0 .. 255 /\ raw[l] \in 0 .. 255
  OBVIOUS
<1> QED
  BY <1>1 DEF Swapped

(* A round changes one byte, or swaps two, that were still as read. *)
LEMMA LoopRoundStep ==
    ASSUME IInv, LoopRound
    PROVE  IInv'
<1> USE Facts
<1>1. /\ pc = "loop" /\ i < Bound
      /\ UNCHANGED <<pc, service, input, at, ch, str, length, capacity, live, from, failed>>
  BY DEF LoopRound
<1>2. /\ raw \in [0 .. capacity - 1 -> 0 .. 255]
      /\ length \in Nat /\ capacity \in Nat /\ i \in Nat /\ length > 0
      /\ length < capacity /\ Index
  BY <1>1, InputType DEF IInv, TypeOK, Padding, Allocation, Processing
<1>3. \A k : LineByte(k)' = LineByte(k)
  BY <1>1 DEF LineByte
<1>4. \A k \in 0 .. capacity - 1 : raw[k] \in 0 .. 255
  BY <1>2
<1>5. ASSUME service \in {"swap_register", "swap_charset"}, NEW c \in 0 .. 255,
             i' = i + 1, raw' = [raw EXCEPT ![i] = c],
             HalfWay => c = Wanted(i)
      PROVE  IInv'
  <2>0. \A k : Wanted(k)' = Wanted(k)
    BY <1>1, <1>5 DEF Wanted, Expected, LineByte
  <2>1. i < length
    BY <1>1, <1>5 DEF Bound
  <2>2. /\ raw' \in [0 .. capacity - 1 -> 0 .. 255] /\ raw'[i] = c
        /\ \A k \in 0 .. capacity - 1 : k # i => raw'[k] = raw[k]
    BY <1>2, <1>5, <2>1
  <2>3. Index'
    BY <1>1, <1>2, <1>5, <2>1 DEF Index
  <2>4. ASSUME HalfWay PROVE HalfWay'
    <3> SUFFICES ASSUME NEW k \in 0 .. length - 1
                 PROVE  raw'[k] = IF k < i + 1 THEN Wanted(k) ELSE LineByte(k)
      BY <1>1, <1>3, <1>5, <2>0 DEF HalfWay, Done
    <3>1. raw[k] = IF k < i THEN Wanted(k) ELSE LineByte(k)
      BY <1>5, <2>4 DEF HalfWay, Done
    <3>2. CASE k = i
      BY <1>2, <1>5, <2>2, <2>4, <3>2
    <3>3. CASE k # i
      BY <1>2, <2>2, <3>1, <3>3
    <3> QED
      BY <3>2, <3>3
  <2> QED
    BY <1>1, <1>2, <1>5, <2>1, <2>2, <2>3, <2>4, RoundFrame
<1>6. ASSUME HalfWay
      PROVE  \A k \in 0 .. length - 1 : ~Done(k) => raw[k] = LineByte(k)
  BY <1>6 DEF HalfWay
<1>7. CASE service = "swap_register" /\ i' = i + 1 /\ raw' = [raw EXCEPT ![i] = SwapCase(@)]
  <2>1. i < length
    BY <1>1, <1>7 DEF Bound
  <2>2. i \in 0 .. capacity - 1
    BY <1>2, <2>1
  <2>5. raw[i] \in 0 .. 255
    BY <1>4, <2>2
  <2>6. SwapCase(raw[i]) \in 0 .. 255
    BY <2>5, ByteTypes
  <2>3. HalfWay => raw[i] = LineByte(i)
    BY <1>2, <1>6, <1>7, <2>1 DEF Done
  <2>4. HalfWay => SwapCase(raw[i]) = Wanted(i)
    BY <1>7, <2>3 DEF Wanted, Expected
  <2> QED
    BY <1>5, <1>7, <2>6, <2>4
<1>8. CASE service = "swap_charset" /\ i' = i + 1 /\ raw' = [raw EXCEPT ![i] = SetHighBit(@)]
  <2>1. i < length
    BY <1>1, <1>8 DEF Bound
  <2>2. i \in 0 .. capacity - 1
    BY <1>2, <2>1
  <2>5. raw[i] \in 0 .. 255
    BY <1>4, <2>2
  <2>6. SetHighBit(raw[i]) \in 0 .. 255
    BY <2>5, ByteTypes
  <2>3. HalfWay => raw[i] = LineByte(i)
    BY <1>2, <1>6, <1>8, <2>1 DEF Done
  <2>4. HalfWay => SetHighBit(raw[i]) = Wanted(i)
    BY <1>8, <2>3 DEF Wanted, Expected
  <2> QED
    BY <1>5, <1>8, <2>6, <2>4
<1>9. CASE service = "invert_string" /\ i' = i + 1 /\ raw' = Swapped(i, length - i - 1)
  <2> DEFINE m == length - i - 1
  <2>1. 2 * i + 1 < length
    BY <1>1, <1>2, <1>9 DEF Bound
  <2>2. i \in 0 .. length - 1 /\ m \in 0 .. length - 1 /\ i # m
    BY <1>2, <2>1
  <2>3. /\ raw' \in [0 .. capacity - 1 -> 0 .. 255]
        /\ raw'[i] = raw[m] /\ raw'[m] = raw[i]
        /\ \A k \in 0 .. capacity - 1 : k # i /\ k # m => raw'[k] = raw[k]
    <3>1. i \in 0 .. capacity - 1 /\ m \in 0 .. capacity - 1
      BY <1>2, <2>2
    <3>2. raw' = Swapped(i, m)
      BY <1>9
    <3> HIDE DEF m
    <3>3. capacity \in Nat /\ raw \in [0 .. capacity - 1 -> 0 .. 255] /\ i # m
      BY <1>2, <2>2
    <3>4. /\ Swapped(i, m) \in [0 .. capacity - 1 -> 0 .. 255]
          /\ Swapped(i, m)[i] = raw[m] /\ Swapped(i, m)[m] = raw[i]
          /\ \A j \in 0 .. capacity - 1 :
               j # i /\ j # m => Swapped(i, m)[j] = raw[j]
      BY ONLY <3>1, <3>3, SwappedFacts
    <3> QED
      BY <3>2, <3>4
  <2>4. Index'
    BY <1>1, <1>2, <1>9, <2>1 DEF Index
  <2>5. ASSUME HalfWay PROVE HalfWay'
    <3> SUFFICES ASSUME NEW k \in 0 .. length - 1
                 PROVE  raw'[k] = IF k < i + 1 \/ k >= length - (i + 1)
                                  THEN LineByte(length - 1 - k) ELSE LineByte(k)
      BY <1>1, <1>3, <1>9 DEF HalfWay, Done, Wanted, Expected
    <3>1. \A j \in 0 .. length - 1 :
            raw[j] = IF j < i \/ j >= length - i
                     THEN LineByte(length - 1 - j) ELSE LineByte(j)
      BY <1>9, <2>5 DEF HalfWay, Done, Wanted, Expected
    <3>2. CASE k = i
      <4>1. raw'[k] = LineByte(m)
        BY <1>2, <2>1, <2>2, <2>3, <3>1, <3>2
      <4>2. m = length - 1 - k
        BY <1>2, <3>2
      <4> QED
        BY <1>2, <3>2, <4>1, <4>2
    <3>3. CASE k = m
      <4>1. raw'[k] = LineByte(i)
        BY <1>2, <2>1, <2>2, <2>3, <3>1, <3>3
      <4>2. i = length - 1 - k /\ k >= length - (i + 1)
        BY <1>2, <3>3
      <4> QED
        BY <4>1, <4>2
    <3>4. CASE k # i /\ k # m
      <4>1. raw'[k] = raw[k]
        BY <1>2, <2>3, <3>4
      <4>2. k < i + 1 \/ k >= length - (i + 1) <=> k < i \/ k >= length - i
        BY <1>2, <3>4
      <4> QED
        BY <3>1, <4>1, <4>2
    <3> QED
      BY <3>2, <3>3, <3>4
  <2>6. \A k \in 0 .. capacity - 1 : k >= length => raw'[k] = raw[k]
    BY <1>2, <2>2, <2>3
  <2> QED
    BY <1>1, <1>2, <1>9, <2>3, <2>4, <2>5, <2>6, RoundFrame
<1>10. CASE service = "swap_neighbours" /\ i' = i + 2 /\ raw' = Swapped(i, i + 1)
  <2>0. \A k : Wanted(k)' = Wanted(k)
    BY <1>1, <1>10 DEF Wanted, Expected, LineByte
  <2>1. i + 1 < length /\ (i % 2) = 0
    BY <1>1, <1>2, <1>10 DEF Bound, Pred, Index
  <2>2. i \in 0 .. length - 1 /\ i + 1 \in 0 .. length - 1 /\ i # i + 1
    BY <1>2, <2>1
  <2>3. /\ raw' \in [0 .. capacity - 1 -> 0 .. 255]
        /\ raw'[i] = raw[i + 1] /\ raw'[i + 1] = raw[i]
        /\ \A k \in 0 .. capacity - 1 : k # i /\ k # i + 1 => raw'[k] = raw[k]
    <3>1. i \in 0 .. capacity - 1 /\ i + 1 \in 0 .. capacity - 1
      BY <1>2, <2>2
    <3>2. raw' = Swapped(i, i + 1)
      BY <1>10
    <3>3. capacity \in Nat /\ raw \in [0 .. capacity - 1 -> 0 .. 255] /\ i # i + 1
      BY <1>2, <2>2
    <3>4. /\ Swapped(i, i + 1) \in [0 .. capacity - 1 -> 0 .. 255]
          /\ Swapped(i, i + 1)[i] = raw[i + 1] /\ Swapped(i, i + 1)[i + 1] = raw[i]
          /\ \A j \in 0 .. capacity - 1 :
               j # i /\ j # i + 1 => Swapped(i, i + 1)[j] = raw[j]
      BY ONLY <3>1, <3>3, SwappedFacts
    <3> QED
      BY <3>2, <3>4
  <2>4. ((i + 2) % 2) = 0 /\ ((i + 1) % 2) = 1
    BY <1>2, <2>1
  <2>5. Index'
    BY <1>1, <1>2, <1>10, <2>1, <2>4 DEF Index
  <2>6. ASSUME HalfWay PROVE HalfWay'
    <3> SUFFICES ASSUME NEW k \in 0 .. length - 1
                 PROVE  raw'[k] = IF k < i + 2
                                  THEN Wanted(k) ELSE LineByte(k)
      BY <1>1, <1>3, <1>10, <2>0 DEF HalfWay, Done
    <3>1. \A j \in 0 .. length - 1 :
            raw[j] = IF j < i THEN Wanted(j) ELSE LineByte(j)
      BY <1>10, <2>6 DEF HalfWay, Done
    <3>2. CASE k = i
      <4>1. raw'[k] = LineByte(i + 1)
        BY <1>2, <2>2, <2>3, <3>1, <3>2
      <4>2. Wanted(k) = LineByte(i + 1)
        BY <1>2, <1>10, <2>1, <3>2 DEF Wanted, Expected
      <4> QED
        BY <1>2, <3>2, <4>1, <4>2
    <3>3. CASE k = i + 1
      <4>1. raw'[k] = LineByte(i)
        BY <1>2, <2>2, <2>3, <3>1, <3>3
      <4>2. Wanted(k) = LineByte(i)
        <5>1. (k % 2) = 1 /\ k - 1 = i
          BY <1>2, <2>4, <3>3
        <5> QED
          BY <1>10, <5>1 DEF Wanted, Expected
      <4> QED
        BY <1>2, <3>3, <4>1, <4>2
    <3>4. CASE k # i /\ k # i + 1
      <4>1. raw'[k] = raw[k]
        BY <1>2, <2>3, <3>4
      <4>2. k < i + 2 <=> k < i
        BY <1>2, <3>4
      <4> QED
        BY <3>1, <4>1, <4>2
    <3> QED
      BY <3>2, <3>3, <3>4
  <2>7. \A k \in 0 .. capacity - 1 : k >= length => raw'[k] = raw[k]
    BY <1>2, <2>2, <2>3
  <2> QED
    BY <1>1, <1>2, <1>10, <2>3, <2>5, <2>6, <2>7, RoundFrame
<1> QED
  BY <1>7, <1>8, <1>9, <1>10 DEF LoopRound

LEMMA LoopDoneStep ==
    ASSUME IInv, LoopDone
    PROVE  IInv'
<1> USE Facts
<1>1. /\ pc = "loop" /\ pc' = "print" /\ ~(i < Bound)
      /\ UNCHANGED <<service, input, at, ch, str, raw, length, capacity, i, live, from,
                     failed>>
  BY DEF LoopDone, string
<1>2. /\ length \in Nat /\ i \in Nat /\ length > 0 /\ Index /\ LineRead
      /\ Spoiled \/ HalfWay
      /\ service \in Operations
  BY <1>1, InputType DEF IInv, TypeOK, Processing
<1>3. TypeOK' /\ Allocation' /\ Padding' /\ Reading' /\ Processing'
  BY <1>1, <1>2 DEF IInv, TypeOK, PC, Allocation, Padding, Reading, Processing
<1>4. Aligned'
  BY <1>1 DEF IInv, Aligned, Boundary
<1>5. ASSUME HalfWay, NEW k \in 0 .. length - 1
      PROVE  raw[k] = Wanted(k)
  <2>1. raw[k] = IF Done(k) THEN Wanted(k) ELSE LineByte(k)
    BY <1>5 DEF HalfWay
  <2>2. CASE service \in {"swap_register", "swap_charset"}
    BY <1>1, <1>2, <2>1, <2>2 DEF Bound, Done
  <2>3. CASE service = "invert_string"
    <3>1. i >= length \div 2
      BY <1>1, <1>2, <2>3 DEF Bound
    <3>2. Done(k) \/ k = length - 1 - k
      BY <1>2, <2>3, <3>1 DEF Done
    <3>3. k = length - 1 - k => Wanted(k) = LineByte(k)
      BY <2>3 DEF Wanted, Expected
    <3> QED
      BY <2>1, <3>2, <3>3
  <2>4. CASE service = "swap_neighbours"
    <3>1. i >= length - 1 /\ (i % 2) = 0
      BY <1>1, <1>2, <2>4 DEF Bound, Pred, Index
    <3>2. Done(k) \/ (k = i /\ k = length - 1)
      BY <1>2, <2>4, <3>1 DEF Done
    <3>3. k = i /\ k = length - 1 => Wanted(k) = LineByte(k)
      BY <1>2, <2>4, <3>1 DEF Wanted, Expected
    <3> QED
      BY <2>1, <3>2, <3>3
  <2> QED
    BY <1>2, <2>2, <2>3, <2>4 DEF Operations
<1>6. Result'
  <2>1. (Spoiled \/ \A k \in 0 .. length - 1 : raw[k] = Wanted(k))
    BY <1>2, <1>5
  <2> QED
    BY <1>1, <1>2, <2>1 DEF Result, Spoiled, Wanted, LineRead, LineByte, Expected
<1> QED
  BY <1>3, <1>4, <1>6 DEF IInv

(* delete_string, on both ways out. *)
LEMMA ReturnStep ==
    ASSUME IInv, Reject \/ PrintAndDelete
    PROVE  IInv'
<1> USE Facts
<1>1. /\ pc \in {"reject", "print"} /\ pc' = "idle"
      /\ UNCHANGED <<service, input, at, ch, i, from, failed>>
      /\ capacity' = 0 /\ length' = 0 /\ str' = "null"
      /\ raw' \in [0 .. capacity' - 1 -> 0 .. 255]
  BY NoStringType DEF Reject, PrintAndDelete
<1>2. live' = 0
  <2>1. live = IF str = "made" THEN 2 ELSE 0
    BY DEF IInv, Allocation
  <2>2. str \in {"null", "made"}
    BY DEF IInv, TypeOK
  <2>3. CASE Reject
    BY <2>1, <2>2, <2>3 DEF Reject
  <2>4. CASE PrintAndDelete
    BY <2>1, <2>4 DEF PrintAndDelete, IInv, Allocation
  <2> QED
    BY <2>3, <2>4
<1>3. TypeOK'
  BY <1>1, <1>2 DEF IInv, TypeOK, PC
<1>4. Allocation' /\ Padding' /\ Reading' /\ Processing' /\ Result'
  BY <1>1, <1>2 DEF Allocation, Padding, Reading, Processing, Result
<1>5. Aligned'
  BY <1>1 DEF IInv, Aligned, Boundary
<1> QED
  BY <1>3, <1>4, <1>5 DEF IInv

LEMMA StutterStep ==
    ASSUME IInv, UNCHANGED vars
    PROVE  IInv'
<1>1. UNCHANGED <<pc, service, input, at, ch, str, raw, length, capacity, i, live, from,
                  failed>>
  BY DEF vars, string
<1> QED
  <2>1. TypeOK' /\ Allocation' /\ Padding' /\ Aligned'
    BY <1>1 DEF IInv, TypeOK, Allocation, Padding, Aligned, Boundary
  <2>2. /\ Spoiled' <=> Spoiled
        /\ Intact' <=> Intact
        /\ LineRead' <=> LineRead
        /\ Index' <=> Index
    BY <1>1 DEF Spoiled, Intact, LineRead, Index, LineByte
  <2>3. HalfWay' <=> HalfWay
    BY <1>1 DEF HalfWay, Done, Wanted, Expected, LineByte
  <2>4. Reading' /\ Processing'
    BY <1>1, <2>2, <2>3 DEF IInv, Reading, Processing
  <2>5. Result'
    BY <1>1 DEF IInv, Result, LineByte, Expected
  <2> QED
    BY <2>1, <2>4, <2>5 DEF IInv

-----------------------------------------------------------------------------
LEMMA Inductive == Spec => []IInv
<1>1. ASSUME IInv, [Next]_vars PROVE IInv'
  BY <1>1, UseServiceStep, EmptyStringStep, ReadByteStep, CheckStringStep, LoopRoundStep,
     LoopDoneStep, ReturnStep, StutterStep DEF Next, Work
<1> QED
  BY <1>1, InitIInv, PTL DEF Spec

(***************************************************************************)
(* For every input, buffer and memory: the variables stay in their ranges, *)
(* the length within the capacity.                                         *)
(***************************************************************************)
THEOREM TypeCorrect == Spec => []TypeOK
<1>1. IInv => TypeOK
  BY DEF IInv
<1> QED
  BY <1>1, Inductive, PTL

(***************************************************************************)
(* The %s of the handlers finds its NUL within the string's memory.        *)
(***************************************************************************)
THEOREM PrintsAString == Spec => []Terminated
<1>1. IInv => Terminated
  <2> SUFFICES ASSUME IInv, pc \in {"loop", "print"}
               PROVE  length < capacity /\ raw[length] = NUL
    BY DEF Terminated
  <2>1. length \in Nat /\ capacity \in Nat /\ length < capacity
    BY InputType DEF IInv, Padding, Allocation
  <2> QED
    BY <2>1 DEF IInv, Padding
<1> QED
  BY <1>1, Inductive, PTL

(***************************************************************************)
(* No operation touches a byte outside its line.                           *)
(***************************************************************************)
THEOREM StaysInBounds == Spec => []InBounds
<1>1. IInv => InBounds
  <2> SUFFICES ASSUME IInv, pc = "loop", i < Bound
               PROVE  Touched \subseteq 0 .. length - 1
    BY DEF InBounds
  <2>1. length \in Nat /\ i \in Nat /\ length > 0
    BY InputType DEF IInv, TypeOK, Processing
  <2>2. CASE service = "invert_string"
    BY <2>1, <2>2 DEF Bound, Touched
  <2>3. CASE service = "swap_neighbours"
    BY <2>1, <2>3 DEF Bound, Touched, Pred
  <2>4. CASE service \notin {"invert_string", "swap_neighbours"}
    BY <2>1, <2>4 DEF Bound, Touched
  <2> QED
    BY <2>2, <2>3, <2>4
<1> QED
  BY <1>1, Inductive, PTL

(***************************************************************************)
(* Every line without a NUL, of any length, is processed as its operation  *)
(* promises; nothing else is ever printed.                                 *)
(***************************************************************************)
THEOREM ProcessesLines == Spec => []Result
<1>1. IInv => Result
  BY DEF IInv
<1> QED
  BY <1>1, Inductive, PTL

(***************************************************************************)
(* Unless memory ran out within a line, calls start where a line starts.   *)
(***************************************************************************)
THEOREM TakesWholeLines == Spec => []WholeLines
<1>1. IInv => WholeLines
  <2> SUFFICES ASSUME IInv, pc = "print", ~failed
               PROVE  from = 0 \/ input[from] = NewLine
    BY DEF WholeLines
  <2>1. at = from + length + 1
    BY DEF IInv, Result
  <2>2. at <= Len(input) /\ from \in Nat /\ length \in Nat /\ Len(input) \in Nat
    BY InputType DEF IInv, TypeOK
  <2> QED
    BY <2>1, <2>2 DEF IInv, Aligned, Boundary
<1> QED
  BY <1>1, Inductive, PTL

(***************************************************************************)
(* A call gives back all the memory it took.                               *)
(***************************************************************************)
THEOREM FreesAll == Spec => []AllFreed
<1>1. IInv => AllFreed
  BY DEF IInv, Allocation, AllFreed
<1> QED
  BY <1>1, Inductive, PTL

-----------------------------------------------------------------------------
(* How long a call takes. *)

(* The steps the call has left, at most. *)
StepsLeft ==
    CASE pc = "empty" -> 2 * Memory + 5
      [] pc = "read" -> 2 * Memory + 4 - length
      [] pc = "check" -> length + 3
      [] pc = "loop" -> length - i + 2
      [] pc \in {"print", "reject"} -> 1
      [] pc = "idle" -> 0

(* The buffer never outgrows the memory. *)
Fits == str = "made" => capacity <= Memory

BoundedCall == /\ StepsLeft \in 0 .. 2 * Memory + 5
               /\ StepsLeft = 0 <=> pc = "idle"

(* The measure, place by place. *)
LEMMA StepsTable ==
    /\ pc = "empty" => StepsLeft = 2 * Memory + 5
    /\ pc = "read" => StepsLeft = 2 * Memory + 4 - length
    /\ pc = "check" => StepsLeft = length + 3
    /\ pc = "loop" => StepsLeft = length - i + 2
    /\ pc \in {"print", "reject"} => StepsLeft = 1
    /\ pc = "idle" => StepsLeft = 0
BY DEF StepsLeft

(* In a loop the index stays within the line. *)
LEMMA IndexFacts ==
    ASSUME IInv
    PROVE  /\ length \in Nat /\ i \in Nat /\ length <= capacity /\ capacity \in Nat
           /\ pc = "loop" => i <= length
           /\ str = "null" => length = 0
           /\ pc = "read" => str = "made"
<1>1. length \in Nat /\ i \in Nat /\ length <= capacity /\ capacity \in Nat
  BY InputType DEF IInv, TypeOK
<1>2. str = "null" => length = 0
  BY <1>1 DEF IInv, Allocation
<1>3. pc = "loop" => i <= length
  BY <1>1 DEF IInv, Processing, Index
<1> QED
  BY <1>1, <1>2, <1>3 DEF IInv, Allocation

LEMMA FitsStep ==
    ASSUME IInv, Fits, [Next]_vars
    PROVE  Fits'
<1>1. Memory \in Nat /\ BufferSize \in Nat
  BY StringAssumption
<1>2. CASE ReadByte
  BY <1>1, <1>2, IndexFacts DEF ReadByte, StoreOrStop, MayGet, NoString, Fits
<1>3. CASE EmptyString
  BY <1>3 DEF EmptyString, MayGet, Fits, string
<1>4. CASE Reject \/ PrintAndDelete
  BY <1>4 DEF Reject, PrintAndDelete, NoString, Fits
<1>5. CASE \/ CheckString \/ LoopRound \/ LoopDone \/ UNCHANGED vars
           \/ \E op \in Operations : UseService(op)
  BY <1>5 DEF CheckString, LoopRound, LoopDone, UseService, vars, string, Fits
<1> QED
  BY <1>2, <1>3, <1>4, <1>5 DEF Next, Work

LEMMA CallIsBounded ==
    ASSUME IInv, Fits
    PROVE  BoundedCall
<1>1. Memory \in Nat
  BY StringAssumption
<1>2. /\ length \in Nat /\ i \in Nat /\ length <= capacity /\ capacity \in Nat
      /\ pc = "loop" => i <= length
      /\ pc = "read" => str = "made"
  BY IndexFacts
<1>3. pc \in PC /\ (str = "null" => length = 0) /\ str \in {"null", "made"}
  BY IndexFacts DEF IInv, TypeOK
<1>4. length <= Memory
  BY <1>1, <1>2, <1>3 DEF Fits
<1> QED
  BY <1>1, <1>2, <1>3, <1>4, StepsTable DEF PC, BoundedCall

LEMMA ReadShortens ==
    ASSUME IInv, Fits, ReadByte
    PROVE  StepsLeft' < StepsLeft
<1>1. Memory \in Nat
  BY StringAssumption
<1>2. length \in Nat /\ length <= Memory /\ pc = "read"
  BY <1>1, IndexFacts DEF Fits, ReadByte
<1>3. \/ pc' = "read" /\ length' = length + 1
      \/ pc' = "check" /\ length' \in {0, length}
  BY <1>2 DEF ReadByte, StoreOrStop, NoString
<1>4. StepsLeft = 2 * Memory + 4 - length
  BY <1>2, StepsTable
<1>5. /\ pc' = "read" => StepsLeft' = 2 * Memory + 4 - length'
      /\ pc' = "check" => StepsLeft' = length' + 3
  BY DEF StepsLeft
<1> QED
  BY <1>1, <1>2, <1>3, <1>4, <1>5

LEMMA CallShortens ==
    ASSUME IInv, Fits, [Next]_vars
    PROVE  [pc # "idle" => StepsLeft' < StepsLeft]_vars
<1>1. Memory \in Nat
  BY StringAssumption
<1>2. /\ length \in Nat /\ i \in Nat /\ length <= capacity /\ capacity \in Nat
      /\ pc = "loop" => i <= length
      /\ str = "null" => length = 0
  BY IndexFacts
<1>3. /\ pc' = "empty" => StepsLeft' = 2 * Memory + 5
      /\ pc' = "read" => StepsLeft' = 2 * Memory + 4 - length'
      /\ pc' = "check" => StepsLeft' = length' + 3
      /\ pc' = "loop" => StepsLeft' = length' - i' + 2
      /\ pc' \in {"print", "reject"} => StepsLeft' = 1
      /\ pc' = "idle" => StepsLeft' = 0
  BY DEF StepsLeft
<1>4. CASE UNCHANGED vars
  BY <1>4
<1>5. CASE \E op \in Operations : UseService(op)
  BY <1>5 DEF UseService
<1>6. CASE EmptyString
  <2>1. /\ pc = "empty"
        /\ \/ pc' = "read" /\ length' = 0
           \/ pc' = "check" /\ length' = length
    BY <1>6 DEF EmptyString, string
  <2>2. length = 0
    BY <2>1, <1>2 DEF IInv, Allocation
  <2> QED
    BY <1>1, <1>3, <2>1, <2>2, StepsTable
<1>7. CASE ReadByte
  BY <1>7, ReadShortens
<1>8. CASE CheckString
  <2>1. /\ pc = "check" /\ i' = 0 /\ length' = length
        /\ pc' \in {"reject", "loop"}
    BY <1>8 DEF CheckString, string
  <2> QED
    BY <1>2, <1>3, <2>1, StepsTable
<1>9. CASE LoopRound
  <2>1. /\ pc = "loop" /\ pc' = "loop" /\ length' = length
        /\ i' = i + 1 \/ i' = i + 2
    BY <1>9 DEF LoopRound
  <2> QED
    BY <1>2, <1>3, <2>1, StepsTable
<1>10. CASE LoopDone
  BY <1>2, <1>3, <1>10, StepsTable DEF LoopDone
<1>11. CASE Reject \/ PrintAndDelete
  BY <1>3, <1>11, StepsTable DEF Reject, PrintAndDelete
<1> QED
  BY <1>4, <1>5, <1>6, <1>7, <1>8, <1>9, <1>10, <1>11 DEF Next, Work

(***************************************************************************)
(* A call takes at most 2 * Memory + 5 steps, whatever is typed, however   *)
(* large the buffer is and whichever callocs fail: every step shortens     *)
(* what is left of it, also those of read_string at the end of the input,  *)
(* where only the memory's limit ends the line (utils.c 53-66).            *)
(***************************************************************************)
THEOREM CallsAreShort ==
    Spec => []BoundedCall /\ [][pc # "idle" => StepsLeft' < StepsLeft]_vars
<1>1. Init => Fits
  BY DEF Init, Fits
<1>2. IInv /\ Fits /\ [Next]_vars => Fits'
  BY FitsStep
<1>3. IInv /\ Fits => BoundedCall
  BY CallIsBounded
<1>4. IInv /\ Fits /\ [Next]_vars => [pc # "idle" => StepsLeft' < StepsLeft]_vars
  BY CallShortens
<1> QED
  BY <1>1, <1>2, <1>3, <1>4, Inductive, PTL DEF Spec
=============================================================================
