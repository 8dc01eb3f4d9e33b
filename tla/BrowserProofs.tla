---------------------------- MODULE BrowserProofs ----------------------------
(***************************************************************************)
(* Proofs about Browser for any sites, any words and lines the user may    *)
(* type, any responses and any number of descriptors: what the buffers,    *)
(* files and streams are at each place, that they implement a history, how *)
(* many steps a visit can take, and what is left over of the user's input. *)
(***************************************************************************)
EXTENDS Browser, SequenceTheorems, TLAPS

(* What the three buffers and the stream count are at each place. *)
Visiting ==
    /\ Located => url \in Urls
    /\ pc \in {"scan_url", "choice"} => ~URL_LOADED
    /\ Fetching \/ pc = "choice" => url_current \in Urls
    /\ pc = "get" => url = url_current
    /\ pc \in {"recv", "write", "parse", "choice"} =>
         url = [url_current EXCEPT !.path = << >>]
    /\ Fetching => files = before + 2
    /\ pc = "choice" => files = before

(* The response file, byte by byte. *)
Copying ==
    /\ pc # "write" => left = 0
    /\ Len(file) + lost + left = taken
    /\ \A j \in DOMAIN file : file[j] <= taken - left
    /\ \A j, k \in DOMAIN file : j < k => file[j] < file[k]
    /\ lost = 0 => \A j \in DOMAIN file : file[j] = j
    /\ pc = "get" => taken = 0
    /\ pc = "write" => sock = "server"
    /\ pc \in {"recv", "parse"} /\ sock = "stdin" => taken = 0
    /\ pc = "choice" /\ sock = "stdin" => links = << >>

IInv == TypeOK /\ Visiting /\ Copying

-----------------------------------------------------------------------------
LEMMA UrlFacts ==
    /\ << >> \in Paths
    /\ \A w \in Words : UrlOf[w] \in Urls
    /\ \A u \in Urls : [u EXCEPT !.path = << >>] \in Urls
    /\ NoUrl \notin Urls
BY BrowserAssumption DEF Urls

LEMMA BoundFacts == BufSize \in Nat /\ MaxResponse \in Nat /\ MaxFds \in Nat
BY BrowserAssumption

(* The program reads words out of stdin's buffer and leaves the rest. *)
LEMMA ScanType ==
    ASSUME TypeOK, NEW w, Scan(w)
    PROVE  unread' \in Seq(Words \cup {NewLine})
<1>1. PICK k \in DOMAIN unread : unread' = SubSeq(unread, k + 1, Len(unread))
  BY DEF Scan
<1>2. unread \in Seq(Words \cup {NewLine})
  BY DEF TypeOK
<1>3. /\ k + 1 \in Int /\ Len(unread) \in Int
      /\ \A j \in k + 1 .. Len(unread) : unread[j] \in Words \cup {NewLine}
  BY <1>2
<1> QED
  BY <1>1, <1>3, SubSeqProperties

(* An action that leaves the response alone, and where nothing is copied. *)
LEMMA CopyingFrame ==
    ASSUME TypeOK, Copying,
           UNCHANGED <<taken, left, lost, file, sock, links>>,
           left = 0, pc' \notin {"get", "write", "recv", "parse"},
           pc' = "choice" => pc = "choice"
    PROVE  Copying'
BY DEF Copying

-----------------------------------------------------------------------------
LEMMA InitIInv == Init => IInv
<1> SUFFICES ASSUME Init PROVE IInv
  OBVIOUS
<1>1. /\ << >> \in Seq(Links) /\ << >> \in Seq(Words \cup {NewLine})
      /\ << >> \in Seq(1 .. MaxResponse)
  OBVIOUS
<1>2. TypeOK
  <2>1. /\ taken \in 0 .. MaxResponse /\ left \in 0 .. BufSize /\ lost \in 0 .. taken
        /\ files \in 0 .. MaxFds /\ sockets \in 0 .. MaxFds /\ before \in 0 .. MaxFds
        /\ files + sockets <= MaxFds
    BY BoundFacts DEF Init
  <2>2. {url, url_current, url_last} \subseteq Urls \cup {NoUrl}
    BY DEF Init
  <2> QED
    BY <1>1, <2>1, <2>2 DEF Init, TypeOK
<1>3. Visiting
  BY DEF Init, Visiting, Located, Fetching
<1>4. Copying
  BY DEF Init, Copying
<1> QED
  BY <1>2, <1>3, <1>4 DEF IInv

(* The user, and the filling of stdin's buffer. *)
LEMMA TypingStep ==
    ASSUME IInv, TypeLine \/ CloseInput \/ Underflow
    PROVE  IInv'
<1>1. UNCHANGED <<pc, urls, links, response, fds>>
  BY DEF TypeLine, CloseInput, Underflow
<1>2. UNCHANGED <<pc, url, url_current, url_last, URL_LOADED, links, sock, taken, left,
                  lost, file, files, sockets, before>>
  BY <1>1 DEF urls, response, fds
<1>3. /\ typed' \in Seq(Words \cup {NewLine}) /\ unread' \in Seq(Words \cup {NewLine})
      /\ eof' \in BOOLEAN
  <2>1. /\ typed \in Seq(Words \cup {NewLine}) /\ unread \in Seq(Words \cup {NewLine})
        /\ eof \in BOOLEAN /\ Lines \subseteq Seq(Words \cup {NewLine})
        /\ << >> \in Seq(Words \cup {NewLine})
    BY BrowserAssumption DEF IInv, TypeOK
  <2> QED
    BY <2>1 DEF TypeLine, CloseInput, Underflow
<1>4. TypeOK'
  BY <1>2, <1>3 DEF IInv, TypeOK
<1>5. Visiting' /\ Copying'
  BY <1>2 DEF IInv, Visiting, Copying, Located, Fetching
<1> QED
  BY <1>4, <1>5 DEF IInv

LEMMA ReadKeyStep ==
    ASSUME IInv, ReadKey
    PROVE  IInv'
<1>1. /\ pc = "loop" /\ ~URL_LOADED /\ pc' \in {"quit", "scan_url", "loop"}
      /\ url' = NoUrl
      /\ UNCHANGED <<url_current, url_last, URL_LOADED, links, unread, eof, sock, taken,
                     left, lost, file, files, sockets, before>>
  BY DEF ReadKey, AtKey, response, fds
<1>2. typed' \in Seq(Words \cup {NewLine})
  <2>1. typed \in Seq(Words \cup {NewLine})
    BY DEF IInv, TypeOK
  <2>2. typed' = typed \/ (typed # << >> /\ typed' = Tail(typed))
    BY DEF ReadKey
  <2> QED
    BY <2>1, <2>2
<1>3. TypeOK'
  BY <1>1, <1>2 DEF IInv, TypeOK
<1>4. Visiting'
  BY <1>1 DEF Visiting, Located, Fetching
<1>5. Copying'
  BY <1>1, CopyingFrame DEF IInv, Copying
<1> QED
  BY <1>3, <1>4, <1>5 DEF IInv

LEMMA ReadUrlStep ==
    ASSUME IInv, ReadUrl
    PROVE  IInv'
<1>1. /\ pc = "scan_url" /\ ~URL_LOADED
      /\ \/ pc' = "begin" /\ url' \in Urls
         \/ pc' = "loop" /\ url' = url
      /\ UNCHANGED <<url_current, url_last, URL_LOADED, links, typed, eof, sock, taken,
                     left, lost, file, files, sockets, before>>
  BY UrlFacts DEF IInv, Visiting, ReadUrl, response, fds
<1>2. unread' \in Seq(Words \cup {NewLine})
  BY ScanType DEF IInv, TypeOK, ReadUrl
<1>3. TypeOK'
  BY <1>1, <1>2 DEF IInv, TypeOK
<1>4. Visiting'
  BY <1>1 DEF Visiting, Located, Fetching
<1>5. Copying'
  BY <1>1, CopyingFrame DEF IInv, Copying
<1> QED
  BY <1>3, <1>4, <1>5 DEF IInv

LEMMA BeginVisitStep ==
    ASSUME IInv, BeginVisit
    PROVE  IInv'
<1>1. /\ url \in Urls /\ url # NoUrl
  BY UrlFacts DEF IInv, Visiting, Located, BeginVisit
<1>2. /\ url_current' = url
      /\ UNCHANGED <<url, url_last, URL_LOADED, typed, unread, eof, sock, sockets>>
  BY <1>1 DEF BeginVisit, input
<1>3. CASE /\ files + sockets + 2 <= MaxFds /\ pc' = "get"
           /\ taken' = 0 /\ left' = 0 /\ lost' = 0 /\ file' = << >> /\ links' = << >>
           /\ before' = files /\ files' = files + 2
  <2>1. << >> \in Seq(Links) /\ << >> \in Seq(1 .. MaxResponse)
    OBVIOUS
  <2>2. TypeOK'
    BY <1>1, <1>2, <1>3, <2>1, BoundFacts DEF IInv, TypeOK
  <2>3. Visiting'
    BY <1>1, <1>2, <1>3 DEF Visiting, Located, Fetching
  <2>4. Copying'
    BY <1>3 DEF Copying
  <2> QED
    BY <2>2, <2>3, <2>4 DEF IInv
<1>4. CASE pc' = "crashed" /\ UNCHANGED <<taken, left, lost, file, links, files, before>>
  <2>1. TypeOK'
    BY <1>1, <1>2, <1>4 DEF IInv, TypeOK
  <2>2. Visiting'
    BY <1>4 DEF Visiting, Located, Fetching
  <2>3. pc # "write" /\ left = 0
    BY DEF IInv, Copying, BeginVisit
  <2>4. Copying'
    BY <1>2, <1>4, <2>3, CopyingFrame DEF IInv
  <2> QED
    BY <2>1, <2>2, <2>4 DEF IInv
<1> QED
  BY <1>1, <1>3, <1>4 DEF BeginVisit

-----------------------------------------------------------------------------
(* The visit. *)

LEMMA HttpGetStep ==
    ASSUME IInv, HttpGet
    PROVE  IInv'
<1>1. /\ pc = "get" /\ url = url_current /\ url_current \in Urls /\ taken = 0 /\ left = 0
      /\ files = before + 2
  BY DEF IInv, Visiting, Copying, HttpGet, Fetching
<1>2. /\ url' = [url_current EXCEPT !.path = << >>] /\ url' \in Urls
      /\ UNCHANGED <<url_current, url_last, links, typed, unread, eof, taken, left, lost,
                     file, files, before>>
  BY <1>1, UrlFacts DEF HttpGet, input
<1>3. \/ sock' = "server" /\ pc' = "recv" /\ UNCHANGED URL_LOADED
      \/ sock' = "stdin" /\ pc' = "recv" /\ UNCHANGED URL_LOADED
      \/ sock' = sock /\ pc' = "loop" /\ URL_LOADED' = FALSE
  BY DEF HttpGet
<1>4. TypeOK'
  <2>1. /\ files \in Int /\ sockets \in Int /\ sockets >= 0 /\ files >= 0
        /\ files + sockets <= MaxFds
    BY BoundFacts DEF IInv, TypeOK
  <2>2. \/ sockets' = sockets
        \/ sockets' = sockets + 1 /\ files + sockets < MaxFds
    BY <2>1 DEF HttpGet
  <2>3. sockets' \in 0 .. MaxFds /\ files + sockets' <= MaxFds
    BY <2>1, <2>2, BoundFacts
  <2> QED
    BY <1>2, <1>3, <2>3 DEF IInv, TypeOK
<1>5. Visiting'
  BY <1>1, <1>2, <1>3 DEF Visiting, Located, Fetching
<1>6. Copying'
  BY <1>1, <1>2, <1>3 DEF IInv, Copying
<1> QED
  BY <1>4, <1>5, <1>6 DEF IInv

LEMMA RecvStep ==
    ASSUME IInv, Recv
    PROVE  IInv'
<1> USE BoundFacts
<1>1. /\ pc = "recv" /\ left = 0
      /\ UNCHANGED <<url, url_current, url_last, URL_LOADED, links, typed, unread, eof,
                     sock, lost, file, files, sockets, before>>
  BY DEF IInv, Copying, Recv, urls, input, fds
<1>2. /\ taken \in 0 .. MaxResponse /\ left \in 0 .. BufSize /\ lost \in 0 .. taken
      /\ file \in Seq(1 .. MaxResponse) /\ Len(file) \in Nat
      /\ \A j \in DOMAIN file : file[j] \in 1 .. MaxResponse
  BY DEF IInv, TypeOK
<1>3. CASE pc' = "parse" /\ UNCHANGED <<taken, left>>
  BY <1>1, <1>3 DEF IInv, TypeOK, Visiting, Copying, Located, Fetching
<1>4. ASSUME NEW n \in 1 .. BufSize, sock = "server", pc' = "write",
             taken + n <= MaxResponse, taken' = taken + n, left' = n
      PROVE  IInv'
  <2>1. TypeOK'
    <3>1. taken' \in 0 .. MaxResponse /\ left' \in 0 .. BufSize /\ lost' \in 0 .. taken'
      BY <1>1, <1>2, <1>4
    <3> QED
      BY <1>1, <1>4, <3>1 DEF IInv, TypeOK
  <2>2. Visiting'
    BY <1>1, <1>4 DEF IInv, Visiting, Located, Fetching
  <2>3. taken' - left' = taken - left /\ lost + left + Len(file) = taken
    BY <1>1, <1>2, <1>4 DEF IInv, Copying
  <2>4. Len(file') + lost' + left' = taken'
    BY <1>1, <1>2, <1>4, <2>3
  <2>5. Copying'
    BY <1>1, <1>4, <2>3, <2>4 DEF IInv, Copying
  <2> QED
    BY <2>1, <2>2, <2>5 DEF IInv
<1> QED
  BY <1>3, <1>4 DEF Recv

(* What a write() adds to the response file. *)
LEMMA AppendFacts ==
    ASSUME NEW m \in Nat, NEW n \in Nat, NEW first \in Nat, first + n <= m,
           NEW s \in Seq(1 .. m)
    PROVE  LET new == s \o [k \in 1 .. n |-> first + k]
           IN  /\ new \in Seq(1 .. m)
               /\ Len(new) = Len(s) + n
               /\ \A j \in 1 .. Len(s) + n :
                    new[j] = IF j <= Len(s) THEN s[j] ELSE first + (j - Len(s))
<1> DEFINE tail == [k \in 1 .. n |-> first + k]
<1>1. tail \in Seq(1 .. m) /\ Len(tail) = n
  <2>1. \A k \in 1 .. n : first + k \in 1 .. m
    OBVIOUS
  <2> QED
    BY <2>1
<1>2. \A k \in 1 .. n : tail[k] = first + k
  OBVIOUS
<1> HIDE DEF tail
<1>3. /\ s \o tail \in Seq(1 .. m)
      /\ Len(s \o tail) = Len(s) + n
      /\ \A j \in 1 .. Len(s) + n :
           (s \o tail)[j] = IF j <= Len(s) THEN s[j] ELSE tail[j - Len(s)]
  BY <1>1, ConcatProperties
<1>4. \A j \in 1 .. Len(s) + n : j > Len(s) => tail[j - Len(s)] = first + (j - Len(s))
  <2> SUFFICES ASSUME NEW j \in 1 .. Len(s) + n, j > Len(s)
               PROVE  tail[j - Len(s)] = first + (j - Len(s))
    OBVIOUS
  <2>1. Len(s) \in Nat
    OBVIOUS
  <2>2. j - Len(s) \in 1 .. n
    BY <2>1
  <2> QED
    BY <1>2, <2>2
<1>5. /\ s \o tail \in Seq(1 .. m)
      /\ Len(s \o tail) = Len(s) + n
      /\ \A j \in 1 .. Len(s) + n :
           (s \o tail)[j] = IF j <= Len(s) THEN s[j] ELSE first + (j - Len(s))
  <2>1. Len(s) \in Nat
    OBVIOUS
  <2> QED
    BY <1>3, <1>4, <2>1
<1> QED
  BY <1>5 DEF tail

LEMMA WriteStep ==
    ASSUME IInv, Write
    PROVE  IInv'
<1> USE BoundFacts
<1>1. PICK n \in 1 .. left :
         /\ pc = "write"
         /\ file' = file \o [k \in 1 .. n |-> taken - left + k]
         /\ left' = left - n
         /\ pc' = IF n = left THEN "recv" ELSE "write"
         /\ UNCHANGED <<url, url_current, url_last, URL_LOADED, links, typed, unread, eof,
                        sock, taken, lost, files, sockets, before>>
  BY DEF Write, urls, input, fds
<1>2. /\ taken \in 0 .. MaxResponse /\ left \in 0 .. BufSize /\ lost \in 0 .. taken
      /\ file \in Seq(1 .. MaxResponse) /\ Len(file) \in Nat
      /\ DOMAIN file = 1 .. Len(file)
      /\ \A j \in 1 .. Len(file) : file[j] \in 1 .. MaxResponse
  BY DEF IInv, TypeOK
<1>3. /\ Len(file) + lost + left = taken
      /\ \A j \in 1 .. Len(file) : file[j] <= taken - left
      /\ \A j, k \in 1 .. Len(file) : j < k => file[j] < file[k]
      /\ lost = 0 => \A j \in 1 .. Len(file) : file[j] = j
      /\ sock = "server"
  BY <1>1, <1>2 DEF IInv, Copying
<1>4. taken - left \in Nat /\ taken - left + n <= MaxResponse /\ n \in Nat
  BY <1>2, <1>3
<1>5. /\ file' \in Seq(1 .. MaxResponse)
      /\ Len(file') = Len(file) + n
      /\ \A j \in 1 .. Len(file) + n :
           file'[j] = IF j <= Len(file) THEN file[j]
                      ELSE taken - left + (j - Len(file))
  BY <1>1, <1>2, <1>4, AppendFacts
<1>6. DOMAIN file' = 1 .. Len(file) + n
  BY <1>5
<1>7. TypeOK'
  <2>1. left' \in 0 .. BufSize
    BY <1>1, <1>2
  <2> QED
    BY <1>1, <1>5, <2>1 DEF IInv, TypeOK
<1>8. Visiting'
  <2>1. pc' \in {"recv", "write"}
    BY <1>1
  <2> QED
    BY <1>1, <2>1 DEF IInv, Visiting, Located, Fetching
<1>9. Len(file') + lost' + left' = taken'
  <2>1. (Len(file) + n) + lost + (left - n) = Len(file) + lost + left
    BY <1>2, <1>4
  <2> QED
    BY <1>1, <1>3, <1>5, <2>1
<1>10. \A j \in 1 .. Len(file) + n : file'[j] <= taken' - left'
  BY <1>1, <1>2, <1>3, <1>5
<1>11. ASSUME NEW j \in 1 .. Len(file) + n, NEW k \in 1 .. Len(file) + n, j < k
       PROVE  file'[j] < file'[k]
  <2>1. CASE k <= Len(file)
    BY <1>2, <1>3, <1>5, <1>11, <2>1
  <2>2. CASE j <= Len(file) /\ k > Len(file)
    <3>1. file'[j] = file[j] /\ file[j] <= taken - left /\ file[j] \in Int
      BY <1>2, <1>3, <1>5, <2>2
    <3>2. file'[k] = taken - left + (k - Len(file))
      BY <1>2, <1>5, <2>2
    <3> QED
      BY <1>2, <2>2, <3>1, <3>2
  <2>3. CASE j > Len(file)
    <3>1. /\ file'[j] = taken - left + (j - Len(file))
          /\ file'[k] = taken - left + (k - Len(file))
      BY <1>2, <1>5, <1>11, <2>3
    <3> QED
      BY <1>2, <1>11, <3>1
  <2> QED
    BY <1>2, <1>11, <2>1, <2>2, <2>3
<1>12. lost' = 0 => \A j \in 1 .. Len(file) + n : file'[j] = j
  <2> SUFFICES ASSUME lost = 0, NEW j \in 1 .. Len(file) + n PROVE file'[j] = j
    BY <1>1
  <2>1. taken - left = Len(file)
    BY <1>2, <1>3
  <2>2. file'[j] = IF j <= Len(file) THEN file[j] ELSE Len(file) + (j - Len(file))
    BY <1>5, <2>1
  <2>3. j <= Len(file) => file[j] = j
    BY <1>2, <1>3
  <2> QED
    BY <1>2, <2>2, <2>3
<1>13. pc' # "write" => left' = 0
  BY <1>1, <1>2
<1>14. Copying'
  BY <1>1, <1>3, <1>6, <1>9, <1>10, <1>11, <1>12, <1>13 DEF Copying
<1> QED
  BY <1>7, <1>8, <1>14 DEF IInv

LEMMA WriteFailsStep ==
    ASSUME IInv, WriteFails
    PROVE  IInv'
<1> USE BoundFacts
<1>1. /\ pc = "write" /\ pc' = "recv" /\ lost' = lost + left /\ left' = 0
      /\ UNCHANGED <<url, url_current, url_last, URL_LOADED, links, typed, unread, eof,
                     sock, taken, file, files, sockets, before>>
  BY DEF WriteFails, urls, input, fds
<1>2. /\ taken \in 0 .. MaxResponse /\ left \in 0 .. BufSize /\ lost \in 0 .. taken
      /\ Len(file) \in Nat /\ DOMAIN file = 1 .. Len(file)
      /\ \A j \in 1 .. Len(file) : file[j] \in 1 .. MaxResponse
  BY DEF IInv, TypeOK
<1>3. Len(file) + lost + left = taken /\ sock = "server"
  BY <1>1 DEF IInv, Copying
<1>4. TypeOK'
  <2>1. lost' \in 0 .. taken' /\ left' \in 0 .. BufSize
    BY <1>1, <1>2, <1>3
  <2> QED
    BY <1>1, <2>1 DEF IInv, TypeOK
<1>5. Visiting'
  BY <1>1 DEF IInv, Visiting, Located, Fetching
<1>6. Len(file') + lost' + left' = taken'
  BY <1>1, <1>2, <1>3
<1>7. \A j \in DOMAIN file' : file'[j] <= taken' - left'
  <2> SUFFICES ASSUME NEW j \in DOMAIN file PROVE file[j] <= taken
    BY <1>1, <1>2
  <2>1. file[j] <= taken - left /\ file[j] \in Int
    BY <1>2 DEF IInv, Copying
  <2> QED
    BY <1>2, <2>1
<1>8. lost' = 0 => \A j \in DOMAIN file' : file'[j] = j
  <2>1. lost' = 0 => lost = 0
    BY <1>1, <1>2
  <2> QED
    BY <1>1, <2>1 DEF IInv, Copying
<1>9. \A j, k \in DOMAIN file' : j < k => file'[j] < file'[k]
  BY <1>1 DEF IInv, Copying
<1>10. Copying'
  BY <1>1, <1>3, <1>6, <1>7, <1>8, <1>9 DEF Copying
<1> QED
  BY <1>4, <1>5, <1>10 DEF IInv

LEMMA ParseAndListStep ==
    ASSUME IInv, ParseAndList
    PROVE  IInv'
<1> USE BoundFacts
<1>1. /\ pc = "parse" /\ left = 0 /\ files = before + 2
      /\ UNCHANGED <<url, url_current, url_last, typed, unread, eof, sock, taken, left,
                     lost, file, sockets, before>>
  BY DEF IInv, Copying, Visiting, Fetching, ParseAndList, input, response
<1>2. sock = "stdin" => file = << >>
  <2>1. /\ Len(file) \in Nat /\ lost \in Int /\ lost >= 0 /\ taken \in Int
        /\ file \in Seq(1 .. MaxResponse)
    BY DEF IInv, TypeOK
  <2>2. sock = "stdin" => Len(file) = 0
    BY <1>1, <2>1 DEF IInv, Copying
  <2> QED
    BY <2>1, <2>2, EmptySeq
<1>3. CASE /\ links' \in IF file = << >> THEN {<< >>} ELSE LinkLists
           /\ files' = files - 2 /\ URL_LOADED' = FALSE /\ pc' = "choice"
  <2>1. links' \in Seq(Links)
    BY <1>3, BrowserAssumption
  <2>2. files \in Int /\ before \in Int /\ sockets \in Int /\ before >= 0
        /\ files + sockets <= MaxFds /\ before <= MaxFds
    BY DEF IInv, TypeOK
  <2>3. files' = before /\ files' \in 0 .. MaxFds /\ files' + sockets' <= MaxFds
    BY <1>1, <1>3, <2>2
  <2>4. TypeOK'
    BY <1>1, <1>3, <2>1, <2>3 DEF IInv, TypeOK
  <2>5. Visiting'
    BY <1>1, <1>3, <2>3 DEF IInv, Visiting, Located, Fetching
  <2>6. Copying'
    BY <1>1, <1>2, <1>3 DEF IInv, Copying
  <2> QED
    BY <2>4, <2>5, <2>6 DEF IInv
<1>4. CASE pc' = "crashed" /\ UNCHANGED <<links, files, URL_LOADED>>
  BY <1>1, <1>4 DEF IInv, TypeOK, Visiting, Copying, Located, Fetching
<1> QED
  BY <1>3, <1>4 DEF ParseAndList

-----------------------------------------------------------------------------
(* The three outcomes of url_choice. *)

LEMMA AnswerFacts ==
    ASSUME IInv, NEW n, Answer(n)
    PROVE  pc = "choice" /\ unread' \in Seq(Words \cup {NewLine})
BY ScanType DEF IInv, Answer

LEMMA ChooseNothingStep ==
    ASSUME IInv, ChooseNothing
    PROVE  IInv'
<1>1. /\ pc = "choice" /\ pc' = "loop" /\ ~URL_LOADED
      /\ unread' \in Seq(Words \cup {NewLine})
      /\ UNCHANGED <<url, url_current, url_last, URL_LOADED, links, typed, eof, sock, taken,
                     left, lost, file, files, sockets, before>>
  <2>1. pc = "choice" /\ unread' \in Seq(Words \cup {NewLine})
    BY AnswerFacts DEF IInv, TypeOK, ChooseNothing
  <2> QED
    BY <2>1 DEF IInv, Visiting, ChooseNothing, urls, response, fds
<1>2. TypeOK'
  BY <1>1 DEF IInv, TypeOK
<1>3. Visiting'
  BY <1>1 DEF Visiting, Located, Fetching
<1>4. Copying'
  BY <1>1, CopyingFrame DEF IInv, Copying
<1> QED
  BY <1>2, <1>3, <1>4 DEF IInv

LEMMA ChooseBackStep ==
    ASSUME IInv, ChooseBack
    PROVE  IInv'
<1>1. /\ pc = "choice" /\ pc' = "loop" /\ URL_LOADED' = TRUE
      /\ unread' \in Seq(Words \cup {NewLine})
      /\ url' = IF url_last # NoUrl THEN url_last ELSE url_current
      /\ url_last' = url_current
      /\ UNCHANGED <<url_current, links, typed, eof, sock, taken, left, lost, file, files,
                     sockets, before>>
  BY AnswerFacts DEF ChooseBack, response, fds
<1>2. url_current \in Urls /\ url' \in Urls
  BY <1>1 DEF IInv, TypeOK, Visiting
<1>3. TypeOK'
  BY <1>1, <1>2 DEF IInv, TypeOK
<1>4. Visiting'
  BY <1>1, <1>2 DEF Visiting, Located, Fetching
<1>5. Copying'
  BY <1>1, CopyingFrame DEF IInv, Copying
<1> QED
  BY <1>3, <1>4, <1>5 DEF IInv

(***************************************************************************)
(* A relative link leads to the host of the current page: of url, http_get *)
(* has left nothing but the host.                                          *)
(***************************************************************************)
LEMMA LinkResolved ==
    ASSUME IInv, pc = "choice", NEW link \in Links
    PROVE  /\ [url EXCEPT !.path = @ \o link.path] = [url_current EXCEPT !.path = link.path]
           /\ [url_current EXCEPT !.path = link.path] \in Urls
<1>1. url_current \in Urls /\ url = [url_current EXCEPT !.path = << >>]
  BY DEF IInv, Visiting
<1>2. link.path \in Paths
  BY DEF Links, Urls
<1>3. << >> \o link.path = link.path
  BY <1>2, BrowserAssumption, ConcatEmptySeq
<1>4. url.path = << >>
  BY <1>1 DEF Urls
<1> QED
  BY <1>1, <1>2, <1>3, <1>4 DEF Urls

LEMMA LinkIsUrl ==
    ASSUME IInv, ChooseLink
    PROVE  url' \in Urls
<1>1. PICK k \in 1 .. Len(links) :
         url' = IF links[k].host = Relative
                THEN [url EXCEPT !.path = @ \o links[k].path] ELSE links[k]
  BY DEF ChooseLink
<1>2. pc = "choice" /\ links \in Seq(Links)
  BY AnswerFacts DEF IInv, TypeOK, ChooseLink
<1>3. links[k] \in Links
  BY <1>2
<1>4. links[k].host # Relative => links[k] \in Urls
  BY <1>3 DEF Links
<1> QED
  BY <1>1, <1>2, <1>3, <1>4, LinkResolved

LEMMA ChooseLinkStep ==
    ASSUME IInv, ChooseLink
    PROVE  IInv'
<1>1. /\ pc = "choice" /\ pc' = "loop" /\ URL_LOADED' = TRUE
      /\ unread' \in Seq(Words \cup {NewLine})
      /\ url' \in Urls /\ url_last' = url_current
      /\ UNCHANGED <<url_current, links, typed, eof, sock, taken, left, lost, file, files,
                     sockets, before>>
  BY AnswerFacts, LinkIsUrl DEF ChooseLink, response, fds
<1>2. TypeOK'
  BY <1>1 DEF IInv, TypeOK
<1>3. Visiting'
  BY <1>1 DEF Visiting, Located, Fetching
<1>4. Copying'
  BY <1>1, CopyingFrame DEF IInv, Copying
<1> QED
  BY <1>2, <1>3, <1>4 DEF IInv

-----------------------------------------------------------------------------
LEMMA StutterStep ==
    ASSUME IInv, UNCHANGED vars
    PROVE  IInv'
<1>1. UNCHANGED <<pc, url, url_current, url_last, URL_LOADED, links, typed, unread, eof,
                  sock, taken, left, lost, file, files, sockets, before>>
  BY DEF vars, urls, input, response, fds
<1> QED
  BY <1>1 DEF IInv, TypeOK, Visiting, Copying, Located, Fetching

LEMMA Inductive == Spec => []IInv
<1>1. ASSUME IInv, [Next]_vars PROVE IInv'
  BY <1>1, TypingStep, ReadKeyStep, ReadUrlStep, BeginVisitStep, HttpGetStep, RecvStep,
     WriteStep, WriteFailsStep, ParseAndListStep, ChooseNothingStep, ChooseBackStep,
     ChooseLinkStep, StutterStep DEF Next, Visit, Stopped
<1> QED
  BY <1>1, InitIInv, PTL DEF Spec

(***************************************************************************)
(* The variables stay in their ranges; no more descriptors are in use than *)
(* there are.                                                              *)
(***************************************************************************)
THEOREM TypeCorrect == Spec => []TypeOK
<1>1. IInv => TypeOK
  BY DEF IInv
<1> QED
  BY <1>1, Inductive, PTL

(***************************************************************************)
(* No visit begins without a location.                                     *)
(***************************************************************************)
THEOREM NeverWithoutUrl == Spec => []UrlGiven
<1>1. IInv => UrlGiven
  BY UrlFacts DEF IInv, Visiting, Located, UrlGiven
<1> QED
  BY <1>1, Inductive, PTL

(***************************************************************************)
(* A visit that comes to its prompt has closed the streams it opened.      *)
(***************************************************************************)
THEOREM ClosesStreams == Spec => []StreamsClosed
<1>1. IInv => StreamsClosed
  BY DEF IInv, Visiting, StreamsClosed
<1> QED
  BY <1>1, Inductive, PTL

(***************************************************************************)
(* The response is copied in order, and completely when no write failed.   *)
(***************************************************************************)
THEOREM CopiesResponse == Spec => []ResponseOfThisVisit
<1>1. IInv => ResponseOfThisVisit
  <2> SUFFICES ASSUME IInv, pc = "choice", lost = 0
               PROVE  file = [k \in 1 .. taken |-> k]
    BY DEF IInv, Copying, ResponseOfThisVisit
  <2>1. file \in Seq(1 .. MaxResponse) /\ Len(file) \in Nat /\ taken \in Int
    BY DEF IInv, TypeOK
  <2>2. Len(file) = taken /\ \A j \in DOMAIN file : file[j] = j
    BY <2>1 DEF IInv, Copying
  <2> QED
    BY <2>1, <2>2
<1> QED
  BY <1>1, Inductive, PTL

-----------------------------------------------------------------------------
(* The refinement. *)

Numbers == 0 .. SizeMax \cup {NotANumber}

(* The abstract variables. *)
Stage == IF pc = "choice" THEN "choice"
         ELSE IF Located \/ Fetching THEN "visit" ELSE "menu"
Here == IF Located THEN url ELSE url_current
Offered == IF pc = "choice" THEN links ELSE << >>
Answered == {NumberOf[w] : w \in {v \in Words : pc = "choice" /\ FirstWord(v)}}
                \cup {n \in {NotANumber} : pc = "choice" /\ ~HasWord /\ InputEnded}

LEMMA HistoryInitially == Init => History!HistoryInit
<1> SUFFICES ASSUME Init PROVE History!HistoryInit
  OBVIOUS
<1>1. Stage = "menu" /\ Here = NoUrl /\ url_last = NoUrl /\ Offered = << >> /\ Answered = {}
  BY DEF Init, Stage, Here, Offered, Answered, Located, Fetching
<1> QED
  BY <1>1 DEF Stage, Here, Offered, Answered, History!HistoryInit

(* What is to be shown of a step that stands for one of the history. *)
LEMMA Stutters ==
    ASSUME Stage' = Stage, Here' = Here, url_last' = url_last, Offered' = Offered,
           Answered' = Answered
    PROVE  [History!HistoryNext]_(History!history)
BY DEF Stage, Here, Offered, Answered, History!history

LEMMA Enters ==
    ASSUME Stage = "menu", Stage' = "visit", Here' \in Urls, url_last' = url_last,
           Offered' = Offered, Answered' = Answered
    PROVE  History!HistoryNext
BY DEF Stage, Here, Offered, Answered, History!HistoryNext, History!Enter

LEMMA Fails ==
    ASSUME Stage = "visit", Stage' = "menu", Here' = Here, url_last' = url_last,
           Offered' = Offered, Answered' = Answered
    PROVE  History!HistoryNext
BY DEF Stage, Here, Offered, Answered, History!HistoryNext, History!Fail

LEMMA Offers ==
    ASSUME Stage = "visit", Stage' = "choice", Here' = Here, url_last' = url_last,
           Offered' \in Seq(Links),
           Answered' \in {{}} \cup {{n} : n \in Numbers}
    PROVE  History!HistoryNext
BY DEF Stage, Here, Offered, Answered, Numbers, History!HistoryNext, History!Offer

LEMMA Replies ==
    ASSUME Stage = "choice", Stage' = "choice", Here' = Here, url_last' = url_last,
           Offered' = Offered, Answered = {}, NEW n \in Numbers, Answered' = {n}
    PROVE  History!HistoryNext
<1>1. \E m \in Numbers : Answered' = {m}
  OBVIOUS
<1> QED
  BY <1>1 DEF Stage, Here, Offered, Answered, Numbers, History!HistoryNext, History!Reply

LEMMA GoesBack ==
    ASSUME Stage = "choice", Stage' = "visit", Answered = {0},
           Here' = IF url_last = NoUrl THEN Here ELSE url_last, url_last' = Here,
           Offered' = << >>, Answered' = {}
    PROVE  History!HistoryNext
BY DEF Stage, Here, Offered, Answered, History!HistoryNext, History!Back, History!Closed

LEMMA Follows ==
    ASSUME Stage = "choice", Stage' = "visit", NEW n \in 1 .. Len(Offered), Answered = {n},
           Here' = History!Resolve(Here, Offered[n]), url_last' = Here,
           Offered' = << >>, Answered' = {}
    PROVE  History!HistoryNext
<1>1. \E m \in 1 .. Len(Offered) : Answered = {m} /\ Here' = History!Resolve(Here, Offered[m])
  OBVIOUS
<1> QED
  BY <1>1 DEF Stage, Here, Offered, Answered, History!HistoryNext, History!Follow,
              History!Closed

LEMMA Aborts ==
    ASSUME Stage = "choice", Stage' = "menu",
           NEW n \in Numbers \ (0 .. Len(Offered)), Answered = {n},
           Here' = Here, url_last' = url_last, Offered' = << >>, Answered' = {}
    PROVE  History!HistoryNext
<1>1. \E m \in Numbers \ (0 .. Len(Offered)) : Answered = {m}
  OBVIOUS
<1> QED
  BY <1>1 DEF Stage, Here, Offered, Answered, Numbers, History!HistoryNext, History!Abort,
              History!Closed

(* FirstWord, in any buffer: there is one first word at most. *)
First(u, w) == \E k \in DOMAIN u : /\ u[k] = w /\ w # NewLine
                                   /\ \A j \in 1 .. k - 1 : u[j] = NewLine

LEMMA OneFirst ==
    ASSUME NEW u \in Seq(Words \cup {NewLine}), NEW v, NEW w, First(u, v), First(u, w)
    PROVE  v = w
<1>1. PICK j \in DOMAIN u : /\ u[j] = v /\ v # NewLine
                            /\ \A i \in 1 .. j - 1 : u[i] = NewLine
  BY DEF First
<1>2. PICK k \in DOMAIN u : /\ u[k] = w /\ w # NewLine
                            /\ \A i \in 1 .. k - 1 : u[i] = NewLine
  BY DEF First
<1>3. j \in Nat /\ k \in Nat /\ j > 0 /\ k > 0
  OBVIOUS
<1>4. ~(j < k) /\ ~(k < j)
  BY <1>1, <1>2, <1>3
<1> QED
  BY <1>1, <1>2, <1>3, <1>4

LEMMA AnswerOfFirst ==
    ASSUME NEW u \in Seq(Words \cup {NewLine}), NEW w \in Words, First(u, w)
    PROVE  {NumberOf[x] : x \in {v \in Words : First(u, v)}} = {NumberOf[w]}
<1>1. {v \in Words : First(u, v)} = {w}
  BY OneFirst
<1> QED
  BY <1>1

LEMMA WordsHaveNumbers == \A w \in Words : NumberOf[w] \in Numbers
BY BrowserAssumption DEF Numbers

(* The answer, if the user is asked: none, or one. *)
LEMMA NoAnswer ==
    ASSUME pc = "choice", ~HasWord, ~InputEnded
    PROVE  Answered = {}
BY DEF Answered, FirstWord, HasWord

LEMMA AnswerIs ==
    ASSUME TypeOK, pc = "choice", NEW w \in Words, FirstWord(w)
    PROVE  Answered = {NumberOf[w]}
<1>1. First(unread, w) /\ HasWord
  BY DEF First, FirstWord, HasWord
<1>2. {NumberOf[x] : x \in {v \in Words : First(unread, v)}} = {NumberOf[w]}
  BY <1>1, AnswerOfFirst DEF TypeOK
<1> QED
  BY <1>1, <1>2 DEF Answered, First, FirstWord

LEMMA InputHasEnded ==
    ASSUME pc = "choice", ~HasWord, InputEnded
    PROVE  Answered = {NotANumber}
BY DEF Answered, FirstWord, HasWord

LEMMA AtMostOne ==
    ASSUME TypeOK', pc' = "choice"
    PROVE  Answered' \in {{}} \cup {{n} : n \in Numbers}
<1>1. unread' \in Seq(Words \cup {NewLine})
  BY DEF TypeOK
<1>2. CASE \E w \in Words : FirstWord(w)'
  <2>1. PICK w \in Words : First(unread', w)
    BY <1>2 DEF First, FirstWord
  <2>2. {NumberOf[x] : x \in {v \in Words : First(unread', v)}} = {NumberOf[w]}
    BY <1>1, <2>1, AnswerOfFirst
  <2>3. HasWord'
    BY <2>1 DEF First, HasWord
  <2>4. Answered' = {NumberOf[w]}
    BY <2>2, <2>3 DEF Answered, First, FirstWord
  <2> QED
    BY <2>4, WordsHaveNumbers
<1>3. CASE ~\E w \in Words : FirstWord(w)'
  <2>1. Answered' = {} \/ Answered' = {NotANumber}
    BY <1>3 DEF Answered
  <2> QED
    BY <2>1 DEF Numbers
<1> QED
  BY <1>2, <1>3

(* Nothing is asked, and nothing answered. *)
LEMMA NotAsked ==
    /\ pc # "choice" => Offered = << >> /\ Answered = {}
    /\ pc' # "choice" => Offered' = << >> /\ Answered' = {}
BY DEF Offered, Answered

LEMMA AnswerTaken ==
    ASSUME IInv, NEW n, Answer(n)
    PROVE  pc = "choice" /\ Answered = {n}
<1>1. PICK w \in Words : NumberOf[w] = n /\ FirstWord(w)
  BY DEF Answer, Scan, FirstWord
<1> QED
  BY <1>1, AnswerIs DEF Answer, IInv

(***************************************************************************)
(* The steps of the program, one by one.                                   *)
(***************************************************************************)
LEMMA UserSteps ==
    ASSUME IInv, IInv', TypeLine \/ CloseInput \/ Underflow
    PROVE  [History!HistoryNext]_(History!history)
<1>1. UNCHANGED <<pc, url, url_current, url_last, URL_LOADED, links>>
  BY DEF TypeLine, CloseInput, Underflow, urls
<1>2. /\ Stage' = Stage /\ Here' = Here /\ url_last' = url_last /\ Offered' = Offered
  BY <1>1 DEF Stage, Here, Offered, Located, Fetching
<1>3. CASE pc # "choice"
  <2>1. Answered = {} /\ Answered' = {}
    BY <1>1, <1>3, NotAsked
  <2> QED
    BY <1>2, <2>1, Stutters
<1>4. CASE pc = "choice"
  <2>1. ~HasWord /\ ~InputEnded
    BY <1>4 DEF TypeLine, CloseInput, Underflow, WaitsForLine, AtKey, AtScan, InputEnded
  <2>2. Answered = {}
    BY <1>4, <2>1, NoAnswer
  <2>3. Answered' \in {{}} \cup {{n} : n \in Numbers}
    BY <1>1, <1>4, AtMostOne DEF IInv
  <2>4. CASE Answered' = {}
    BY <1>2, <2>2, <2>4, Stutters
  <2>5. CASE Answered' # {}
    <3>1. PICK n \in Numbers : Answered' = {n}
      BY <2>3, <2>5
    <3>2. Stage = "choice" /\ Stage' = "choice"
      BY <1>1, <1>4 DEF Stage
    <3> QED
      BY <1>2, <2>2, <3>1, <3>2, Replies
  <2> QED
    BY <2>4, <2>5
<1> QED
  BY <1>3, <1>4

LEMMA MenuSteps ==
    ASSUME IInv, ReadKey \/ ReadUrl
    PROVE  [History!HistoryNext]_(History!history)
<1>1. /\ pc \in {"loop", "scan_url"} /\ ~URL_LOADED /\ URL_LOADED' = URL_LOADED
      /\ url_current' = url_current /\ url_last' = url_last
  BY DEF ReadKey, AtKey, ReadUrl, IInv, Visiting
<1>2. Stage = "menu" /\ Here = url_current /\ Offered = << >> /\ Answered = {}
  BY <1>1, NotAsked DEF Stage, Here, Located, Fetching
<1>3. CASE pc' \in {"loop", "scan_url", "quit"}
  <2>1. Stage' = "menu" /\ Here' = url_current' /\ Offered' = << >> /\ Answered' = {}
    BY <1>1, <1>3, NotAsked DEF Stage, Here, Located, Fetching
  <2> QED
    BY <1>1, <1>2, <2>1, Stutters
<1>4. CASE pc' = "begin" /\ url' \in Urls
  <2>1. Stage' = "visit" /\ Here' = url' /\ Offered' = << >> /\ Answered' = {}
    BY <1>4, NotAsked DEF Stage, Here, Located, Fetching
  <2> QED
    BY <1>1, <1>2, <1>4, <2>1, Enters
<1> QED
  BY <1>1, <1>3, <1>4, UrlFacts DEF ReadKey, ReadUrl

LEMMA VisitSteps ==
    ASSUME IInv, IInv', BeginVisit \/ Visit
    PROVE  [History!HistoryNext]_(History!history)
<1>1. /\ Located \/ Fetching
      /\ Located => url \in Urls
      /\ pc # "choice" /\ url_last' = url_last
  BY DEF BeginVisit, Visit, HttpGet, Recv, Write, WriteFails, ParseAndList, Located,
         Fetching, IInv, Visiting, urls
<1>2. Here = url_current'
  <2>1. CASE BeginVisit
    BY <1>1, <2>1, UrlFacts DEF BeginVisit, Here, Located
  <2>2. CASE Visit
    BY <2>2 DEF Visit, HttpGet, Recv, Write, WriteFails, ParseAndList, Here, Located, urls
  <2> QED
    BY <2>1, <2>2
<1>3. ~Located' /\ pc' \in {"get", "recv", "write", "parse", "choice", "loop", "crashed"}
  <2>1. CASE BeginVisit
    <3>1. url # NoUrl
      BY <1>1, <2>1, UrlFacts DEF BeginVisit, Located
    <3> QED
      BY <2>1, <3>1 DEF BeginVisit, Located
  <2>2. CASE Visit
    BY <2>2 DEF Visit, HttpGet, Recv, Write, WriteFails, ParseAndList, Located
  <2> QED
    BY <2>1, <2>2
<1>4. Stage = "visit" /\ Offered = << >> /\ Answered = {} /\ Here' = Here
  BY <1>1, <1>2, <1>3, NotAsked DEF Stage, Here
<1>5. CASE pc' \in {"get", "recv", "write", "parse"}
  <2>1. Stage' = "visit" /\ Offered' = << >> /\ Answered' = {}
    BY <1>5, NotAsked DEF Stage, Fetching
  <2> QED
    BY <1>1, <1>4, <2>1, Stutters
<1>6. CASE pc' \in {"loop", "crashed"}
  <2>1. Stage' = "menu" /\ Offered' = << >> /\ Answered' = {}
    BY <1>3, <1>6, NotAsked DEF Stage, Fetching
  <2> QED
    BY <1>1, <1>4, <2>1, Fails
<1>7. CASE pc' = "choice"
  <2>1. Stage' = "choice" /\ Offered' \in Seq(Links)
    BY <1>7 DEF Stage, Offered, IInv, TypeOK
  <2>2. Answered' \in {{}} \cup {{n} : n \in Numbers}
    BY <1>7, AtMostOne DEF IInv
  <2> QED
    BY <1>1, <1>4, <2>1, <2>2, Offers
<1> QED
  BY <1>3, <1>5, <1>6, <1>7

(* At the prompt the current page is the one of the links.                 *)
LEMMA AtPrompt ==
    ASSUME IInv, pc = "choice"
    PROVE  /\ Stage = "choice" /\ Here = url_current /\ Offered = links
           /\ ~URL_LOADED /\ url_current \in Urls /\ links \in Seq(Links)
BY DEF IInv, TypeOK, Visiting, Stage, Here, Offered, Located

LEMMA AbortStep ==
    ASSUME IInv, ChooseNothing
    PROVE  History!HistoryNext
<1>1. /\ pc = "choice" /\ pc' = "loop" /\ UNCHANGED <<url_current, url_last, URL_LOADED>>
  BY DEF ChooseNothing, Answer, urls
<1>2. /\ Stage' = "menu" /\ Here' = url_current /\ Offered' = << >> /\ Answered' = {}
  BY <1>1, AtPrompt, NotAsked DEF Stage, Here, Located, Fetching
<1>3. \E n \in Numbers \ (0 .. Len(Offered)) : Answered = {n}
  <2>0. Len(links) \in Nat /\ Offered = links /\ NotANumber \notin Int
    BY <1>1, AtPrompt, BrowserAssumption
  <2>n. NotANumber \in Numbers \ (0 .. Len(Offered))
    <3>1. NotANumber \notin 0 .. Len(links)
      BY <2>0
    <3> QED
      BY <2>0, <3>1 DEF Numbers
  <2>1. CASE \E n \in Len(links) + 1 .. SizeMax : Answer(n)
    <3>1. PICK n \in Len(links) + 1 .. SizeMax : Answer(n)
      BY <2>1
    <3>2. n \in Numbers \ (0 .. Len(links))
      BY <2>0, BrowserAssumption DEF Numbers
    <3> QED
      BY <1>1, <3>1, <3>2, AnswerTaken, AtPrompt
  <2>2. CASE \E w \in Words : FirstWord(w) /\ NumberOf[w] = NotANumber
    <3>1. Answered = {NotANumber}
      BY <1>1, <2>2, AnswerIs DEF IInv
    <3> QED
      BY <2>n, <3>1
  <2>3. CASE ~HasWord /\ InputEnded
    <3>1. Answered = {NotANumber}
      BY <1>1, <2>3, InputHasEnded
    <3> QED
      BY <2>n, <3>1
  <2> QED
    BY <2>1, <2>2, <2>3 DEF ChooseNothing
<1> QED
  BY <1>1, <1>2, <1>3, AtPrompt, Aborts

LEMMA BackStep ==
    ASSUME IInv, ChooseBack
    PROVE  History!HistoryNext
<1>1. /\ pc = "choice" /\ pc' = "loop" /\ URL_LOADED' /\ Answered = {0}
      /\ url' = IF url_last = NoUrl THEN url_current ELSE url_last
      /\ url_last' = url_current
  BY AnswerTaken DEF ChooseBack
<1>2. Stage' = "visit" /\ Here' = url' /\ Offered' = << >> /\ Answered' = {}
  BY <1>1, NotAsked DEF Stage, Here, Located
<1> QED
  BY <1>1, <1>2, AtPrompt, GoesBack

LEMMA FollowStep ==
    ASSUME IInv, ChooseLink
    PROVE  History!HistoryNext
<1>1. PICK n \in 1 .. Len(links) :
         /\ Answer(n)
         /\ url' = IF links[n].host = Relative
                   THEN [url EXCEPT !.path = @ \o links[n].path] ELSE links[n]
  BY DEF ChooseLink
<1>2. /\ pc = "choice" /\ Answered = {n} /\ pc' = "loop" /\ URL_LOADED'
      /\ url_last' = url_current
  BY <1>1, AnswerTaken DEF ChooseLink
<1>3. links[n] \in Links
  BY <1>1, <1>2, AtPrompt
<1>4. url' = History!Resolve(url_current, links[n])
  BY <1>1, <1>2, <1>3, LinkResolved DEF History!Resolve
<1>5. Stage' = "visit" /\ Here' = url' /\ Offered' = << >> /\ Answered' = {}
  BY <1>2, NotAsked DEF Stage, Here, Located
<1> QED
  BY <1>2, <1>4, <1>5, AtPrompt, Follows

LEMMA HistoryStep ==
    ASSUME IInv, IInv', [Next]_vars
    PROVE  [History!HistoryNext]_(History!history)
<1>1. CASE UNCHANGED vars
  <2>1. UNCHANGED <<pc, urls, url, url_current, url_last, URL_LOADED, links, typed, unread,
                    eof>>
    BY <1>1 DEF vars, urls, input
  <2>2. Answered' = Answered
    BY <2>1 DEF Answered, FirstWord, HasWord, InputEnded
  <2>3. Stage' = Stage /\ Here' = Here /\ url_last' = url_last /\ Offered' = Offered
    BY <2>1 DEF Stage, Here, Offered, Located, Fetching
  <2> QED
    BY <2>2, <2>3, Stutters
<1> QED
  BY <1>1, UserSteps, MenuSteps, VisitSteps, AbortStep, BackStep, FollowStep
  DEF Next, Stopped

(***************************************************************************)
(* The buffers of main implement a current and a previous page: the number *)
(* of a link leads to this link of the current page, 0 leads back, however *)
(* often, and any other answer to neither.                                 *)
(***************************************************************************)
THEOREM KeepsHistory == Spec => ImplementsHistory
<1>1. Init => History!HistoryInit
  BY HistoryInitially
<1>2. ASSUME IInv, IInv', [Next]_vars PROVE [History!HistoryNext]_(History!history)
  BY <1>2, HistoryStep
<1> QED
  BY <1>1, <1>2, Inductive, PTL DEF Spec, ImplementsHistory, History!HistorySpec

-----------------------------------------------------------------------------
(* How long a visit takes. *)

(* The steps from http_get to url_choice that are left, at most.  A byte   *)
(* can take two: one recv() and one write() of its own.                    *)
VisitLeft ==
    CASE pc = "get" -> 2 * MaxResponse + 3
      [] pc = "recv" -> 2 * (MaxResponse - taken) + 2
      [] pc = "write" -> 2 * (MaxResponse - taken) + 2 + left
      [] pc = "parse" -> 1
      [] OTHER -> 0

(* There is something to write. *)
Pending == pc = "write" => left > 0

BoundedVisit == /\ VisitLeft \in 0 .. 2 * MaxResponse + 3
                /\ VisitLeft = 0 <=> ~Fetching

LEMMA PendingStep ==
    ASSUME IInv, Pending, [Next]_vars
    PROVE  Pending'
<1>1. left \in Nat
  BY BoundFacts DEF IInv, TypeOK
<1>2. CASE Recv
  BY <1>2, BoundFacts DEF Recv, Pending
<1>3. CASE Write
  BY <1>1, <1>3 DEF Write, Pending
<1>4. CASE /\ pc' # "write" \/ pc' = pc
           /\ UNCHANGED left \/ pc' # "write"
  BY <1>4 DEF Pending
<1>5. CASE HttpGet \/ WriteFails \/ ParseAndList \/ BeginVisit \/ ReadKey \/ ReadUrl
  BY <1>4, <1>5 DEF HttpGet, WriteFails, ParseAndList, BeginVisit, ReadKey, ReadUrl,
                    AtKey, response
<1>6. CASE ChooseNothing \/ ChooseBack \/ ChooseLink
  BY <1>4, <1>6 DEF ChooseNothing, ChooseBack, ChooseLink
<1>7. CASE TypeLine \/ CloseInput \/ Underflow \/ Stopped \/ UNCHANGED vars
  BY <1>4, <1>7 DEF TypeLine, CloseInput, Underflow, Stopped, vars, response
<1> QED
  BY <1>2, <1>3, <1>5, <1>6, <1>7 DEF Next, Visit

LEMMA VisitIsBounded ==
    ASSUME IInv, Pending
    PROVE  BoundedVisit
<1>1. /\ MaxResponse \in Nat /\ taken \in 0 .. MaxResponse /\ left \in Nat
      /\ lost \in Nat /\ Len(file) \in Nat
  BY BoundFacts DEF IInv, TypeOK
<1>2. left <= taken
  BY <1>1 DEF IInv, Copying
<1> QED
  BY <1>1, <1>2 DEF VisitLeft, BoundedVisit, Pending, Fetching

(* Only the visit itself goes on during a visit. *)
LEMMA OnlyVisit ==
    ASSUME Fetching, Next
    PROVE  Visit
BY DEF Fetching, Next, TypeLine, CloseInput, WaitsForLine, Underflow, AtKey, AtScan,
       ReadKey, ReadUrl, BeginVisit, ChooseNothing, ChooseBack, ChooseLink, Answer, Stopped

LEMMA VisitShortens ==
    ASSUME IInv, Pending, Visit
    PROVE  VisitLeft' < VisitLeft
<1>1. MaxResponse \in Nat /\ taken \in 0 .. MaxResponse /\ left \in Nat
  BY BoundFacts DEF IInv, TypeOK
<1>2. CASE HttpGet
  <2>1. pc = "get" /\ pc' \in {"recv", "loop"} /\ taken' = taken
    BY <1>2 DEF HttpGet
  <2> QED
    BY <1>1, <2>1 DEF VisitLeft
<1>3. CASE Recv
  <2>1. pc = "recv" /\ VisitLeft = 2 * (MaxResponse - taken) + 2
    BY <1>3 DEF Recv, VisitLeft
  <2>2. CASE pc' = "parse"
    BY <1>1, <2>1, <2>2 DEF VisitLeft
  <2>3. CASE pc' # "parse"
    <3>1. PICK n \in 1 .. BufSize :
             taken + n <= MaxResponse /\ taken' = taken + n /\ left' = n /\ pc' = "write"
      BY <1>3, <2>3 DEF Recv
    <3>2. VisitLeft' = 2 * (MaxResponse - taken') + 2 + left'
      BY <3>1 DEF VisitLeft
    <3> QED
      BY <1>1, <2>1, <3>1, <3>2, BoundFacts
  <2> QED
    BY <2>2, <2>3
<1>4. CASE Write
  <2>1. PICK n \in 1 .. left :
           left' = left - n /\ pc' = IF n = left THEN "recv" ELSE "write"
    BY <1>4 DEF Write
  <2>2. pc = "write" /\ taken' = taken
    BY <1>4 DEF Write
  <2> QED
    BY <1>1, <2>1, <2>2 DEF VisitLeft
<1>5. CASE WriteFails
  <2>1. pc = "write" /\ pc' = "recv" /\ taken' = taken /\ left > 0
    BY <1>5 DEF WriteFails, Pending
  <2> QED
    BY <1>1, <2>1 DEF VisitLeft
<1>6. CASE ParseAndList
  <2>1. pc = "parse" /\ pc' \in {"choice", "crashed"}
    BY <1>6 DEF ParseAndList
  <2> QED
    BY <2>1 DEF VisitLeft
<1> QED
  BY <1>2, <1>3, <1>4, <1>5, <1>6 DEF Visit

(***************************************************************************)
(* From http_get on, a visit is over, or has crashed, after at most        *)
(* 2 * MaxResponse + 3 steps: nothing else happens meanwhile, and each step*)
(* brings its end nearer, whatever the server sends, however short the     *)
(* writes are and wherever they fail (main.c 82-108, client.c 106-150).    *)
(***************************************************************************)
THEOREM VisitsAreShort ==
    Spec => []BoundedVisit /\ [][Fetching => Visit /\ VisitLeft' < VisitLeft]_vars
<1>1. Init => Pending
  BY DEF Init, Pending
<1>2. IInv /\ Pending /\ [Next]_vars => Pending'
  BY PendingStep
<1>3. IInv /\ Pending => BoundedVisit
  BY VisitIsBounded
<1>4. IInv /\ Pending /\ [Next]_vars => [Fetching => Visit /\ VisitLeft' < VisitLeft]_vars
  BY OnlyVisit, VisitShortens
<1> QED
  BY <1>1, <1>2, <1>3, <1>4, Inductive, PTL DEF Spec

-----------------------------------------------------------------------------
(* What is left over in stdin's buffer. *)

OneWord(s) == \A j, k \in DOMAIN s : s[j] # NewLine /\ s[k] # NewLine => j = k

(* A user who types no more than a word in a line. *)
OneWordLines == \A line \in Lines : OneWord(line)

(* The word of a line is taken before anything else is asked for. *)
WordInv == /\ OneWord(typed) /\ OneWord(unread)
           /\ Located \/ Fetching => ~HasWord

(* A word is left over at the head of the loop for one reason only. *)
LeftOverByAnswer ==
    ~(AtKey /\ HasWord) /\ (AtKey /\ HasWord)' =>
        pc = "choice" /\ \E w \in Words : FirstWord(w) /\ NumberOf[w] = NotANumber

LEMMA ScanLeavesNothing ==
    ASSUME IInv, OneWord(unread), NEW w, Scan(w)
    PROVE  ~HasWord' /\ OneWord(unread')
<1>1. PICK k \in DOMAIN unread :
         /\ unread[k] = w /\ w # NewLine
         /\ unread' = SubSeq(unread, k + 1, Len(unread))
  BY DEF Scan
<1>2. unread \in Seq(Words \cup {NewLine}) /\ k \in 1 .. Len(unread) /\ Len(unread) \in Nat
  BY DEF IInv, TypeOK
<1>3. /\ DOMAIN unread' = 1 .. Len(unread) - k
      /\ \A j \in 1 .. Len(unread) - k : unread'[j] = unread[k + j]
  BY <1>1, <1>2
<1>4. ASSUME NEW j \in DOMAIN unread' PROVE unread'[j] = NewLine
  <2>1. j \in Nat /\ j > 0 /\ k + j \in DOMAIN unread /\ unread'[j] = unread[k + j]
    BY <1>2, <1>3, <1>4
  <2>2. unread[k + j] # NewLine => k + j = k
    BY <1>1, <2>1 DEF OneWord
  <2> QED
    BY <1>2, <2>1, <2>2
<1> QED
  BY <1>4 DEF HasWord, OneWord

LEMMA TailOneWord ==
    ASSUME IInv, OneWord(typed), typed # << >>
    PROVE  OneWord(Tail(typed))
<1>1. typed \in Seq(Words \cup {NewLine}) /\ Len(typed) \in Nat /\ Len(typed) > 0
  BY EmptySeq DEF IInv, TypeOK
<1>2. /\ DOMAIN Tail(typed) = 1 .. Len(typed) - 1
      /\ \A j \in 1 .. Len(typed) - 1 : Tail(typed)[j] = typed[j + 1]
  BY <1>1
<1>3. SUFFICES ASSUME NEW j \in 1 .. Len(typed) - 1, NEW k \in 1 .. Len(typed) - 1,
                      typed[j + 1] # NewLine, typed[k + 1] # NewLine
               PROVE  j = k
  BY <1>2 DEF OneWord
<1>4. j + 1 \in DOMAIN typed /\ k + 1 \in DOMAIN typed /\ j \in Int /\ k \in Int
  BY <1>1
<1> QED
  BY <1>3, <1>4 DEF OneWord

LEMMA WordInit == Init => WordInv
<1> SUFFICES ASSUME Init PROVE WordInv
  OBVIOUS
<1>1. DOMAIN << >> = {}
  OBVIOUS
<1> QED
  BY <1>1 DEF Init, WordInv, OneWord, Located, Fetching

(* The two steps that look at the words, apart from those that scan one. *)
LEMMA UserWord ==
    ASSUME OneWordLines, IInv, WordInv, TypeLine \/ CloseInput \/ Underflow \/ ReadKey
    PROVE  WordInv'
<1> USE DEF WordInv
<1>1. CASE TypeLine \/ CloseInput
  BY <1>1 DEF TypeLine, CloseInput, OneWordLines, Located, Fetching, HasWord, urls
<1>2. CASE Underflow
  <2>1. OneWord(unread') /\ typed' = << >> /\ pc \in {"scan_url", "choice"} /\ pc' = pc
    BY <1>2 DEF Underflow, AtScan
  <2>2. OneWord(<< >>)
    BY DEF OneWord
  <2> QED
    BY <2>1, <2>2 DEF Located, Fetching
<1>3. CASE ReadKey
  <2>1. /\ pc' \in {"quit", "scan_url", "loop"} /\ ~URL_LOADED' /\ unread' = unread
        /\ typed' = typed \/ (typed # << >> /\ typed' = Tail(typed))
    BY <1>3 DEF ReadKey, AtKey
  <2> QED
    BY <2>1, TailOneWord DEF Located, Fetching
<1> QED
  BY <1>1, <1>2, <1>3

LEMMA ProgramWord ==
    ASSUME IInv, WordInv, ReadUrl \/ BeginVisit \/ Visit \/ ChooseNothing \/ ChooseBack
                          \/ ChooseLink
    PROVE  WordInv'
<1> USE DEF WordInv
<1>1. CASE ReadUrl
  <2>1. typed' = typed
    BY <1>1 DEF ReadUrl
  <2>2. CASE \E w \in Words : Scan(w)
    BY <2>1, <2>2, ScanLeavesNothing
  <2>3. CASE ~HasWord /\ unread' = unread
    BY <2>1, <2>3 DEF HasWord
  <2> QED
    BY <1>1, <2>2, <2>3 DEF ReadUrl
<1>2. CASE BeginVisit
  BY <1>2 DEF BeginVisit, Located, HasWord, input
<1>3. CASE Visit
  BY <1>3 DEF Visit, HttpGet, Recv, Write, WriteFails, ParseAndList, Fetching, HasWord, input
<1>4. CASE ChooseNothing
  <2>1. pc = "choice" /\ typed' = typed /\ pc' = "loop" /\ URL_LOADED' = URL_LOADED
    BY <1>4 DEF ChooseNothing, Answer, urls
  <2>2. ~URL_LOADED
    BY <2>1 DEF IInv, Visiting
  <2>3. OneWord(unread')
    BY <1>4, ScanLeavesNothing DEF ChooseNothing, Answer
  <2> QED
    BY <2>1, <2>2, <2>3 DEF Located, Fetching
<1>5. CASE ChooseBack \/ ChooseLink
  <2>1. typed' = typed /\ \E w \in Words : Scan(w)
    BY <1>5 DEF ChooseBack, ChooseLink, Answer
  <2> QED
    BY <2>1, ScanLeavesNothing
<1> QED
  BY <1>1, <1>2, <1>3, <1>4, <1>5

LEMMA WordStep ==
    ASSUME OneWordLines, IInv, WordInv, [Next]_vars
    PROVE  WordInv'
<1>1. CASE Stopped \/ UNCHANGED vars
  <2>1. UNCHANGED <<pc, URL_LOADED, typed, unread>>
    BY <1>1 DEF Stopped, vars, urls, input
  <2> QED
    BY <2>1 DEF WordInv, Located, Fetching, HasWord
<1> QED
  BY <1>1, UserWord, ProgramWord DEF Next

LEMMA WordLeft ==
    ASSUME IInv, WordInv, [Next]_vars
    PROVE  LeftOverByAnswer
<1> SUFFICES ASSUME ~(AtKey /\ HasWord), AtKey', HasWord'
             PROVE  pc = "choice" /\ \E w \in Words : FirstWord(w) /\ NumberOf[w] = NotANumber
  BY DEF LeftOverByAnswer
<1>0. pc' = "loop" /\ ~URL_LOADED'
  BY DEF AtKey
<1>1. CASE TypeLine \/ CloseInput \/ Underflow \/ Stopped \/ UNCHANGED vars
  BY <1>0, <1>1 DEF TypeLine, CloseInput, Underflow, Stopped, AtKey, AtScan, HasWord, vars,
                    urls, input
<1>2. CASE ReadKey
  BY <1>2 DEF ReadKey, HasWord
<1>3. CASE ReadUrl
  BY <1>0, <1>3 DEF ReadUrl, HasWord
<1>4. CASE BeginVisit
  BY <1>0, <1>4 DEF BeginVisit
<1>5. CASE Visit
  BY <1>5 DEF Visit, HttpGet, Recv, Write, WriteFails, ParseAndList, Fetching, HasWord,
              WordInv, input
<1>6. CASE ChooseBack \/ ChooseLink
  BY <1>0, <1>6 DEF ChooseBack, ChooseLink
<1>7. CASE ChooseNothing
  <2>1. CASE \E n \in Len(links) + 1 .. SizeMax : Answer(n)
    BY <2>1, ScanLeavesNothing DEF Answer, WordInv
  <2>2. CASE pc = "choice" /\ ~HasWord /\ unread' = unread
    BY <2>2 DEF HasWord
  <2>3. CASE pc = "choice" /\ \E w \in Words : FirstWord(w) /\ NumberOf[w] = NotANumber
    BY <2>3
  <2> QED
    BY <1>7, <2>1, <2>2, <2>3 DEF ChooseNothing
<1> QED
  BY <1>1, <1>2, <1>3, <1>4, <1>5, <1>6, <1>7 DEF Next

(***************************************************************************)
(* The trash of main.c 23-26: when the user types no more than a word in a *)
(* line, an iteration leaves something in stdin's buffer only if the answer*)
(* to url_choice was no number, as fscanf then takes nothing (urls.c       *)
(* 54-62).                                                                 *)
(***************************************************************************)
THEOREM TrashIsAnAnswer ==
    ASSUME OneWordLines
    PROVE  Spec => [][LeftOverByAnswer]_vars
<1>1. Init => WordInv
  BY WordInit
<1>2. IInv /\ WordInv /\ [Next]_vars => WordInv'
  BY WordStep
<1>3. IInv /\ WordInv /\ [Next]_vars => [LeftOverByAnswer]_vars
  BY WordLeft
<1> QED
  BY <1>1, <1>2, <1>3, Inductive, PTL DEF Spec
=============================================================================
