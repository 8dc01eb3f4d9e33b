------------------------------ MODULE Browser ------------------------------
(***************************************************************************)
(* The console browser of socket/.  It asks for a location, sends a GET    *)
(* request to its host, copies the response to a file, lists the links     *)
(* that grep finds there and lets the user choose one, go back or abort.   *)
(*                                                                         *)
(* Of a URL only the host and what follows its first slash are told apart. *)
(* The user types lines of words.  Keys are read with read(), everything   *)
(* else with fscanf from stdin's buffer, which takes a line at a time; the *)
(* fflush(NULL) of the loop does not touch what is unread there.           *)
(***************************************************************************)
EXTENDS Integers, Sequences

CONSTANTS
    Hosts, Paths,   \* the parts of URLs; slashes separate
    Segments,       \*   the segments of a path
    Relative,       \* the host of a link without "://"
    NoUrl,          \* the empty string, in a URL's place
    Words,          \* what may be typed,
    UrlOf,          \*   as fscanf reads it with %s
    NumberOf,       \*   and with %lu, which reads -1 as SizeMax,
    NotANumber,     \*   or finds no number
    SizeMax,
    QuitWords,      \* the words with a Q or q among their letters
    NewLine,        \* Enter, the end of a line
    Lines,          \* the lines the user may type
    LinkLists,      \* the lists of links that grep may find in a response
    BufSize,        \* BUF_SIZE, the most that recv() takes at once
    MaxResponse,    \* no response is longer
    MaxFds          \* the descriptors a process may have besides 0, 1 and 2

Urls == [host : Hosts, path : Paths]
Links == Urls \cup [host : {Relative}, path : Paths]

ASSUME BrowserAssumption ==
    /\ Relative \notin Hosts /\ NoUrl \notin Urls
    /\ << >> \in Paths /\ Paths \subseteq Seq(Segments)
    /\ UrlOf \in [Words -> Urls]
    /\ NumberOf \in [Words -> 0 .. SizeMax \cup {NotANumber}]
    /\ NotANumber \notin Int /\ QuitWords \subseteq Words /\ NewLine \notin Words
    /\ Lines \subseteq Seq(Words \cup {NewLine})
    /\ LinkLists \subseteq Seq(Links)
    /\ SizeMax \in Nat /\ \A list \in LinkLists : Len(list) < SizeMax
    /\ BufSize \in Nat \ {0} /\ MaxResponse \in Nat /\ MaxFds \in Nat

VARIABLES
    pc,
    url, url_current, url_last,
    URL_LOADED,
    links,          \* the lines of the file of links
    typed,          \* the rest of a line that is still in the terminal
    unread,         \* what stdin's buffer holds
    eof,            \* the user has closed the terminal
    sock,           \* what http_recieve reads from: "server", or "stdin" for 0
    taken,          \* the bytes taken from it
    left,           \* those that written() has still to write
    lost,           \* those it has given up
    file,           \* the response file: the numbers of the bytes written to it
    files, sockets, \* the open streams and sockets
    before          \* (history) the open streams when the visit began

urls == <<url, url_current, url_last, URL_LOADED>>
input == <<typed, unread, eof>>
response == <<sock, taken, left, lost, file>>
fds == <<files, sockets, before>>
vars == <<pc, urls, links, input, response, fds>>

-----------------------------------------------------------------------------
Init == /\ pc = "loop"
        /\ url = NoUrl /\ url_current = NoUrl /\ url_last = NoUrl
        /\ URL_LOADED = FALSE
        /\ links = << >>
        /\ typed = << >> /\ unread = << >> /\ eof = FALSE
        /\ sock = "stdin" /\ taken = 0 /\ left = 0 /\ lost = 0 /\ file = << >>
        /\ files = 0 /\ sockets = 0 /\ before = 0

(* fscanf skips white space and takes a word from the buffer. *)
HasWord == \E k \in DOMAIN unread : unread[k] # NewLine
FirstWord(w) == \E k \in DOMAIN unread :
                    /\ unread[k] = w /\ w # NewLine
                    /\ \A j \in 1 .. k - 1 : unread[j] = NewLine
Scan(w) == \E k \in DOMAIN unread :
               /\ unread[k] = w /\ w # NewLine
               /\ \A j \in 1 .. k - 1 : unread[j] = NewLine
               /\ unread' = SubSeq(unread, k + 1, Len(unread))

AtKey == pc = "loop" /\ ~URL_LOADED
AtScan == pc \in {"scan_url", "choice"}
WaitsForLine == typed = << >> /\ ~eof /\ (AtKey \/ (AtScan /\ ~HasWord))
InputEnded == typed = << >> /\ eof

-----------------------------------------------------------------------------
(***************************************************************************)
(* Plausible mistakes, each a replacement for the action its name begins   *)
(* with; none is part of Next.                                             *)
(***************************************************************************)
(* The result of fscanf is not looked at. *)
ReadUrl_Unchecked ==
    /\ pc = "scan_url"
    /\ \/ \E w \in Words : Scan(w) /\ url' = UrlOf[w]
       \/ ~HasWord /\ InputEnded /\ UNCHANGED <<url, unread>>
    /\ pc' = "begin"
    /\ UNCHANGED <<url_current, url_last, URL_LOADED, links, typed, eof, response, fds>>

(* An empty answer is not taken for the end. *)
Recv_IgnoresEnd ==
    /\ pc = "recv" /\ sock = "server"
    /\ \E n \in 1 .. BufSize : taken + n <= MaxResponse /\ taken' = taken + n /\ left' = n
    /\ pc' = "write"
    /\ UNCHANGED <<urls, links, input, sock, lost, file, fds>>

(* A short write is not continued. *)
Write_Once ==
    /\ pc = "write"
    /\ \E n \in 1 .. left : file' = file \o [k \in 1 .. n |-> taken - left + k]
    /\ left' = 0 /\ pc' = "recv"
    /\ UNCHANGED <<urls, links, input, sock, taken, lost, fds>>

(* Everything received counts as given up. *)
WriteFails_LosesAll ==
    /\ pc = "write"
    /\ lost' = lost + taken
    /\ left' = 0 /\ pc' = "recv"
    /\ UNCHANGED <<urls, links, input, sock, taken, file, fds>>

(* Only one of the two streams is closed. *)
ParseAndList_KeepsUrlsFile ==
    /\ pc = "parse" /\ files + sockets < MaxFds
    /\ links' \in IF file = << >> THEN {<< >>} ELSE LinkLists
    /\ files' = files - 1
    /\ URL_LOADED' = FALSE
    /\ pc' = "choice"
    /\ UNCHANGED <<url, url_current, url_last, input, response, sockets, before>>

(* The previous page is overwritten before it has been copied. *)
ChooseBack_OverwritesFirst ==
    /\ pc = "choice" /\ \E w \in Words : NumberOf[w] = 0 /\ Scan(w)
    /\ URL_LOADED' = TRUE
    /\ url_last' = url_current
    /\ url' = url_last'
    /\ pc' = "loop"
    /\ UNCHANGED <<url_current, links, typed, eof, response, fds>>

-----------------------------------------------------------------------------
(* The user. *)

TypeLine ==
    /\ WaitsForLine
    /\ typed' \in Lines
    /\ UNCHANGED <<pc, urls, links, unread, eof, response, fds>>

CloseInput ==
    /\ WaitsForLine
    /\ eof' = TRUE
    /\ UNCHANGED <<pc, urls, links, typed, unread, response, fds>>

(* fscanf finds no word in the buffer and fetches what the terminal has. *)
Underflow ==
    /\ AtScan /\ ~HasWord /\ typed # << >>
    /\ unread' = typed
    /\ typed' = << >>
    /\ UNCHANGED <<pc, urls, links, eof, response, fds>>

-----------------------------------------------------------------------------
(***************************************************************************)
(* One key at the head of the loop, read from the terminal behind the back *)
(* of stdin's buffer.  (A word stands for its letters, which are read one  *)
(* by one.)  At the end of the input the loop goes round for ever.         *)
(***************************************************************************)
ReadKey ==
    /\ AtKey
    /\ url' = NoUrl
    /\ \/ /\ typed # << >>
          /\ typed' = Tail(typed)
          /\ \/ Head(typed) \in QuitWords /\ pc' = "quit"
             \/ Head(typed) = NewLine /\ pc' = "scan_url"
             \/ Head(typed) \in Words \ QuitWords /\ UNCHANGED pc
       \/ InputEnded /\ UNCHANGED <<pc, typed>>
    /\ UNCHANGED <<url_current, url_last, URL_LOADED, links, unread, eof, response, fds>>

(* "Enter new URL", or "Error reading URL". *)
ReadUrl ==
    /\ pc = "scan_url"
    /\ \/ /\ \E w \in Words : Scan(w) /\ url' = UrlOf[w]
          /\ pc' = "begin"
       \/ /\ ~HasWord /\ InputEnded
          /\ pc' = "loop"
          /\ UNCHANGED <<url, unread>>
    /\ UNCHANGED <<url_current, url_last, URL_LOADED, links, typed, eof, response, fds>>

(***************************************************************************)
(* The loop from the check of url to the temporary files, which "w+" makes *)
(* empty.  One that cannot be opened is closed as NULL: fclose crashes.    *)
(***************************************************************************)
BeginVisit ==
    /\ pc = "begin" \/ (pc = "loop" /\ URL_LOADED)
    /\ url_current' = IF url = NoUrl THEN url_current ELSE url
    /\ \/ /\ url # NoUrl /\ files + sockets + 2 <= MaxFds
          /\ taken' = 0 /\ left' = 0 /\ lost' = 0 /\ file' = << >> /\ links' = << >>
          /\ before' = files
          /\ files' = files + 2
          /\ pc' = "get"
       \/ /\ url = NoUrl \/ files + sockets + 2 > MaxFds
          /\ pc' = IF url = NoUrl THEN "quit" ELSE "crashed"
          /\ UNCHANGED <<taken, left, lost, file, links, files, before>>
    /\ UNCHANGED <<url, url_last, URL_LOADED, input, sock, sockets>>

(***************************************************************************)
(* http_get.  strtok cuts url off behind its host.  A failed lookup gives  *)
(* 0, the value of CLIENT_OK, which main takes for a socket.  The other    *)
(* failures leave the two files open, and the socket if there is one.      *)
(***************************************************************************)
HttpGet ==
    /\ pc = "get"
    /\ url' = [url EXCEPT !.path = << >>]
    /\ \/ /\ files + sockets < MaxFds           \* connected
          /\ sockets' = sockets + 1
          /\ sock' = "server" /\ pc' = "recv"
          /\ UNCHANGED URL_LOADED
       \/ /\ sock' = "stdin" /\ pc' = "recv"    \* CLIENT_DNS_LOOKUP_ERROR
          /\ UNCHANGED <<sockets, URL_LOADED>>
       \/ /\ URL_LOADED' = FALSE                \* CLIENT_SOCKET_ERROR, CLIENT_CONN_ERROR
          /\ sockets' \in sockets .. IF files + sockets < MaxFds THEN sockets + 1 ELSE sockets
          /\ pc' = "loop"
          /\ UNCHANGED sock
    /\ UNCHANGED <<url_current, url_last, links, input, taken, left, lost, file, files, before>>

-----------------------------------------------------------------------------
(* http_recieve and its helper written(). *)

(* recv() on the terminal fails at once; a server may close at any time. *)
Recv ==
    /\ pc = "recv"
    /\ \/ /\ sock = "server"
          /\ \E n \in 1 .. BufSize :
               /\ taken + n <= MaxResponse
               /\ taken' = taken + n
               /\ left' = n
          /\ pc' = "write"
       \/ pc' = "parse" /\ UNCHANGED <<taken, left>>
    /\ UNCHANGED <<urls, links, input, sock, lost, file, fds>>

(* One write().  EAGAIN, which would be tried again without end, is left   *)
(* out: writing to a regular file does not return it.                      *)
Write ==
    /\ pc = "write"
    /\ \E n \in 1 .. left :
         /\ file' = file \o [k \in 1 .. n |-> taken - left + k]
         /\ left' = left - n
         /\ pc' = IF n = left THEN "recv" ELSE "write"
    /\ UNCHANGED <<urls, links, input, sock, taken, lost, fds>>

(* Another error: the rest of what was received is given up. *)
WriteFails ==
    /\ pc = "write"
    /\ lost' = lost + left
    /\ left' = 0
    /\ pc' = "recv"
    /\ UNCHANGED <<urls, links, input, sock, taken, file, fds>>

-----------------------------------------------------------------------------
(***************************************************************************)
(* parse, the two fclose, list_urls.  In an empty response grep finds no   *)
(* links.  parse opens the response once more; without a descriptor it     *)
(* reads from NULL.                                                        *)
(***************************************************************************)
ParseAndList ==
    /\ pc = "parse"
    /\ \/ /\ files + sockets < MaxFds
          /\ links' \in IF file = << >> THEN {<< >>} ELSE LinkLists
          /\ files' = files - 2
          /\ URL_LOADED' = FALSE
          /\ pc' = "choice"
       \/ /\ ~(files + sockets < MaxFds)
          /\ pc' = "crashed"
          /\ UNCHANGED <<links, files, URL_LOADED>>
    /\ UNCHANGED <<url, url_current, url_last, input, response, sockets, before>>

(* url_choice: the user's answer is the number n. *)
Answer(n) == pc = "choice" /\ \E w \in Words : NumberOf[w] = n /\ Scan(w)

(* "Abort": no number, which stays in the buffer, or one that is too big. *)
ChooseNothing ==
    /\ \/ \E n \in Len(links) + 1 .. SizeMax : Answer(n)
       \/ /\ pc = "choice"
          /\ \E w \in Words : FirstWord(w) /\ NumberOf[w] = NotANumber
          /\ UNCHANGED unread
       \/ pc = "choice" /\ ~HasWord /\ InputEnded /\ UNCHANGED unread
    /\ pc' = "loop"
    /\ UNCHANGED <<urls, links, typed, eof, response, fds>>

(* 0: the page before becomes the next one, or this one does. *)
ChooseBack ==
    /\ Answer(0)
    /\ URL_LOADED' = TRUE
    /\ url' = IF url_last # NoUrl THEN url_last ELSE url_current
    /\ url_last' = url_current
    /\ pc' = "loop"
    /\ UNCHANGED <<url_current, links, typed, eof, response, fds>>

(* A link without a protocol is added to what http_get has left of url. *)
ChooseLink ==
    /\ \E k \in 1 .. Len(links) :
         /\ Answer(k)
         /\ url' = IF links[k].host = Relative
                   THEN [url EXCEPT !.path = @ \o links[k].path]
                   ELSE links[k]
    /\ URL_LOADED' = TRUE
    /\ url_last' = url_current
    /\ pc' = "loop"
    /\ UNCHANGED <<url_current, links, typed, eof, response, fds>>

-----------------------------------------------------------------------------
Visit == HttpGet \/ Recv \/ Write \/ WriteFails \/ ParseAndList

Stopped == pc \in {"quit", "crashed"} /\ UNCHANGED vars

Next == \/ TypeLine \/ CloseInput
        \/ Underflow \/ ReadKey \/ ReadUrl
        \/ BeginVisit \/ Visit
        \/ ChooseNothing \/ ChooseBack \/ ChooseLink
        \/ Stopped

(* A server ends its response ("Connection: close"), a write ends. *)
Spec == Init /\ [][Next]_vars
FairSpec == Spec /\ WF_vars(Visit)

-----------------------------------------------------------------------------
(* A location has been entered or chosen; the page there is fetched. *)
Located == pc = "begin" \/ (pc = "loop" /\ URL_LOADED)
Fetching == pc \in {"get", "recv", "write", "parse"}

(* Every variable stays in its range; descriptors and bytes are counted.   *)
TypeOK ==
    /\ pc \in {"loop", "scan_url", "begin", "get", "recv", "write", "parse", "choice",
               "quit", "crashed"}
    /\ {url, url_current, url_last} \subseteq Urls \cup {NoUrl}
    /\ URL_LOADED \in BOOLEAN /\ eof \in BOOLEAN
    /\ links \in Seq(Links)
    /\ typed \in Seq(Words \cup {NewLine}) /\ unread \in Seq(Words \cup {NewLine})
    /\ sock \in {"stdin", "server"}
    /\ taken \in 0 .. MaxResponse /\ left \in 0 .. BufSize /\ lost \in 0 .. taken
    /\ file \in Seq(1 .. MaxResponse)
    /\ files \in 0 .. MaxFds /\ sockets \in 0 .. MaxFds /\ before \in 0 .. MaxFds
    /\ files + sockets <= MaxFds

(***************************************************************************)
(* There is a location whenever a visit begins, after every kind of input, *)
(* failure and choice: "something really went wrong" (main.c 51-55) never  *)
(* happens.                                                                *)
(***************************************************************************)
UrlGiven == Located => url # NoUrl

(***************************************************************************)
(* When the user is asked for a link, the streams that this visit opened   *)
(* are closed, whatever earlier visits have left open (main.c 63-98).      *)
(***************************************************************************)
StreamsClosed == pc = "choice" => files = before

(***************************************************************************)
(* The response file holds bytes of this visit's response only, each once  *)
(* and in order; what is missing is what http_recieve reports as not       *)
(* written (client.c 106-150).  Without a connection no links are offered, *)
(* neither of this page nor of one before.                                 *)
(***************************************************************************)
ResponseOfThisVisit ==
    /\ Len(file) + lost + left = taken
    /\ \A j, k \in DOMAIN file : j < k => file[j] < file[k]
    /\ pc = "choice" /\ lost = 0 => file = [k \in 1 .. taken |-> k]
    /\ pc = "choice" /\ sock = "stdin" => links = << >>

(***************************************************************************)
(* The three buffers that main copies to and fro, one of which http_get    *)
(* and strcat change in place, are a current and a previous page.  The     *)
(* answer that is taken from stdin's buffer decides between them and the   *)
(* links of the file: 0 leads to the previous page, the number of a link   *)
(* to this link, of this page, and anything else, even the end of the      *)
(* input, to the menu (main.c 100-146, urls.c 54-63).                      *)
(***************************************************************************)
History == INSTANCE BrowsingHistory WITH
    Locations <- Urls, Links <- Links, Relative <- Relative, NoPage <- NoUrl,
    Answers <- 0 .. SizeMax \cup {NotANumber},
    stage <- IF pc = "choice" THEN "choice"
             ELSE IF Located \/ Fetching THEN "visit" ELSE "menu",
    here <- IF Located THEN url ELSE url_current,
    last <- url_last,
    offered <- IF pc = "choice" THEN links ELSE << >>,
    answered <- {NumberOf[w] : w \in {v \in Words : pc = "choice" /\ FirstWord(v)}}
                \cup {n \in {NotANumber} : pc = "choice" /\ ~HasWord /\ InputEnded}

ImplementsHistory == History!HistorySpec

(***************************************************************************)
(* Every visit comes back to the user, whether or not there is a server,   *)
(* and whatever it sends (main.c 82-108), or ends the program.             *)
(***************************************************************************)
VisitEnds == (pc = "get") ~> (pc \in {"choice", "loop", "crashed"})

-----------------------------------------------------------------------------
(***************************************************************************)
(* main.c 23-26: "flush all the trash from buffers in case there is        *)
(* something left from the last iteration".                                *)
(***************************************************************************)
NothingLeftOver == AtKey => ~HasWord
=============================================================================
