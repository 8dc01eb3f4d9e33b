-------------------------- MODULE BrowsingHistory --------------------------
(***************************************************************************)
(* What the prompts of the browser of socket/ promise.  From the menu the  *)
(* user enters a location.  The page there is visited; either this fails,  *)
(* or its links are offered: "Enter id of URL to open (not greater than n),*)
(* 0 to return to the previous page or -1 to abort".  The answer decides   *)
(* what is visited next.  A relative link leads to a resource of the host  *)
(* of the page that offers it.                                             *)
(***************************************************************************)
EXTENDS Integers, Sequences

CONSTANTS
    Locations,  \* [host, path] records: what can be entered
    Links,      \* what pages link to: Locations and, relative, such records
    Relative,   \*   with this host
    NoPage,     \* stands for no page
    Answers     \* the numbers the user may answer, and what stands for no number

VARIABLES
    stage,      \* "menu", "visit" or "choice"
    here,       \* the page of the visit, or of the last one
    last,       \* the page before
    offered,    \* the links the user is offered, numbered from 1
    answered    \* empty, or the user's one answer

history == <<stage, here, last, offered, answered>>

HistoryInit ==
    /\ stage = "menu"
    /\ here = NoPage /\ last = NoPage
    /\ offered = << >> /\ answered = {}

(* Entering a location leaves the previous page as it is. *)
Enter ==
    /\ stage = "menu" /\ stage' = "visit"
    /\ here' \in Locations
    /\ UNCHANGED <<last, offered, answered>>

Fail ==
    /\ stage = "visit" /\ stage' = "menu"
    /\ UNCHANGED <<here, last, offered, answered>>

(* The page is there.  The answer may have been typed ahead. *)
Offer ==
    /\ stage = "visit" /\ stage' = "choice"
    /\ offered' \in Seq(Links)
    /\ answered' \in {{}} \cup {{n} : n \in Answers}
    /\ UNCHANGED <<here, last>>

Reply ==
    /\ stage = "choice" /\ answered = {}
    /\ \E n \in Answers : answered' = {n}
    /\ UNCHANGED <<stage, here, last, offered>>

Closed == offered' = << >> /\ answered' = {}

(* 0 exchanges the two pages.  Without a previous one, this one is its own. *)
Back ==
    /\ stage = "choice" /\ stage' = "visit"
    /\ answered = {0}
    /\ here' = IF last = NoPage THEN here ELSE last
    /\ last' = here
    /\ Closed

Resolve(page, link) ==
    IF link.host = Relative THEN [page EXCEPT !.path = link.path] ELSE link

(* The number of a link leads to it, and to no other. *)
Follow ==
    /\ stage = "choice" /\ stage' = "visit"
    /\ \E n \in 1 .. Len(offered) :
         /\ answered = {n}
         /\ here' = Resolve(here, offered[n])
    /\ last' = here
    /\ Closed

(* Any other answer leads back to the menu. *)
Abort ==
    /\ stage = "choice" /\ stage' = "menu"
    /\ \E n \in Answers \ (0 .. Len(offered)) : answered = {n}
    /\ UNCHANGED <<here, last>>
    /\ Closed

HistoryNext == Enter \/ Fail \/ Offer \/ Reply \/ Back \/ Follow \/ Abort

HistorySpec == HistoryInit /\ [][HistoryNext]_history
=============================================================================
