---------------------------- MODULE FigureRequest ----------------------------
(***************************************************************************)
(* The server of web/: each request for a figure opens a database          *)
(* connection of its own in a "with" block, fetches the finite elements    *)
(* and plots them.  The requests are threads of Flask's server.            *)
(*                                                                         *)
(* Any call of the driver may raise an exception of any class; what the    *)
(* program does then is decided by three handlers of different width, in   *)
(* __enter__, __exit__ and execute_raw_query.  Of a row only its identity  *)
(* is kept, and whether one of its coordinates is NULL.                    *)
(***************************************************************************)
EXTENDS Integers, Sequences, FiniteSets

CONSTANTS
    Requests,       \* the threads that serve requests
    Rows,           \* the rows the query may return,
    Incomplete,     \*   those with a NULL coordinate
    Tables,         \* the results the database may give
    MaxConnections, \* the most that the database accepts from this program
    None

ASSUME RequestAssumption ==
    /\ Incomplete \subseteq Rows
    /\ Tables \subseteq Seq(Rows)
    /\ IsFiniteSet(Requests) /\ MaxConnections \in Nat
    /\ None \notin [lazy : BOOLEAN, rows : Seq(Rows)]

VARIABLES
    server, schema, \* the application, and whether it has a database schema
    pc,
    conn,           \* CONNECTION; "lost" when the driver has dropped its socket
                    \*   during execute(), "lost_in_exit" when it has done so later
    failed,         \* (history) the calls of the driver that have raised
    exc,            \* the exception __exit__ was called with
    fetched,        \* the rows the cursor holds
    elements,       \* fetch_elements' result: lazy while it is a generator
    figure,         \* the rows that each trace of the figure was made from
    answer,
    abandoned       \* connections left open by requests that are over

config == <<server, schema>>
request == <<pc, conn, failed, exc, fetched, elements, figure, answer>>
vars == <<config, request, abandoned>>

Exceptions == {"Operational", "Programming", "Interface",  \* pymysql's
               "Other",     \* any other
               "Bare"}      \*   and one without arguments
Dropping == {"Operational", "Other", "Bare"}    \* raised along with a lost socket
Calls == {"connect", "cursor", "execute", "commit", "cursor_close"}
Opened == {r \in Requests : conn[r] = "open"}

-----------------------------------------------------------------------------
Init == /\ server = "starting" /\ schema = FALSE
        /\ pc = [r \in Requests |-> "idle"]
        /\ conn = [r \in Requests |-> "none"]
        /\ failed = [r \in Requests |-> {}]
        /\ exc = [r \in Requests |-> "none"]
        /\ fetched = [r \in Requests |-> << >>]
        /\ elements = [r \in Requests |-> None]
        /\ figure = [r \in Requests |-> << >>]
        /\ answer = [r \in Requests |-> "none"]
        /\ abandoned = 0

(* A request goes on, or is answered. *)
Go(r, at) == pc' = [pc EXCEPT ![r] = at] /\ UNCHANGED answer
Answer(r, text) == /\ pc' = [pc EXCEPT ![r] = "done"]
                   /\ answer' = [answer EXCEPT ![r] = text]

Fails(r, call) == failed' = [failed EXCEPT ![r] = @ \cup {call}]

(* With an error that tells of a broken connection, or of packets out of   *)
(* order, the driver drops the socket.                                     *)
MayDrop(r, e, lost) == \/ UNCHANGED conn
                       \/ e \in Dropping /\ conn' = [conn EXCEPT ![r] = lost]

(* A plausible mistake: the route answers with what the query returned. *)
Propagate_ReturnsNone(r, e) ==
    Answer(r, IF e \in {"Operational", "Programming"} THEN None ELSE "ERROR")

(* Out of execute_raw_query with an exception: two classes become None. *)
Propagate(r, e) ==
    Answer(r, IF e \in {"Operational", "Programming"} THEN "NO ELEMENTS" ELSE "ERROR")

(* Out of __enter__: two classes are swallowed, and the body returns None  *)
(* since CONNECTED is false; then __exit__ finds nothing to close.         *)
EnterFails(r, call, e) ==
    /\ Fails(r, call)
    /\ IF e \in {"Operational", "Interface"} THEN Answer(r, "NO ELEMENTS")
                                             ELSE Propagate(r, e)

-----------------------------------------------------------------------------
(***************************************************************************)
(* Plausible mistakes, each a replacement for the action its name begins   *)
(* with; none is part of Next.                                             *)
(***************************************************************************)
(* The connection is closed after the body, not in a "with" block. *)
Execute_ErrorSkipsExit(r) ==
    /\ pc[r] = "execute"
    /\ \/ \E table \in Tables :
             /\ fetched' = [fetched EXCEPT ![r] = table]
             /\ elements' = [elements EXCEPT ![r] = [lazy |-> TRUE, rows |-> table]]
             /\ Go(r, "commit")
             /\ UNCHANGED <<conn, failed, exc>>
       \/ \E e \in Exceptions :
             /\ Fails(r, "execute")
             /\ exc' = [exc EXCEPT ![r] = e]
             /\ Propagate(r, e)
             /\ UNCHANGED <<conn, fetched, elements>>
    /\ UNCHANGED <<config, figure, abandoned>>

(* The generator itself is plotted. *)
ListElements_KeepsGenerator(r) ==
    /\ pc[r] = "list"
    /\ Go(r, "polygons")
    /\ UNCHANGED <<config, conn, failed, exc, fetched, elements, figure, abandoned>>

(* A commit that fails is tried again. *)
Commit_Retries(r) ==
    /\ pc[r] = "commit"
    /\ \/ conn[r] = "open" /\ Go(r, "close_cursor") /\ UNCHANGED failed
       \/ Go(r, "commit") /\ Fails(r, "commit")
    /\ UNCHANGED <<config, conn, exc, fetched, elements, figure, abandoned>>

-----------------------------------------------------------------------------
(* The configuration is read when the package is imported: only a missing  *)
(* file leaves the program without a schema, other errors end it.          *)
Start ==
    /\ server = "starting"
    /\ \/ server' = "serving" /\ schema' \in BOOLEAN
       \/ server' = "crashed" /\ UNCHANGED schema
    /\ UNCHANGED <<request, abandoned>>

(* Of the other two routes only that they answer without a database. *)
GetOtherPage(r) ==
    /\ server = "serving" /\ pc[r] = "idle"
    /\ \/ Answer(r, IF schema THEN "SCHEMA" ELSE "NOT OK")
       \/ Answer(r, "404")
    /\ UNCHANGED <<config, conn, failed, exc, fetched, elements, figure, abandoned>>

GetFigure(r) ==
    /\ server = "serving" /\ pc[r] = "idle"
    /\ IF schema THEN Go(r, "connect") ELSE Answer(r, "NO SCHEMA")
    /\ UNCHANGED <<config, conn, failed, exc, fetched, elements, figure, abandoned>>

(* Beyond MaxConnections the database refuses, as it may at any time. *)
Connect(r) ==
    /\ pc[r] = "connect"
    /\ \/ /\ Cardinality(Opened) + abandoned < MaxConnections
          /\ conn' = [conn EXCEPT ![r] = "open"]
          /\ Go(r, "cursor")
          /\ UNCHANGED failed
       \/ /\ \E e \in Exceptions : EnterFails(r, "connect", e)
          /\ UNCHANGED conn
    /\ UNCHANGED <<config, exc, fetched, elements, figure, abandoned>>

MakeCursor(r) ==
    /\ pc[r] = "cursor"
    /\ \/ Go(r, "execute") /\ UNCHANGED failed
       \/ \E e \in Exceptions : EnterFails(r, "cursor", e)
    /\ UNCHANGED <<config, conn, exc, fetched, elements, figure, abandoned>>

(* fetchall reads what execute has put into the cursor.                    *)
Execute(r) ==
    /\ pc[r] = "execute"
    /\ Go(r, "commit")
    /\ \/ \E table \in Tables :
             /\ fetched' = [fetched EXCEPT ![r] = table]
             /\ elements' = [elements EXCEPT ![r] = [lazy |-> TRUE, rows |-> table]]
             /\ UNCHANGED <<conn, failed, exc>>
       \/ \E e \in Exceptions :
             /\ Fails(r, "execute")
             /\ exc' = [exc EXCEPT ![r] = e]
             /\ MayDrop(r, e, "lost")
             /\ UNCHANGED <<fetched, elements>>
    /\ UNCHANGED <<config, figure, abandoned>>

(***************************************************************************)
(* __exit__, with or without an exception from the body.  One raised here  *)
(* takes its place and leaves the rest undone.  Without a socket commit    *)
(* raises InterfaceError; with one it uses it, and may lose it.            *)
(***************************************************************************)
Commit(r) ==
    /\ pc[r] = "commit"
    /\ \/ /\ conn[r] = "open"
          /\ Go(r, "close_cursor")
          /\ UNCHANGED <<conn, failed>>
       \/ /\ conn[r] = "open"
          /\ Fails(r, "commit")
          /\ \E e \in Exceptions : Propagate(r, e) /\ MayDrop(r, e, "lost_in_exit")
       \/ /\ conn[r] = "lost"
          /\ Fails(r, "commit") /\ Propagate(r, "Interface")
          /\ UNCHANGED conn
    /\ UNCHANGED <<config, exc, fetched, elements, figure, abandoned>>

CloseCursor(r) ==
    /\ pc[r] = "close_cursor"
    /\ \/ Go(r, "close") /\ UNCHANGED <<conn, failed>>
       \/ /\ Fails(r, "cursor_close")
          /\ \E e \in Exceptions : Propagate(r, e) /\ MayDrop(r, e, "lost_in_exit")
    /\ UNCHANGED <<config, exc, fetched, elements, figure, abandoned>>

(* Then parse_cursor_exception takes the first argument of the exception,  *)
(* and an IndexError takes its place if there is none.                     *)
CloseConnection(r) ==
    /\ pc[r] = "close"
    /\ conn' = [conn EXCEPT ![r] = "closed"]
    /\ IF exc[r] = "none" THEN Go(r, "list")
       ELSE Propagate(r, IF exc[r] = "Bare" THEN "Other" ELSE exc[r])
    /\ UNCHANGED <<config, failed, exc, fetched, elements, figure, abandoned>>

ListElements(r) ==
    /\ pc[r] = "list"
    /\ elements' = [elements EXCEPT ![r] = [lazy |-> FALSE, rows |-> @.rows]]
    /\ Go(r, "polygons")
    /\ UNCHANGED <<config, conn, failed, exc, fetched, figure, abandoned>>

(* Reading from a generator exhausts it. *)
Pass(es) == [es EXCEPT !.rows = IF es.lazy THEN << >> ELSE @]

(* One pass for the abscissas and one for the ordinates. *)
PlotPolygons(r) ==
    /\ pc[r] = "polygons"
    /\ figure' = [figure EXCEPT ![r] = <<elements[r].rows, Pass(elements[r]).rows>>]
    /\ elements' = [elements EXCEPT ![r] = Pass(Pass(@))]
    /\ Go(r, "midpoints")
    /\ UNCHANGED <<config, conn, failed, exc, fetched, abandoned>>

(* One for the points, whose sums do not exist for a NULL, one for the     *)
(* labels.                                                                 *)
PlotMidpoints(r) ==
    /\ pc[r] = "midpoints"
    /\ IF \E i \in DOMAIN elements[r].rows : elements[r].rows[i] \in Incomplete
       THEN Answer(r, "ERROR") /\ UNCHANGED <<elements, figure>>
       ELSE /\ figure' = [figure EXCEPT ![r] =
                              @ \o <<elements[r].rows, Pass(elements[r]).rows>>]
            /\ elements' = [elements EXCEPT ![r] = Pass(Pass(@))]
            /\ Answer(r, "FIGURE")
    /\ UNCHANGED <<config, conn, failed, exc, fetched, abandoned>>

(* The answer is sent, and the thread may serve another request. *)
Finish(r) ==
    /\ pc[r] = "done"
    /\ pc' = [pc EXCEPT ![r] = "idle"]
    /\ conn' = [conn EXCEPT ![r] = "none"]
    /\ failed' = [failed EXCEPT ![r] = {}]
    /\ exc' = [exc EXCEPT ![r] = "none"]
    /\ fetched' = [fetched EXCEPT ![r] = << >>]
    /\ elements' = [elements EXCEPT ![r] = None]
    /\ figure' = [figure EXCEPT ![r] = << >>]
    /\ answer' = [answer EXCEPT ![r] = "none"]
    /\ abandoned' = abandoned + (IF conn[r] = "open" THEN 1 ELSE 0)
    /\ UNCHANGED config

(* The interpreter closes a connection that nothing refers to any more; it *)
(* is not obliged to, since Flask's debugger keeps the frames of an error. *)
Reclaim ==
    /\ \/ /\ \E r \in Requests : /\ pc[r] = "done" /\ conn[r] = "open"
                                 /\ conn' = [conn EXCEPT ![r] = "closed"]
          /\ UNCHANGED abandoned
       \/ abandoned > 0 /\ abandoned' = abandoned - 1 /\ UNCHANGED conn
    /\ UNCHANGED <<config, pc, failed, exc, fetched, elements, figure, answer>>

Stopped == server = "crashed" /\ UNCHANGED vars

Serve(r) ==
    \/ Connect(r) \/ MakeCursor(r) \/ Execute(r) \/ Commit(r) \/ CloseCursor(r)
    \/ CloseConnection(r) \/ ListElements(r) \/ PlotPolygons(r) \/ PlotMidpoints(r)
    \/ Finish(r)

Next == \/ Start \/ Reclaim \/ Stopped
        \/ \E r \in Requests : GetOtherPage(r) \/ GetFigure(r) \/ Serve(r)

Spec == Init /\ [][Next]_vars

(* Threads are scheduled and every call of the driver ends, if only with   *)
(* an exception.                                                           *)
Scheduled(r) == WF_vars(Serve(r))
FairSpec == Spec /\ \A r \in Requests : Scheduled(r)

-----------------------------------------------------------------------------
Answers == {"none", "SCHEMA", "NOT OK", "404", "NO SCHEMA", "NO ELEMENTS",
            "ERROR", "FIGURE"}

(* Every variable is in its range. *)
TypeOK ==
    /\ server \in {"starting", "serving", "crashed"}
    /\ schema \in BOOLEAN
    /\ pc \in [Requests -> {"idle", "connect", "cursor", "execute", "commit",
                            "close_cursor", "close", "list", "polygons",
                            "midpoints", "done"}]
    /\ conn \in [Requests -> {"none", "open", "lost", "lost_in_exit", "closed"}]
    /\ failed \in [Requests -> SUBSET Calls]
    /\ exc \in [Requests -> Exceptions \cup {"none"}]
    /\ fetched \in [Requests -> Seq(Rows)]
    /\ elements \in [Requests -> {None} \cup [lazy : BOOLEAN, rows : Seq(Rows)]]
    /\ figure \in [Requests -> Seq(Seq(Rows))]
    /\ answer \in [Requests -> Answers]
    /\ abandoned \in 0 .. MaxConnections

(***************************************************************************)
(* A request that is over, or has begun to plot, has closed its            *)
(* connection, unless it was cursor(), or commit() or close() in __exit__, *)
(* that failed: every other error, wherever it comes from, goes through    *)
(* close() (connect.py 26-56).  When the driver has dropped the socket in  *)
(* execute(), commit() raises too, and the request ends in an error even   *)
(* if execute_raw_query would have caught the first exception (query.py    *)
(* 42), as it does when the socket is lost in commit() itself.             *)
(***************************************************************************)
ConnectionsClosed ==
    \A r \in Requests :
        /\ pc[r] \in {"list", "polygons", "midpoints"} => conn[r] = "closed"
        /\ pc[r] = "done" /\ conn[r] = "open" =>
               failed[r] \cap {"cursor", "commit", "cursor_close"} # {}
        /\ pc[r] = "done" /\ conn[r] = "lost" => answer[r] = "ERROR"

(***************************************************************************)
(* A figure's four traces are made of all fetched rows in their order, all *)
(* of them complete, though the elements come from a generator over a      *)
(* cursor that is closed by then (routes.py 48-57, render.py 11-71); and   *)
(* without a figure there is a reason for it: a call of the driver that    *)
(* failed, or a row that has no midpoint.                                  *)
(***************************************************************************)
AnswerTells ==
    \A r \in Requests :
        /\ answer[r] = "FIGURE" =>
               /\ figure[r] = [trace \in 1 .. 4 |-> fetched[r]]
               /\ \A i \in DOMAIN fetched[r] : fetched[r][i] \notin Incomplete
               /\ failed[r] = {}
        /\ answer[r] = "NO ELEMENTS" => failed[r] # {}
        /\ answer[r] = "ERROR" =>
               \/ failed[r] # {}
               \/ \E i \in DOMAIN fetched[r] : fetched[r][i] \in Incomplete

(***************************************************************************)
(* Every request for a figure is answered, whatever the database does to   *)
(* it and to the others.                                                   *)
(***************************************************************************)
RequestsAnswered == \A r \in Requests : (pc[r] = "connect") ~> (pc[r] = "done")
=============================================================================
