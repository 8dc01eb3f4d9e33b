------------------------- MODULE FigureRequestProofs -------------------------
(***************************************************************************)
(* Proofs about the figure server, for any number of threads, any results  *)
(* of the query and any failures of the driver.                            *)
(***************************************************************************)
EXTENDS FigureRequest, FiniteSetTheorems, TLAPS

(***************************************************************************)
(* What is true of a request by its position alone: how far the connection *)
(* has come, that an exception has its cause in a failed call, and what    *)
(* the elements are.  The answer's reason is only visible at the end, so   *)
(* none of the properties is inductive without the rest.                   *)
(***************************************************************************)
ConnInv(r) ==
    /\ pc[r] \in {"idle", "connect"} => conn[r] = "none"
    /\ pc[r] \in {"cursor", "execute", "close_cursor", "close"} => conn[r] = "open"
    /\ pc[r] = "commit" => \/ conn[r] = "open"
                           \/ conn[r] = "lost" /\ exc[r] # "none"
    /\ pc[r] \in {"list", "polygons", "midpoints"} => conn[r] = "closed"

CauseInv(r) ==
    /\ exc[r] # "none" => failed[r] # {}
    /\ pc[r] \in {"idle", "connect", "cursor", "execute"} =>
           exc[r] = "none" /\ failed[r] = {}
    /\ pc[r] \in {"commit", "close_cursor", "close"} /\ exc[r] = "none" => failed[r] = {}
    /\ pc[r] \in {"list", "polygons", "midpoints"} => exc[r] = "none" /\ failed[r] = {}

Fetched(r, lazy) == elements[r] = [lazy |-> lazy, rows |-> fetched[r]]

PlotInv(r) ==
    /\ pc[r] \in {"commit", "close_cursor", "close", "list"} /\ exc[r] = "none" =>
           Fetched(r, TRUE)
    /\ pc[r] \in {"polygons", "midpoints"} => Fetched(r, FALSE)
    /\ pc[r] = "midpoints" => figure[r] = <<fetched[r], fetched[r]>>

Whole(r) == \A i \in DOMAIN fetched[r] : fetched[r][i] \notin Incomplete

DoneInv(r) ==
    /\ pc[r] # "done" => answer[r] = "none"
    /\ pc[r] = "done" /\ conn[r] = "open" =>
           failed[r] \cap {"cursor", "commit", "cursor_close"} # {}
    /\ pc[r] = "done" /\ conn[r] = "lost" => answer[r] = "ERROR"
    /\ answer[r] = "FIGURE" =>
           figure[r] = [trace \in 1 .. 4 |-> fetched[r]] /\ Whole(r) /\ failed[r] = {}
    /\ answer[r] = "NO ELEMENTS" => failed[r] # {}
    /\ answer[r] = "ERROR" => failed[r] # {} \/ ~Whole(r)

Local(r) == ConnInv(r) /\ CauseInv(r) /\ PlotInv(r) /\ DoneInv(r)

LimitInv == Cardinality(Opened) + abandoned <= MaxConnections

IInv == TypeOK /\ LimitInv /\ \A r \in Requests : Local(r)

(* A step of one thread leaves what belongs to the others alone.           *)
Spared(q) ==
    /\ pc'[q] = pc[q] /\ conn'[q] = conn[q] /\ failed'[q] = failed[q]
    /\ exc'[q] = exc[q] /\ fetched'[q] = fetched[q] /\ elements'[q] = elements[q]
    /\ figure'[q] = figure[q] /\ answer'[q] = answer[q]

LEMMA SparedLocal ==
    ASSUME NEW q \in Requests, Local(q), Spared(q)
    PROVE  Local(q)'
BY DEF Local, ConnInv, CauseInv, PlotInv, DoneInv, Spared, Fetched, Whole

LEMMA OpenedFinite == IsFiniteSet(Opened) /\ Cardinality(Opened) \in Nat
BY RequestAssumption, FS_Subset, FS_CardinalityType DEF Opened

(* Closing, losing or handing over a connection makes room for one. *)
LEMMA OneLess ==
    ASSUME NEW S, IsFiniteSet(S), NEW r \in S
    PROVE  Cardinality(S \ {r}) = Cardinality(S) - 1 /\ Cardinality(S) \in Nat
BY FS_RemoveElement, FS_CardinalityType

LEMMA OneMore ==
    ASSUME NEW S, IsFiniteSet(S), NEW r, r \notin S
    PROVE  Cardinality(S \cup {r}) = Cardinality(S) + 1 /\ Cardinality(S) \in Nat
BY FS_AddElement, FS_CardinalityType

-----------------------------------------------------------------------------
LEMMA InitIInv == Init => IInv
<1> SUFFICES ASSUME Init PROVE IInv
    OBVIOUS
<1>1. TypeOK
  <2>1. server \in {"starting", "serving", "crashed"} /\ schema \in BOOLEAN
    BY DEF Init
  <2>2. /\ pc \in [Requests -> {"idle"}] /\ conn \in [Requests -> {"none"}]
        /\ exc \in [Requests -> {"none"}] /\ answer \in [Requests -> {"none"}]
        /\ elements \in [Requests -> {None}]
    BY DEF Init
  <2>3. failed \in [Requests -> SUBSET Calls]
    BY DEF Init
  <2>4. fetched \in [Requests -> Seq(Rows)] /\ figure \in [Requests -> Seq(Seq(Rows))]
    BY DEF Init
  <2>5. abandoned \in 0 .. MaxConnections
    BY RequestAssumption DEF Init
  <2> QED BY <2>1, <2>2, <2>3, <2>4, <2>5 DEF TypeOK, Answers
<1>2. Opened = {}
  BY DEF Init, Opened
<1>3. LimitInv
  BY <1>2, FS_EmptySet, RequestAssumption DEF Init, LimitInv
<1>4. ASSUME NEW r \in Requests PROVE Local(r)
  BY DEF Init, Local, ConnInv, CauseInv, PlotInv, DoneInv
<1> QED BY <1>1, <1>3, <1>4 DEF IInv

(***************************************************************************)
(* What is left to show of a step of one thread.                           *)
(***************************************************************************)
LEMMA StepOfOne ==
    ASSUME IInv, NEW r \in Requests, TypeOK', LimitInv', Local(r)',
           \A q \in Requests \ {r} : Spared(q)
    PROVE  IInv'
<1>1. ASSUME NEW q \in Requests PROVE Local(q)'
  <2>1. CASE q = r
    BY <2>1
  <2>2. CASE q # r
    BY <2>2, SparedLocal DEF IInv
  <2> QED BY <2>1, <2>2
<1> QED BY <1>1 DEF IInv

(* Steps that open or close nothing. *)
LEMMA SameConnections ==
    ASSUME LimitInv, UNCHANGED <<conn, abandoned>>
    PROVE  LimitInv'
BY DEF LimitInv, Opened

(* Steps after which a request no longer has an open connection. *)
LEMMA OneGivenUp ==
    ASSUME LimitInv, TypeOK, NEW r \in Requests, NEW c,
           c # "open",
           conn' = [conn EXCEPT ![r] = c],
           \/ UNCHANGED abandoned
           \/ conn[r] = "open" /\ abandoned' = abandoned + 1
    PROVE  LimitInv'
<1>1. Opened' = Opened \ {r}
  BY DEF TypeOK, Opened
<1>2. abandoned \in Nat /\ MaxConnections \in Nat
  BY RequestAssumption DEF TypeOK
<1>3. CASE r \in Opened
  <2>1. Cardinality(Opened \ {r}) = Cardinality(Opened) - 1 /\ Cardinality(Opened) \in Nat
    BY <1>3, OpenedFinite, OneLess
  <2>2. abandoned' \in {abandoned, abandoned + 1}
    OBVIOUS
  <2> QED BY <1>1, <1>2, <2>1, <2>2 DEF LimitInv
<1>4. CASE r \notin Opened
  <2>1. Opened \ {r} = Opened /\ UNCHANGED abandoned
    BY <1>4 DEF Opened
  <2> QED BY <1>1, <1>2, <2>1, OpenedFinite DEF LimitInv
<1> QED BY <1>3, <1>4

(***************************************************************************)
(* A call of the driver raises, and the request is over: the four actions  *)
(* in which this happens differ in what they allow the answer to be, and   *)
(* in whether the socket may be lost.                                      *)
(***************************************************************************)
Falls(r, call, a) ==
    /\ pc' = [pc EXCEPT ![r] = "done"]
    /\ answer' = [answer EXCEPT ![r] = a]
    /\ failed' = [failed EXCEPT ![r] = failed[r] \cup {call}]
    /\ \/ UNCHANGED conn
       \/ /\ call \in {"commit", "cursor_close"}
          /\ conn' = [conn EXCEPT ![r] = "lost_in_exit"]
    /\ UNCHANGED <<server, schema, exc, fetched, elements, figure, abandoned>>

LEMMA FallStep ==
    ASSUME IInv, NEW r \in Requests, NEW call \in Calls,
           NEW a \in {"NO ELEMENTS", "ERROR"},
           Falls(r, call, a),
           pc[r] # "done",
           conn[r] = "open" => call \in {"cursor", "commit", "cursor_close"},
           conn[r] = "lost" => a = "ERROR"
    PROVE  IInv'
<1>1. failed[r] \cup {call} \in SUBSET Calls
  BY DEF IInv, TypeOK
<1>2. failed' \in [Requests -> SUBSET Calls]
  BY <1>1 DEF IInv, TypeOK, Falls
<1>3. pc' \in [Requests -> {"idle", "connect", "cursor", "execute", "commit",
                            "close_cursor", "close", "list", "polygons",
                            "midpoints", "done"}]
  BY DEF IInv, TypeOK, Falls
<1>4. answer' \in [Requests -> Answers]
  BY DEF IInv, TypeOK, Answers, Falls
<1>5. TypeOK'
  <2>1. conn' \in [Requests -> {"none", "open", "lost", "lost_in_exit", "closed"}]
    BY DEF IInv, TypeOK, Falls
  <2> QED BY <1>2, <1>3, <1>4, <2>1 DEF IInv, TypeOK, Falls
<1>6. LimitInv'
  BY SameConnections, OneGivenUp DEF IInv, Falls
<1>7. /\ pc'[r] = "done" /\ answer'[r] = a /\ failed'[r] = failed[r] \cup {call}
      /\ conn'[r] \in {conn[r], "lost_in_exit"}
  BY DEF Falls, IInv, TypeOK
<1>8. failed'[r] # {} /\ call \in failed'[r]
  BY <1>7
<1>9. ConnInv(r)' /\ CauseInv(r)' /\ PlotInv(r)'
  BY <1>7, <1>8 DEF ConnInv, CauseInv, PlotInv
<1>10. DoneInv(r)'
  BY <1>7, <1>8 DEF DoneInv, Falls
<1>11. \A q \in Requests \ {r} : Spared(q)
  BY DEF IInv, TypeOK, Spared, Falls
<1> QED BY <1>5, <1>6, <1>9, <1>10, <1>11, StepOfOne DEF Local

-----------------------------------------------------------------------------
(* One lemma per action.                                                   *)

LEMMA GetOtherPageStep ==
    ASSUME IInv, NEW r \in Requests, GetOtherPage(r) PROVE IInv'
<1> USE DEF GetOtherPage, Answer, config
<1>1. TypeOK'
  BY DEF IInv, TypeOK, Answers
<1>2. LimitInv'
  BY SameConnections DEF IInv
<1>3. Local(r)'
  BY DEF IInv, TypeOK, Local, ConnInv, CauseInv, PlotInv, DoneInv, Whole
<1>4. \A q \in Requests \ {r} : Spared(q)
  BY DEF IInv, TypeOK, Spared
<1> QED BY <1>1, <1>2, <1>3, <1>4, StepOfOne

LEMMA GetFigureStep ==
    ASSUME IInv, NEW r \in Requests, GetFigure(r) PROVE IInv'
<1> USE DEF GetFigure, Go, Answer, config
<1>1. TypeOK'
  BY DEF IInv, TypeOK, Answers
<1>2. LimitInv'
  BY SameConnections DEF IInv
<1>3. Local(r)'
  BY DEF IInv, TypeOK, Local, ConnInv, CauseInv, PlotInv, DoneInv, Whole
<1>4. \A q \in Requests \ {r} : Spared(q)
  BY DEF IInv, TypeOK, Spared
<1> QED BY <1>1, <1>2, <1>3, <1>4, StepOfOne

LEMMA ConnectStep ==
    ASSUME IInv, NEW r \in Requests, Connect(r) PROVE IInv'
<1>1. CASE UNCHANGED conn
  <2>1. PICK e \in Exceptions : EnterFails(r, "connect", e)
    <3>1. conn' # [conn EXCEPT ![r] = "open"]
      BY <1>1 DEF Connect, IInv, TypeOK, Local, ConnInv
    <3> QED BY <3>1 DEF Connect
  <2>2. \E a \in {"NO ELEMENTS", "ERROR"} : Falls(r, "connect", a)
    BY <1>1, <2>1 DEF Connect, EnterFails, Fails, Propagate, Answer, Falls, config
  <2>3. pc[r] = "connect" /\ conn[r] = "none"
    BY DEF Connect, IInv, Local, ConnInv
  <2> QED BY <2>2, <2>3, FallStep DEF Calls
<1>2. CASE /\ Cardinality(Opened) + abandoned < MaxConnections
           /\ conn' = [conn EXCEPT ![r] = "open"]
           /\ Go(r, "cursor")
           /\ UNCHANGED failed
  <2> USE DEF Connect, Go, config
  <2>1. TypeOK'
    BY <1>2 DEF IInv, TypeOK
  <2>2. r \notin Opened
    BY DEF IInv, Local, ConnInv, Opened
  <2>3. Opened' = Opened \cup {r}
    BY <1>2 DEF IInv, TypeOK, Opened
  <2>4. Cardinality(Opened \cup {r}) = Cardinality(Opened) + 1
    BY <2>2, OpenedFinite, OneMore
  <2>5. abandoned \in Nat /\ MaxConnections \in Nat
    BY RequestAssumption DEF IInv, TypeOK
  <2>6. abandoned' = abandoned
    OBVIOUS
  <2>7. Cardinality(Opened) + 1 + abandoned <= MaxConnections
    BY <1>2, <2>5, OpenedFinite
  <2>8. LimitInv'
    BY <2>3, <2>4, <2>6, <2>7 DEF LimitInv
  <2>9. Local(r)'
    BY <1>2 DEF IInv, TypeOK, Local, ConnInv, CauseInv, PlotInv, DoneInv, Whole
  <2>10. \A q \in Requests \ {r} : Spared(q)
    BY <1>2 DEF IInv, TypeOK, Spared
  <2> QED BY <2>1, <2>8, <2>9, <2>10, StepOfOne
<1> QED BY <1>1, <1>2 DEF Connect

LEMMA MakeCursorStep ==
    ASSUME IInv, NEW r \in Requests, MakeCursor(r) PROVE IInv'
<1>1. CASE \E e \in Exceptions : EnterFails(r, "cursor", e)
  <2>1. \E a \in {"NO ELEMENTS", "ERROR"} : Falls(r, "cursor", a)
    BY <1>1 DEF MakeCursor, EnterFails, Fails, Propagate, Answer, Falls, config
  <2>2. pc[r] = "cursor" /\ conn[r] = "open"
    BY DEF MakeCursor, IInv, Local, ConnInv
  <2> QED BY <2>1, <2>2, FallStep DEF Calls
<1>2. CASE Go(r, "execute") /\ UNCHANGED failed
  <2> USE DEF MakeCursor, Go, config
  <2>1. TypeOK'
    BY <1>2 DEF IInv, TypeOK
  <2>2. LimitInv'
    BY SameConnections DEF IInv
  <2>3. Local(r)'
    BY <1>2 DEF IInv, TypeOK, Local, ConnInv, CauseInv, PlotInv, DoneInv, Whole
  <2>4. \A q \in Requests \ {r} : Spared(q)
    BY <1>2 DEF IInv, TypeOK, Spared
  <2> QED BY <2>1, <2>2, <2>3, <2>4, StepOfOne
<1> QED BY <1>1, <1>2 DEF MakeCursor

LEMMA ExecuteStep ==
    ASSUME IInv, NEW r \in Requests, Execute(r) PROVE IInv'
<1>0. pc[r] = "execute" /\ conn[r] = "open" /\ failed[r] = {} /\ exc[r] = "none"
  BY DEF Execute, IInv, Local, ConnInv, CauseInv
<1>1. /\ pc' = [pc EXCEPT ![r] = "commit"]
      /\ UNCHANGED <<answer, server, schema, figure, abandoned>>
  BY DEF Execute, Go, config
<1>2. pc' \in [Requests -> {"idle", "connect", "cursor", "execute", "commit",
                            "close_cursor", "close", "list", "polygons",
                            "midpoints", "done"}]
  BY <1>1 DEF IInv, TypeOK
<1>3. ASSUME NEW table \in Tables,
             fetched' = [fetched EXCEPT ![r] = table],
             elements' = [elements EXCEPT ![r] = [lazy |-> TRUE, rows |-> table]],
             UNCHANGED <<conn, failed, exc>>
      PROVE  IInv'
  <2>1. table \in Seq(Rows) /\ [lazy |-> TRUE, rows |-> table] \in [lazy : BOOLEAN, rows : Seq(Rows)]
    BY RequestAssumption
  <2>2. fetched' \in [Requests -> Seq(Rows)]
    BY <1>3, <2>1 DEF IInv, TypeOK
  <2>3. elements' \in [Requests -> {None} \cup [lazy : BOOLEAN, rows : Seq(Rows)]]
    BY <1>3, <2>1 DEF IInv, TypeOK
  <2>4. TypeOK'
    BY <1>1, <1>2, <1>3, <2>2, <2>3 DEF IInv, TypeOK
  <2>5. LimitInv'
    BY <1>1, <1>3, SameConnections DEF IInv
  <2>6. /\ pc'[r] = "commit" /\ fetched'[r] = table
        /\ elements'[r] = [lazy |-> TRUE, rows |-> table]
    BY <1>1, <1>3 DEF IInv, TypeOK
  <2>7. Local(r)'
    BY <1>0, <1>1, <1>3, <2>6
       DEF IInv, Local, ConnInv, CauseInv, PlotInv, DoneInv, Fetched
  <2>8. \A q \in Requests \ {r} : Spared(q)
    BY <1>1, <1>3 DEF IInv, TypeOK, Spared
  <2> QED BY <2>4, <2>5, <2>7, <2>8, StepOfOne
<1>4. ASSUME NEW e \in Exceptions,
             Fails(r, "execute"),
             exc' = [exc EXCEPT ![r] = e],
             UNCHANGED conn \/ conn' = [conn EXCEPT ![r] = "lost"],
             UNCHANGED <<fetched, elements>>
      PROVE  IInv'
  <2>1. failed' = [failed EXCEPT ![r] = {"execute"}]
    BY <1>0, <1>4 DEF Fails, IInv, TypeOK
  <2>2. failed' \in [Requests -> SUBSET Calls]
    BY <2>1 DEF IInv, TypeOK, Calls
  <2>3. exc' \in [Requests -> Exceptions \cup {"none"}]
    BY <1>4 DEF IInv, TypeOK
  <2>4. conn' \in [Requests -> {"none", "open", "lost", "lost_in_exit", "closed"}]
    BY <1>4 DEF IInv, TypeOK
  <2>5. TypeOK'
    BY <1>1, <1>2, <1>4, <2>2, <2>3, <2>4 DEF IInv, TypeOK
  <2>6. LimitInv'
    BY <1>1, <1>4, SameConnections, OneGivenUp DEF IInv
  <2>7. /\ pc'[r] = "commit" /\ exc'[r] = e /\ e # "none"
        /\ failed'[r] = {"execute"} /\ conn'[r] \in {"open", "lost"}
    BY <1>0, <1>1, <1>4, <2>1 DEF IInv, TypeOK, Exceptions
  <2>8. Local(r)'
    BY <1>0, <1>1, <2>7 DEF IInv, Local, ConnInv, CauseInv, PlotInv, DoneInv
  <2>9. \A q \in Requests \ {r} : Spared(q)
    BY <1>1, <1>4, <2>1 DEF IInv, TypeOK, Spared
  <2> QED BY <2>5, <2>6, <2>8, <2>9, StepOfOne
<1> QED BY <1>3, <1>4 DEF Execute, MayDrop

LEMMA CommitStep ==
    ASSUME IInv, NEW r \in Requests, Commit(r) PROVE IInv'
<1>1. /\ pc[r] = "commit" /\ conn[r] \in {"open", "lost"}
      /\ UNCHANGED <<server, schema, exc, fetched, elements, figure, abandoned>>
  BY DEF Commit, config, IInv, Local, ConnInv
<1>2. CASE /\ conn[r] = "open"
           /\ Fails(r, "commit")
           /\ \E e \in Exceptions : Propagate(r, e) /\ MayDrop(r, e, "lost_in_exit")
  <2>1. \E a \in {"NO ELEMENTS", "ERROR"} : Falls(r, "commit", a)
    BY <1>1, <1>2 DEF Fails, Propagate, MayDrop, Answer, Falls
  <2> QED BY <1>1, <1>2, <2>1, FallStep DEF Calls
<1>3. CASE conn[r] = "lost" /\ Fails(r, "commit") /\ Propagate(r, "Interface") /\ UNCHANGED conn
  <2>1. Falls(r, "commit", "ERROR")
    BY <1>1, <1>3 DEF Fails, Propagate, Answer, Falls
  <2> QED BY <1>1, <2>1, FallStep DEF Calls
<1>4. CASE conn[r] = "open" /\ Go(r, "close_cursor") /\ UNCHANGED <<conn, failed>>
  <2> USE DEF Go
  <2>1. TypeOK'
    BY <1>1, <1>4 DEF IInv, TypeOK
  <2>2. LimitInv'
    BY <1>1, <1>4, SameConnections DEF IInv
  <2>3. Local(r)'
    BY <1>1, <1>4
       DEF IInv, TypeOK, Local, ConnInv, CauseInv, PlotInv, DoneInv, Whole, Fetched
  <2>4. \A q \in Requests \ {r} : Spared(q)
    BY <1>1, <1>4 DEF IInv, TypeOK, Spared
  <2> QED BY <2>1, <2>2, <2>3, <2>4, StepOfOne
<1> QED BY <1>2, <1>3, <1>4 DEF Commit

LEMMA CloseCursorStep ==
    ASSUME IInv, NEW r \in Requests, CloseCursor(r) PROVE IInv'
<1>1. /\ pc[r] = "close_cursor" /\ conn[r] = "open"
      /\ UNCHANGED <<server, schema, exc, fetched, elements, figure, abandoned>>
  BY DEF CloseCursor, config, IInv, Local, ConnInv
<1>2. CASE /\ Fails(r, "cursor_close")
           /\ \E e \in Exceptions : Propagate(r, e) /\ MayDrop(r, e, "lost_in_exit")
  <2>1. \E a \in {"NO ELEMENTS", "ERROR"} : Falls(r, "cursor_close", a)
    BY <1>1, <1>2 DEF Fails, Propagate, MayDrop, Answer, Falls
  <2> QED BY <1>1, <2>1, FallStep DEF Calls
<1>3. CASE Go(r, "close") /\ UNCHANGED <<conn, failed>>
  <2> USE DEF Go
  <2>1. TypeOK'
    BY <1>1, <1>3 DEF IInv, TypeOK
  <2>2. LimitInv'
    BY <1>1, <1>3, SameConnections DEF IInv
  <2>3. Local(r)'
    BY <1>1, <1>3
       DEF IInv, TypeOK, Local, ConnInv, CauseInv, PlotInv, DoneInv, Whole, Fetched
  <2>4. \A q \in Requests \ {r} : Spared(q)
    BY <1>1, <1>3 DEF IInv, TypeOK, Spared
  <2> QED BY <2>1, <2>2, <2>3, <2>4, StepOfOne
<1> QED BY <1>2, <1>3 DEF CloseCursor

LEMMA CloseConnectionStep ==
    ASSUME IInv, NEW r \in Requests, CloseConnection(r) PROVE IInv'
<1>1. /\ pc[r] = "close" /\ conn[r] = "open"
      /\ conn' = [conn EXCEPT ![r] = "closed"]
      /\ UNCHANGED <<server, schema, failed, exc, fetched, elements, figure, abandoned>>
  BY DEF CloseConnection, config, IInv, Local, ConnInv
<1>2. /\ conn' \in [Requests -> {"none", "open", "lost", "lost_in_exit", "closed"}]
      /\ conn'[r] = "closed"
  BY <1>1 DEF IInv, TypeOK
<1>3. LimitInv'
  BY <1>1, OneGivenUp DEF IInv
<1>4. CASE exc[r] = "none"
  <2>1. pc' = [pc EXCEPT ![r] = "list"] /\ UNCHANGED answer
    BY <1>4 DEF CloseConnection, Go
  <2>2. TypeOK'
    BY <1>1, <1>2, <2>1 DEF IInv, TypeOK
  <2>3. pc'[r] = "list"
    BY <2>1 DEF IInv, TypeOK
  <2>4. Local(r)'
    BY <1>1, <1>2, <1>4, <2>1, <2>3
       DEF IInv, Local, ConnInv, CauseInv, PlotInv, DoneInv, Fetched
  <2>5. \A q \in Requests \ {r} : Spared(q)
    BY <1>1, <2>1 DEF IInv, TypeOK, Spared
  <2> QED BY <1>3, <2>2, <2>4, <2>5, StepOfOne
<1>5. CASE exc[r] # "none"
  <2>1. PICK a \in {"NO ELEMENTS", "ERROR"} : Answer(r, a)
    BY <1>5 DEF CloseConnection, Propagate
  <2>2. pc' = [pc EXCEPT ![r] = "done"] /\ answer' = [answer EXCEPT ![r] = a]
    BY <2>1 DEF Answer
  <2>3. answer' \in [Requests -> Answers]
    BY <2>2 DEF IInv, TypeOK, Answers
  <2>4. TypeOK'
    BY <1>1, <1>2, <2>2, <2>3 DEF IInv, TypeOK
  <2>5. pc'[r] = "done" /\ answer'[r] = a /\ failed'[r] # {}
    BY <1>1, <1>5, <2>2 DEF IInv, TypeOK, Local, CauseInv
  <2>6. Local(r)'
    BY <1>2, <2>5 DEF Local, ConnInv, CauseInv, PlotInv, DoneInv
  <2>7. \A q \in Requests \ {r} : Spared(q)
    BY <1>1, <2>2 DEF IInv, TypeOK, Spared
  <2> QED BY <1>3, <2>4, <2>6, <2>7, StepOfOne
<1> QED BY <1>4, <1>5

LEMMA ListElementsStep ==
    ASSUME IInv, NEW r \in Requests, ListElements(r) PROVE IInv'
<1> USE DEF ListElements, Go, config
<1>1. elements[r] = [lazy |-> TRUE, rows |-> fetched[r]]
  BY DEF IInv, Local, CauseInv, PlotInv, Fetched
<1>2. elements' = [elements EXCEPT ![r] = [lazy |-> FALSE, rows |-> fetched[r]]]
  BY <1>1
<1>3. TypeOK'
  <2>1. [lazy |-> FALSE, rows |-> fetched[r]] \in [lazy : BOOLEAN, rows : Seq(Rows)]
    BY DEF IInv, TypeOK
  <2> QED BY <1>2, <2>1 DEF IInv, TypeOK
<1>4. LimitInv'
  BY SameConnections DEF IInv
<1>5. Local(r)'
  BY <1>2 DEF IInv, TypeOK, Local, ConnInv, CauseInv, PlotInv, DoneInv, Whole, Fetched
<1>6. \A q \in Requests \ {r} : Spared(q)
  BY DEF IInv, TypeOK, Spared
<1> QED BY <1>3, <1>4, <1>5, <1>6, StepOfOne

(* A tuple can be read as often as one likes. *)
LEMMA PassOfTuple ==
    ASSUME NEW rows PROVE LET es == [lazy |-> FALSE, rows |-> rows] IN Pass(es) = es
BY DEF Pass

LEMMA PlotPolygonsStep ==
    ASSUME IInv, NEW r \in Requests, PlotPolygons(r) PROVE IInv'
<1>1. elements[r] = [lazy |-> FALSE, rows |-> fetched[r]]
  BY DEF PlotPolygons, IInv, Local, PlotInv, Fetched
<1>2. Pass(elements[r]) = elements[r] /\ elements[r].rows = fetched[r]
  BY <1>1, PassOfTuple
<1>3. /\ elements' = [elements EXCEPT ![r] = elements[r]]
      /\ figure' = [figure EXCEPT ![r] = <<fetched[r], fetched[r]>>]
  BY <1>2 DEF PlotPolygons
<1> USE DEF PlotPolygons, Go, config
<1>4. TypeOK'
  <2>1. <<fetched[r], fetched[r]>> \in Seq(Seq(Rows))
    BY DEF IInv, TypeOK
  <2>2. figure' \in [Requests -> Seq(Seq(Rows))]
    BY <1>3, <2>1 DEF IInv, TypeOK
  <2>3. elements' = elements
    BY <1>3 DEF IInv, TypeOK
  <2> QED BY <2>2, <2>3 DEF IInv, TypeOK
<1>5. LimitInv'
  BY SameConnections DEF IInv
<1>6. Local(r)'
  BY <1>3 DEF IInv, TypeOK, Local, ConnInv, CauseInv, PlotInv, DoneInv, Whole, Fetched
<1>7. \A q \in Requests \ {r} : Spared(q)
  BY DEF IInv, TypeOK, Spared
<1> QED BY <1>4, <1>5, <1>6, <1>7, StepOfOne

LEMMA PlotMidpointsStep ==
    ASSUME IInv, NEW r \in Requests, PlotMidpoints(r) PROVE IInv'
<1>1. elements[r] = [lazy |-> FALSE, rows |-> fetched[r]]
  BY DEF PlotMidpoints, IInv, Local, PlotInv, Fetched
<1>2. Pass(elements[r]) = elements[r] /\ elements[r].rows = fetched[r]
  BY <1>1, PassOfTuple
<1>3. figure[r] = <<fetched[r], fetched[r]>> /\ fetched[r] \in Seq(Rows)
  BY DEF PlotMidpoints, IInv, Local, PlotInv, TypeOK
<1>4. figure[r] \o <<fetched[r], fetched[r]>> = [trace \in 1 .. 4 |-> fetched[r]]
  BY <1>3
<1>5. [trace \in 1 .. 4 |-> fetched[r]] \in Seq(Seq(Rows))
  BY <1>3
<1>6. \/ /\ ~Whole(r)
         /\ Answer(r, "ERROR") /\ UNCHANGED <<elements, figure>>
      \/ /\ Whole(r)
         /\ elements' = [elements EXCEPT ![r] = elements[r]]
         /\ figure' = [figure EXCEPT ![r] = [trace \in 1 .. 4 |-> fetched[r]]]
         /\ Answer(r, "FIGURE")
  BY <1>2, <1>4 DEF PlotMidpoints, Whole
<1>7. pc[r] = "midpoints" /\ UNCHANGED <<config, conn, failed, exc, fetched, abandoned>>
  BY DEF PlotMidpoints
<1> USE DEF Answer, config
<1>8. TypeOK'
  <2>1. answer' \in [Requests -> Answers]
    BY <1>6 DEF IInv, TypeOK, Answers
  <2>2. figure' \in [Requests -> Seq(Seq(Rows))]
    BY <1>5, <1>6 DEF IInv, TypeOK
  <2>3. elements' = elements
    BY <1>6 DEF IInv, TypeOK
  <2> QED BY <1>6, <1>7, <2>1, <2>2, <2>3 DEF IInv, TypeOK
<1>9. LimitInv'
  BY <1>7, SameConnections DEF IInv
<1>10. Local(r)'
  <2>1. Whole(r)' <=> Whole(r)
    BY <1>7 DEF Whole
  <2>2. pc'[r] = "done" /\ conn'[r] = "closed" /\ failed'[r] = {} /\ exc'[r] = "none"
    BY <1>6, <1>7 DEF IInv, TypeOK, Local, ConnInv, CauseInv
  <2>3. CASE ~Whole(r) /\ answer' = [answer EXCEPT ![r] = "ERROR"]
    <3>1. answer'[r] = "ERROR"
      BY <2>3 DEF IInv, TypeOK
    <3> QED BY <2>1, <2>2, <2>3, <3>1 DEF Local, ConnInv, CauseInv, PlotInv, DoneInv
  <2>4. CASE /\ Whole(r) /\ answer' = [answer EXCEPT ![r] = "FIGURE"]
             /\ figure' = [figure EXCEPT ![r] = [trace \in 1 .. 4 |-> fetched[r]]]
    <3>1. answer'[r] = "FIGURE" /\ figure'[r] = [trace \in 1 .. 4 |-> fetched[r]]
      BY <2>4 DEF IInv, TypeOK
    <3> QED BY <1>7, <2>1, <2>2, <2>4, <3>1 DEF Local, ConnInv, CauseInv, PlotInv, DoneInv
  <2> QED BY <1>6, <2>3, <2>4
<1>11. \A q \in Requests \ {r} : Spared(q)
  BY <1>6, <1>7 DEF IInv, TypeOK, Spared
<1> QED BY <1>8, <1>9, <1>10, <1>11, StepOfOne

LEMMA FinishStep ==
    ASSUME IInv, NEW r \in Requests, Finish(r) PROVE IInv'
<1> USE DEF Finish, config
<1>1. abandoned' \in 0 .. MaxConnections
  <2>1. CASE conn[r] = "open"
    <3>1. r \in Opened
      BY <2>1 DEF Opened
    <3>2. Cardinality(Opened) # 0
      BY <3>1, OpenedFinite, FS_EmptySet
    <3> QED BY <2>1, <3>2, OpenedFinite, RequestAssumption DEF IInv, TypeOK, LimitInv
  <2>2. CASE conn[r] # "open"
    BY <2>2, RequestAssumption DEF IInv, TypeOK
  <2> QED BY <2>1, <2>2
<1>2. TypeOK'
  <2>1. << >> \in Seq(Rows) /\ << >> \in Seq(Seq(Rows))
    OBVIOUS
  <2> QED BY <1>1, <2>1 DEF IInv, TypeOK, Answers
<1>3. LimitInv'
  <2>1. UNCHANGED abandoned \/ (conn[r] = "open" /\ abandoned' = abandoned + 1)
    BY RequestAssumption DEF IInv, TypeOK
  <2> QED BY <2>1, OneGivenUp DEF IInv
<1>4. Local(r)'
  BY DEF IInv, TypeOK, Local, ConnInv, CauseInv, PlotInv, DoneInv, Whole
<1>5. \A q \in Requests \ {r} : Spared(q)
  BY DEF IInv, TypeOK, Spared
<1> QED BY <1>2, <1>3, <1>4, <1>5, StepOfOne

LEMMA ReclaimStep ==
    ASSUME IInv, Reclaim PROVE IInv'
<1> USE DEF Reclaim, config
<1>1. CASE abandoned > 0 /\ abandoned' = abandoned - 1 /\ UNCHANGED conn
  <2>1. TypeOK'
    BY <1>1, RequestAssumption DEF IInv, TypeOK
  <2>2. Opened' = Opened
    BY <1>1 DEF Opened
  <2>3. LimitInv'
    BY <1>1, <2>2, OpenedFinite, RequestAssumption DEF IInv, TypeOK, LimitInv
  <2>4. ASSUME NEW q \in Requests PROVE Spared(q)
    BY <1>1 DEF Spared
  <2>5. ASSUME NEW q \in Requests PROVE Local(q)'
    BY <2>4, SparedLocal DEF IInv
  <2> QED BY <2>1, <2>3, <2>5 DEF IInv
<1>2. ASSUME NEW r \in Requests, pc[r] = "done", conn[r] = "open",
             conn' = [conn EXCEPT ![r] = "closed"], UNCHANGED abandoned
      PROVE  IInv'
  <2>1. TypeOK'
    BY <1>2 DEF IInv, TypeOK
  <2>2. LimitInv'
    BY <1>2, OneGivenUp DEF IInv
  <2>3. Local(r)'
    BY <1>2 DEF IInv, TypeOK, Local, ConnInv, CauseInv, PlotInv, DoneInv, Whole, Fetched
  <2>4. \A q \in Requests \ {r} : Spared(q)
    BY <1>2 DEF IInv, TypeOK, Spared
  <2> QED BY <2>1, <2>2, <2>3, <2>4, StepOfOne
<1> QED BY <1>1, <1>2

(* The server's own start, and stuttering. *)
LEMMA QuietStep ==
    ASSUME IInv, UNCHANGED <<request, abandoned>>,
           server' \in {"starting", "serving", "crashed"}, schema' \in BOOLEAN
    PROVE  IInv'
<1>1. TypeOK'
  BY DEF IInv, TypeOK, request
<1>2. LimitInv'
  BY SameConnections DEF IInv, request
<1>3. ASSUME NEW q \in Requests PROVE Spared(q)
  BY DEF Spared, request
<1>4. ASSUME NEW q \in Requests PROVE Local(q)'
  BY <1>3, SparedLocal DEF IInv
<1> QED BY <1>1, <1>2, <1>4 DEF IInv

LEMMA NextIInv == IInv /\ [Next]_vars => IInv'
<1> SUFFICES ASSUME IInv, [Next]_vars PROVE IInv'
    OBVIOUS
<1>1. CASE Start
  BY <1>1, QuietStep DEF Start, IInv, TypeOK
<1>2. CASE Reclaim
  BY <1>2, ReclaimStep
<1>3. CASE Stopped \/ UNCHANGED vars
  BY <1>3, QuietStep DEF Stopped, vars, config, IInv, TypeOK
<1>4. ASSUME NEW r \in Requests, GetOtherPage(r) \/ GetFigure(r) PROVE IInv'
  BY <1>4, GetOtherPageStep, GetFigureStep
<1>5. ASSUME NEW r \in Requests, Serve(r) PROVE IInv'
  BY <1>5, ConnectStep, MakeCursorStep, ExecuteStep, CommitStep, CloseCursorStep,
     CloseConnectionStep, ListElementsStep, PlotPolygonsStep, PlotMidpointsStep,
     FinishStep
     DEF Serve
<1> QED BY <1>1, <1>2, <1>3, <1>4, <1>5 DEF Next

(* The strengthened invariant. *)
THEOREM Invariance == Spec => []IInv
BY InitIInv, NextIInv, PTL DEF Spec

-----------------------------------------------------------------------------
(***************************************************************************)
(* Every variable is in its range; the connections left open are no more   *)
(* than the database accepts.                                              *)
(***************************************************************************)
THEOREM TypeCorrect == Spec => []TypeOK
<1>1. IInv => TypeOK
  BY DEF IInv
<1> QED BY <1>1, Invariance, PTL

(***************************************************************************)
(* Only a failure of cursor(), or of __exit__ itself, leaves a connection  *)
(* open, and plotting begins with it closed (connect.py 26-56); a socket   *)
(* lost in execute() ends in an error page, whatever the driver raises.    *)
(***************************************************************************)
THEOREM ClosesConnections == Spec => []ConnectionsClosed
<1>1. IInv => ConnectionsClosed
  BY DEF IInv, Local, ConnInv, DoneInv, ConnectionsClosed
<1> QED BY <1>1, Invariance, PTL

(***************************************************************************)
(* A figure shows all rows in every trace, and any other answer to a       *)
(* request that had a schema has its cause (routes.py 48-57).              *)
(***************************************************************************)
THEOREM TellsTheTruth == Spec => []AnswerTells
<1>1. IInv => AnswerTells
  BY DEF IInv, Local, DoneInv, Whole, AnswerTells
<1> QED BY <1>1, Invariance, PTL

-----------------------------------------------------------------------------
(* Every request is answered. *)

(* Where a request goes from where it is. *)
Onward(r) ==
    \/ pc[r] = "connect" /\ pc'[r] \in {"cursor", "done"}
    \/ pc[r] = "cursor" /\ pc'[r] \in {"execute", "done"}
    \/ pc[r] = "execute" /\ pc'[r] = "commit"
    \/ pc[r] = "commit" /\ pc'[r] \in {"close_cursor", "done"}
    \/ pc[r] = "close_cursor" /\ pc'[r] \in {"close", "done"}
    \/ pc[r] = "close" /\ pc'[r] \in {"list", "done"}
    \/ pc[r] = "list" /\ pc'[r] = "polygons"
    \/ pc[r] = "polygons" /\ pc'[r] = "midpoints"
    \/ pc[r] = "midpoints" /\ pc'[r] = "done"
    \/ pc[r] = "done"

LEMMA ServeGoesOn ==
    ASSUME IInv, NEW r \in Requests, Serve(r)
    PROVE  Onward(r)
<1>0. TypeOK
  BY DEF IInv
<1>g. \A l : Go(r, l) => pc'[r] = l
  BY <1>0 DEF TypeOK, Go
<1>a. \A t : Answer(r, t) => pc'[r] = "done"
  BY <1>0 DEF TypeOK, Answer
<1>p. \A e : Propagate(r, e) => pc'[r] = "done"
  BY <1>a DEF Propagate
<1>e. \A c, e : EnterFails(r, c, e) => pc'[r] = "done"
  BY <1>a, <1>p DEF EnterFails
<1>1. CASE Connect(r)
  BY <1>1, <1>g, <1>e DEF Connect, Onward
<1>2. CASE MakeCursor(r)
  BY <1>2, <1>g, <1>e DEF MakeCursor, Onward
<1>3. CASE Execute(r)
  BY <1>3, <1>g DEF Execute, Onward
<1>4. CASE Commit(r)
  BY <1>4, <1>g, <1>p DEF Commit, Onward
<1>5. CASE CloseCursor(r)
  BY <1>5, <1>g, <1>p DEF CloseCursor, Onward
<1>6. CASE CloseConnection(r)
  BY <1>6, <1>g, <1>p DEF CloseConnection, Onward
<1>7. CASE ListElements(r)
  BY <1>7, <1>g DEF ListElements, Onward
<1>8. CASE PlotPolygons(r)
  BY <1>8, <1>g DEF PlotPolygons, Onward
<1>9. CASE PlotMidpoints(r)
  BY <1>9, <1>a DEF PlotMidpoints, Onward
<1>10. CASE Finish(r)
  BY <1>10 DEF Finish, Onward
<1> QED
  BY <1>1, <1>2, <1>3, <1>4, <1>5, <1>6, <1>7, <1>8, <1>9, <1>10 DEF Serve

LEMMA StepOfAnother ==
    ASSUME IInv, NEW r \in Requests, pc[r] # "idle", [Next]_vars, ~Serve(r)
    PROVE  pc'[r] = pc[r]
<1>0. TypeOK
  BY DEF IInv
<1>1. ASSUME NEW q \in Requests, q # r, GetOtherPage(q) \/ GetFigure(q) \/ Serve(q)
      PROVE  pc'[r] = pc[r]
  BY <1>0, <1>1
     DEF TypeOK, GetOtherPage, GetFigure, Serve, Connect, MakeCursor, Execute, Commit,
         CloseCursor, CloseConnection, ListElements, PlotPolygons, PlotMidpoints, Finish,
         Go, Answer, Propagate, EnterFails
<1>2. ~GetOtherPage(r) /\ ~GetFigure(r)
  BY DEF GetOtherPage, GetFigure
<1>3. CASE Start \/ Reclaim \/ Stopped \/ UNCHANGED vars
  BY <1>3 DEF Start, Reclaim, Stopped, vars, request
<1> QED
  BY <1>1, <1>2, <1>3 DEF Next

(* What fairness is about: a thread that serves a request can go on.  The  *)
(* provers know nothing of ENABLED, so this is a hypothesis below.         *)
CanGoOn(r) == pc[r] # "idle" => ENABLED <<Serve(r)>>_vars
AlwaysAble(r) == []CanGoOn(r)

(* A request stays in one position until it is in the next or answered.    *)
LEMMA OneAnswered ==
    ASSUME NEW r \in Requests
    PROVE  Spec /\ Scheduled(r) /\ AlwaysAble(r)
               => ((pc[r] = "connect") ~> (pc[r] = "done"))
<1> DEFINE Done == pc[r] = "done"
           At(l) == pc[r] = l
           Step == IInv /\ [Next]_vars
<1>s. IInv /\ [Next]_vars /\ pc[r] # "idle" => Onward(r) \/ (~Serve(r) /\ pc'[r] = pc[r])
  BY ServeGoesOn, StepOfAnother
<1>1. IInv /\ [Next]_vars /\ At("connect")
        => (At("connect")' /\ ~<<Serve(r)>>_vars) \/ At("cursor")' \/ Done'
  BY <1>s DEF Onward
<1>2. IInv /\ [Next]_vars /\ At("cursor")
        => (At("cursor")' /\ ~<<Serve(r)>>_vars) \/ At("execute")' \/ Done'
  BY <1>s DEF Onward
<1>3. IInv /\ [Next]_vars /\ At("execute")
        => (At("execute")' /\ ~<<Serve(r)>>_vars) \/ At("commit")'
  BY <1>s DEF Onward
<1>4. IInv /\ [Next]_vars /\ At("commit")
        => (At("commit")' /\ ~<<Serve(r)>>_vars) \/ At("close_cursor")' \/ Done'
  BY <1>s DEF Onward
<1>5. IInv /\ [Next]_vars /\ At("close_cursor")
        => (At("close_cursor")' /\ ~<<Serve(r)>>_vars) \/ At("close")' \/ Done'
  BY <1>s DEF Onward
<1>6. IInv /\ [Next]_vars /\ At("close")
        => (At("close")' /\ ~<<Serve(r)>>_vars) \/ At("list")' \/ Done'
  BY <1>s DEF Onward
<1>7. IInv /\ [Next]_vars /\ At("list")
        => (At("list")' /\ ~<<Serve(r)>>_vars) \/ At("polygons")'
  BY <1>s DEF Onward
<1>8. IInv /\ [Next]_vars /\ At("polygons")
        => (At("polygons")' /\ ~<<Serve(r)>>_vars) \/ At("midpoints")'
  BY <1>s DEF Onward
<1>9. IInv /\ [Next]_vars /\ At("midpoints")
        => (At("midpoints")' /\ ~<<Serve(r)>>_vars) \/ At("done")'
  BY <1>s DEF Onward
<1>d. At("done") => Done
  OBVIOUS
<1>e. pc[r] = "connect" => At("connect")
  OBVIOUS
<1>n. /\ At("connect") => pc[r] # "idle"
      /\ At("cursor") => pc[r] # "idle"
      /\ At("execute") => pc[r] # "idle"
      /\ At("commit") => pc[r] # "idle"
      /\ At("close_cursor") => pc[r] # "idle"
      /\ At("close") => pc[r] # "idle"
      /\ At("list") => pc[r] # "idle"
      /\ At("polygons") => pc[r] # "idle"
      /\ At("midpoints") => pc[r] # "idle"
  OBVIOUS
<1> HIDE DEF At
<1> QED
  BY <1>1, <1>2, <1>3, <1>4, <1>5, <1>6, <1>7, <1>8, <1>9, <1>d, <1>e, <1>n, Invariance, PTL
     DEF Spec, CanGoOn, Scheduled, AlwaysAble

(* Every figure request whose thread is scheduled, and whose calls return, *)
(* is answered, with the page or an error, however many others are served  *)
(* at the same time and whichever calls of the driver fail.                *)
THEOREM AnswersAll ==
    FairSpec /\ (\A r \in Requests : AlwaysAble(r)) => RequestsAnswered
<1>1. ASSUME NEW r \in Requests
      PROVE  FairSpec /\ (\A q \in Requests : AlwaysAble(q))
                 => ((pc[r] = "connect") ~> (pc[r] = "done"))
  <2>1. FairSpec /\ (\A q \in Requests : AlwaysAble(q))
            => Spec /\ Scheduled(r) /\ AlwaysAble(r)
    BY DEF FairSpec
  <2> QED
    BY <2>1, OneAnswered, PTL
<1>2. FairSpec /\ (\A q \in Requests : AlwaysAble(q))
          => \A r \in Requests : ((pc[r] = "connect") ~> (pc[r] = "done"))
  BY <1>1
<1> QED
  BY <1>2 DEF RequestsAnswered
=============================================================================
