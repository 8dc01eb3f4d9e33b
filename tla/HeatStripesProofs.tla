-------------------------- MODULE HeatStripesProofs --------------------------
(***************************************************************************)
(* Proofs about HeatStripes, for every number of ranks, nodes and steps:   *)
(* how far ranks drift apart, what MPI has to buffer, what is left at the  *)
(* end, for stripes of two nodes or more that the temperatures are those   *)
(* of the whole rod, and that no ranks wait for each other in a circle     *)
(* while every step brings the job nearer to its end.                      *)
(***************************************************************************)
EXTENDS HeatStripes, TLAPS, SequenceTheorems, FiniteSetTheorems

PreLoop == {"start", "rank", "alloc", "scatter"}
Exchanging == {"post", "receive", "received"}
InStep == Exchanging \cup {"compute", "dump"}
RootOnly == {"dealt", "open", "dump", "close"}

(* Rank r has sent rank q its edge value of the current step. *)
HasSent(r, q) ==
    \/ pc[r] \in {"receive", "received"} /\ peer[r] = q
    \/ pc[r] \in Exchanging /\ peer[r] = r - 1 /\ q = r + 1
    \/ pc[r] = "compute"
    \/ pc[r] \in {"gather", "gathering", "dump"} /\ step[r] < tt

(* Rank r has received rank q's edge value of the current step. *)
HasGot(r, q) ==
    \/ pc[r] = "received" /\ peer[r] = q
    \/ pc[r] \in Exchanging /\ peer[r] = r - 1 /\ q = r + 1
    \/ pc[r] = "compute"
    \/ pc[r] \in {"gather", "gathering", "dump"} /\ step[r] < tt

(* The number of edge values sent and received, of stripes sent and gathered. *)
Sent(r, q) == IF HasSent(r, q) THEN step[r] + 1 ELSE step[r]
Got(r, q) == IF HasGot(r, q) THEN step[r] + 1 ELSE step[r]
StripesSent(r) == IF pc[r] \in {"gathering", "finalize", "done"}
                  THEN step[r] + 1 ELSE step[r]
StripesGot == IF pc[Root] \in {"dump", "close", "finalize", "done"}
              THEN step[Root] + 1 ELSE step[Root]

Placed(r) ==
    /\ pc[r] \in RootOnly => r = Root
    /\ pc[r] = "gathering" => r # Root
    /\ pc[r] \in Exchanging => <<r, peer[r]>> \in Links
    /\ pc[r] \in InStep => step[r] < tt
    /\ pc[r] \in {"close", "finalize", "done"} => step[r] = tt
    /\ pc[r] \in PreLoop \cup {"dealt", "open"} => step[r] = 0

PlaceInv == \A r \in Ranks : Placed(r)

(* Only a number of processes that divides xx gets beyond MPI_Comm_rank. *)
Admitted(r) ==
    /\ pc[r] \notin {"start", "rank"} => xx % Total = 0
    /\ pc[r] = "rank" /\ xx % Total # 0 => r \in finalized

TotalInv == \A r \in Ranks : Admitted(r)

DealInv ==
    /\ pc[Root] \in PreLoop => \A r \in Ranks : pc[r] \in PreLoop
    /\ \A r \in Ranks :
          down[r] # <<>> => r # Root /\ pc[r] \in PreLoop /\ pc[Root] \notin PreLoop

CountInv ==
    /\ \A l \in Links : Len(chan[l]) = Sent(l[1], l[2]) - Got(l[2], l[1])
    /\ \A r \in Others : Len(up[r]) = StripesSent(r) - StripesGot
    /\ up[Root] = <<>>

IInv == TypeOK /\ PlaceInv /\ TotalInv /\ DealInv /\ CountInv /\ SkewBounded

-----------------------------------------------------------------------------
(* Arithmetic of the stripes. *)

LEMMA StripeFacts ==
    /\ stripe_size \in Nat \ {0}
    /\ stripe_size * Total <= xx
    /\ xx % Total = 0 => stripe_size * Total = xx
<1> DEFINE S == xx \div Total
<1>1. S \in Int /\ xx = Total * S + (xx % Total)
      /\ xx % Total \in Int /\ 0 <= xx % Total /\ xx % Total < Total
  BY RodAssumption, Z3
<1>2. S > 0
  <2> HIDE DEF S
  <2>1. S <= 0 => Total * S <= 0
    BY <1>1, RodAssumption
  <2> QED
    BY <1>1, <2>1, RodAssumption
<1>3. S \in Nat \ {0} /\ S * Total <= xx /\ (xx % Total = 0 => S * Total = xx)
  <2> HIDE DEF S
  <2> QED
    BY <1>1, <1>2, RodAssumption
<1> QED
  BY <1>3 DEF stripe_size

LEMMA RankFacts ==
    /\ Total \in Nat \ {0} /\ xx \in Nat /\ tt \in Nat
    /\ Ranks \subseteq Int /\ Root \in Ranks
    /\ \A r \in Ranks : 0 <= r /\ r < Total
    /\ \A r \in Int : 0 <= r /\ r < Total => r \in Ranks
    /\ Others \subseteq Ranks
    /\ 0 \in Slots /\ stripe_size - 1 \in Slots
    /\ \A i \in Slots : i \in Nat /\ i < stripe_size
  BY StripeFacts, RodAssumption, StripesAssumption DEF Ranks, Root, Others, Slots

LEMMA LinkFacts ==
    /\ \A l \in Links : l = <<l[1], l[2]>> /\ l[1] \in Ranks /\ l[2] \in Ranks
                        /\ (l[2] = l[1] - 1 \/ l[2] = l[1] + 1)
    /\ \A r, q \in Ranks : (<<r, q>> \in Links) <=> (q = r - 1 \/ q = r + 1)
    /\ \A r \in Ranks : <<r, r - 1>> \in Sides /\ <<r, r + 1>> \in Sides
    /\ Links \subseteq Sides
<1> USE RankFacts
<1>1. Ranks \subseteq -1 .. Total
  OBVIOUS
<1>2. \A r \in Ranks : r - 1 \in -1 .. Total /\ r + 1 \in -1 .. Total
  OBVIOUS
<1> QED
  BY <1>1, <1>2 DEF Links, Sides

LEMMA SliceType ==
    ASSUME NEW g \in [Nodes -> Int], NEW r \in Ranks
    PROVE  Slice(g, r) \in [Slots -> Int]
<1> SUFFICES ASSUME NEW i \in Slots PROVE stripe_size * r + i \in Nodes
  BY DEF Slice
<1> DEFINE S == stripe_size
<1>1. S \in Nat /\ S * Total <= xx /\ Total \in Nat /\ r \in Nat /\ r + 1 <= Total
      /\ i \in Nat /\ i < S
  BY StripeFacts, RankFacts
<1>2. S * (r + 1) <= S * Total /\ S * r \in Nat /\ S * (r + 1) = S * r + S
  <2> HIDE DEF S
  <2> QED BY <1>1
<1>3. S * r + i \in 0 .. xx - 1
  <2> HIDE DEF S
  <2> QED BY <1>1, <1>2, RankFacts
<1> QED
  BY <1>3 DEF Nodes

LEMMA JoinedType ==
    ASSUME xx % Total = 0, NEW s \in [Ranks -> [Slots -> Int]]
    PROVE  Joined(s) \in [Nodes -> Int]
<1> SUFFICES ASSUME NEW n \in Nodes
             PROVE  n \div stripe_size \in Ranks /\ n % stripe_size \in Slots
  BY DEF Joined
<1> DEFINE S == stripe_size  d == n \div S  m == n % S
<1>1. S \in Nat \ {0} /\ S * Total = xx /\ n \in Nat /\ n < xx /\ Total \in Nat
  BY StripeFacts, RankFacts DEF Nodes
<1>2. d \in Int /\ m \in 0 .. S - 1 /\ n = S * d + m
  <2> HIDE DEF S
  <2> QED BY <1>1, Z3
<1>3. 0 <= d /\ d < Total
  <2>1. ASSUME d < 0 PROVE FALSE
    <3>1. S * d <= -S
      <4> HIDE DEF S, d
      <4> QED BY <1>1, <1>2, <2>1
    <3> QED
      BY <1>1, <1>2, <3>1
  <2>2. ASSUME d >= Total PROVE FALSE
    <3>1. S * d >= S * Total
      <4> HIDE DEF S, d
      <4> QED BY <1>1, <1>2, <2>2
    <3> QED
      BY <1>1, <1>2, <3>1
  <2> QED
    BY <1>1, <1>2, <2>1, <2>2
<1> QED
  BY <1>2, <1>3, RankFacts DEF Slots

LEMMA RodType == InitialRod \in [Nodes -> Int]
  BY RodAssumption DEF InitialRod, left_boundary, right_boundary, boundary, BoundaryKinds

LEMMA TimeStepType ==
    ASSUME NEW r \in Ranks, NEW old \in [Slots -> Int], NEW a \in Int, NEW b \in Int
    PROVE  time_step(r, old, a, b) \in [Slots -> Int]
<1>1. \A v, k \in Int : boundary("1TYPE", v, k) \in Int /\ boundary("2TYPE", v, k) \in Int
                        /\ boundary("3TYPE", v, k) \in Int
  BY DEF boundary
<1>2. \A k \in Int : left_boundary(k) \in Int /\ right_boundary(k) \in Int
  BY <1>1, RodAssumption DEF left_boundary, right_boundary, BoundaryKinds
<1>3. \A x, y, z \in Int : forward_euler(x, y, z) \in Int
  BY RodAssumption DEF forward_euler
<1>4. \A i \in Int : slot(old, i) \in Int
  BY RodAssumption DEF slot
<1>5. ASSUME NEW i \in Slots
      PROVE  (i # stripe_size - 1 /\ i # 0) => i - 1 \in Slots /\ i + 1 \in Slots
  BY StripeFacts DEF Slots
<1>6. \A i \in Slots : i \in Int
  BY RankFacts
<1> SUFFICES ASSUME NEW i \in Slots PROVE time_step(r, old, a, b)[i] \in Int
  BY DEF time_step
<1>7. old[i] \in Int /\ slot(old, i - 1) \in Int /\ slot(old, i + 1) \in Int
  BY <1>4, <1>6
<1>8. CASE IsRightEnd(r, i)
  BY <1>2, <1>7, <1>8 DEF time_step
<1>9. CASE ~IsRightEnd(r, i) /\ IsLeftEnd(r, i)
  BY <1>2, <1>7, <1>9 DEF time_step
<1>10. CASE ~IsRightEnd(r, i) /\ ~IsLeftEnd(r, i) /\ (i = stripe_size - 1 \/ i = 0)
  BY <1>3, <1>7, <1>10 DEF time_step
<1>11. CASE ~IsRightEnd(r, i) /\ ~IsLeftEnd(r, i) /\ i # stripe_size - 1 /\ i # 0
  <2>1. old[i - 1] \in Int /\ old[i + 1] \in Int
    BY <1>5, <1>11
  <2> QED
    BY <1>3, <1>7, <1>11, <2>1 DEF time_step
<1> QED
  BY <1>8, <1>9, <1>10, <1>11

(* What is sent through a queue, of edge values or of stripes. *)
LEMMA SendFacts ==
    ASSUME NEW S, NEW s \in Seq(S), NEW e \in S
    PROVE  /\ Append(s, e) \in Seq(S) /\ <<e>> \in Seq(S)
           /\ Len(s) \in Nat /\ Len(Append(s, e)) = Len(s) + 1
  BY AppendProperties

LEMMA TakeFacts ==
    ASSUME NEW S, NEW s \in Seq(S)
    PROVE  /\ Len(s) \in Nat /\ (s = <<>> <=> Len(s) = 0)
           /\ s # <<>> => /\ Head(s) \in S /\ Tail(s) \in Seq(S)
                          /\ Len(Tail(s)) = Len(s) - 1
  BY EmptySeq, HeadTailProperties

-----------------------------------------------------------------------------
(* The initial states. *)

LEMMA InvInit == Init => IInv
<1> SUFFICES ASSUME Init PROVE IInv
  OBVIOUS
<1> USE RankFacts
<1>1. TypeOK
  BY RodAssumption DEF Init, TypeOK, RankPC
<1>2. \A r \in Ranks : pc[r] = "start" /\ step[r] = 0 /\ down[r] = <<>> /\ up[r] = <<>>
  BY DEF Init
<1>3. PlaceInv
  BY <1>2 DEF PlaceInv, Placed, PreLoop, RootOnly, Exchanging, InStep
<1>4. TotalInv /\ DealInv
  BY <1>2 DEF TotalInv, Admitted, DealInv, PreLoop
<1>5. CountInv
  <2>1. \A r, q \in Ranks : Sent(r, q) = 0 /\ Got(r, q) = 0
    BY <1>2 DEF Sent, Got, HasSent, HasGot, Exchanging
  <2>2. StripesGot = 0 /\ \A r \in Ranks : StripesSent(r) = 0
    BY <1>2 DEF StripesSent, StripesGot
  <2>3. up[Root] = <<>> /\ \A l \in Links : chan[l] = <<>>
    BY DEF Init
  <2> QED
    BY <1>2, <2>1, <2>2, <2>3, LinkFacts DEF CountInv
<1>6. SkewBounded
  BY <1>2 DEF SkewBounded, Distance
<1> QED
  BY <1>1, <1>3, <1>4, <1>5, <1>6 DEF IInv

-----------------------------------------------------------------------------
(* Types, one step per action. *)

LEMMA TypeStep == IInv /\ Next => TypeOK'
<1> SUFFICES ASSUME IInv, Next PROVE TypeOK'
  OBVIOUS
<1> USE RankFacts DEF IInv, p2pVars, collVars, fileVars, procVars
<1>0. TypeOK /\ PlaceInv /\ TotalInv
  OBVIOUS
<1>g. ASSUME NEW r \in Ranks, NEW l \in RankPC, Goto(r, l)
      PROVE  pc' \in [Ranks -> RankPC]
  BY <1>g DEF TypeOK, Goto
<1>c. ASSUME NEW r \in Ranks, NEW q \in Ranks, Call(r, q)
      PROVE  pc' \in [Ranks -> RankPC] /\ peer' \in [Ranks -> Ranks]
  BY <1>c DEF TypeOK, Goto, Call, RankPC
<1>d. ASSUME NEW r \in Ranks, Dies(r)
      PROVE  pc' \in [Ranks -> RankPC] /\ dead' \subseteq Ranks
  BY <1>d DEF TypeOK, Dies
<1>n. ASSUME NEW r \in Ranks, step[r] < tt, step' = [step EXCEPT ![r] = step[r] + 1]
      PROVE  step' \in [Ranks -> 0 .. tt]
  <2>1. step \in [Ranks -> 0 .. tt]
    BY DEF TypeOK
  <2>2. step[r] \in 0 .. tt
    BY <2>1
  <2>3. step[r] + 1 \in 0 .. tt
    BY <1>n, <2>2
  <2> QED
    BY <1>n, <2>1, <2>3
<1>e. \A r \in Ranks : Edge(r) \in Int
  <2>1. \A r \in Ranks : \A i \in Slots : stripe[r][i] \in Int
    BY DEF TypeOK
  <2> QED
    BY <2>1 DEF Edge
<1>v. ASSUME NEW r \in Ranks, LeaveSendrecv(r)
      PROVE  pc' \in [Ranks -> RankPC] /\ peer' \in [Ranks -> Ranks]
  <2>1. \/ r > 0 /\ Call(r, r - 1)
        \/ Goto(r, "compute") /\ UNCHANGED peer
    BY <1>v DEF LeaveSendrecv
  <2>2. r > 0 => r - 1 \in Ranks
    OBVIOUS
  <2> QED
    BY <2>1, <2>2, <1>g, <1>c DEF RankPC, TypeOK
<1>w. ASSUME NEW r \in Ranks, LeaveGather(r)
      PROVE  pc' \in [Ranks -> RankPC] /\ step' \in [Ranks -> 0 .. tt]
  <2>1. CASE step[r] < tt
    BY <1>w, <2>1, <1>g, <1>n DEF LeaveGather, RankPC
  <2>2. CASE ~(step[r] < tt)
    BY <1>w, <2>2, <1>g DEF LeaveGather, RankPC, TypeOK
  <2> QED
    BY <2>1, <2>2
<1>q. /\ \A r \in Ranks : down[r] # <<>> => Head(down[r]) \in [Slots -> Int]
      /\ \A r \in Ranks : Append(up[r], stripe[r]) \in Seq([Slots -> Int])
      /\ \A r \in Ranks : up[r] # <<>> => /\ Head(up[r]) \in [Slots -> Int]
                                          /\ Tail(up[r]) \in Seq([Slots -> Int])
      /\ \A l \in Links : \A e \in Int : Append(chan[l], e) \in Seq(Int)
      /\ \A l \in Links : chan[l] # <<>> => /\ Head(chan[l]) \in Int
                                            /\ Tail(chan[l]) \in Seq(Int)
      /\ <<>> \in Seq([Slots -> Int])
  <2>1. /\ \A r \in Ranks : /\ down[r] \in Seq([Slots -> Int])
                            /\ up[r] \in Seq([Slots -> Int])
                            /\ stripe[r] \in [Slots -> Int]
        /\ \A l \in Links : chan[l] \in Seq(Int)
    <3>1. /\ stripe \in [Ranks -> [Slots -> Int]]
          /\ down \in [Ranks -> Seq([Slots -> Int])]
          /\ up \in [Ranks -> Seq([Slots -> Int])]
          /\ chan \in [Links -> Seq(Int)]
      BY DEF TypeOK
    <3> QED
      BY <3>1
  <2>2. \A r \in Ranks : down[r] # <<>> => Head(down[r]) \in [Slots -> Int]
    BY <2>1, TakeFacts
  <2>3. \A r \in Ranks : up[r] # <<>> => /\ Head(up[r]) \in [Slots -> Int]
                                         /\ Tail(up[r]) \in Seq([Slots -> Int])
    BY <2>1, TakeFacts
  <2>4. \A l \in Links : chan[l] # <<>> => /\ Head(chan[l]) \in Int
                                           /\ Tail(chan[l]) \in Seq(Int)
    BY <2>1, TakeFacts
  <2>5. \A r \in Ranks : Append(up[r], stripe[r]) \in Seq([Slots -> Int])
    BY <2>1, SendFacts
  <2>6. \A l \in Links : \A e \in Int : Append(chan[l], e) \in Seq(Int)
    BY <2>1, SendFacts
  <2>7. <<>> \in Seq([Slots -> Int])
    BY EmptySeq
  <2> QED
    BY <2>2, <2>3, <2>4, <2>5, <2>6, <2>7
<1>s. \A r \in Ranks : Slice(T, r) \in [Slots -> Int]
  BY SliceType DEF TypeOK
<1>r. ASSUME NEW r \in Ranks, RankStep(r)
      PROVE  TypeOK'
  <2>1. CASE CheckTotal(r)
    BY <2>1, <1>g DEF TypeOK, CheckTotal, RankPC
  <2>2. CASE CommRank(r)
    BY <2>2, <1>g, <1>d DEF TypeOK, CommRank, RankPC
  <2>3. CASE Allocate(r)
    BY <2>3, <1>g, RodType DEF TypeOK, Allocate, RankPC
  <2>4. CASE TakeStripe(r)
    <3>1. stripe' \in [Ranks -> [Slots -> Int]]
      BY <2>4, <1>q DEF TypeOK, TakeStripe
    <3>2. down' \in [Ranks -> Seq([Slots -> Int])]
      BY <2>4, <1>q DEF TypeOK, TakeStripe
    <3> QED
      BY <2>4, <3>1, <3>2, <1>g DEF TypeOK, TakeStripe, RankPC
  <2>5. CASE EnterStep(r)
    <3>1. \/ r < Total - 1 /\ Call(r, r + 1)
          \/ r > 0 /\ Call(r, r - 1)
          \/ Goto(r, "compute") /\ UNCHANGED peer
      BY <2>5 DEF EnterStep
    <3>2. (r < Total - 1 => r + 1 \in Ranks) /\ (r > 0 => r - 1 \in Ranks)
      OBVIOUS
    <3>3. pc' \in [Ranks -> RankPC] /\ peer' \in [Ranks -> Ranks]
      BY <3>1, <3>2, <1>g, <1>c DEF RankPC, TypeOK
    <3> QED
      BY <2>5, <3>3 DEF TypeOK, EnterStep
  <2>6. CASE Post(r)
    <3>1. <<r, peer[r]>> \in Links
      BY <2>6 DEF Post, PlaceInv, Placed, Exchanging
    <3>2. Append(chan[<<r, peer[r]>>], Edge(r)) \in Seq(Int)
      BY <3>1, <1>e, <1>q
    <3>3. chan' \in [Links -> Seq(Int)]
      BY <2>6, <3>1, <3>2 DEF TypeOK, Post
    <3> QED
      BY <2>6, <3>3, <1>g DEF TypeOK, Post, RankPC
  <2>7. CASE Receive(r)
    <3> DEFINE q == peer[r]
    <3>1. <<r, q>> \in Links /\ q \in Ranks
      BY <2>7 DEF Receive, TypeOK, PlaceInv, Placed, Exchanging
    <3>2. <<q, r>> \in Links /\ <<r, q>> \in Sides
      BY <3>1, LinkFacts
    <3>3. Head(chan[<<q, r>>]) \in Int /\ Tail(chan[<<q, r>>]) \in Seq(Int)
      BY <2>7, <3>2, <1>q DEF Receive
    <3>4. chan' \in [Links -> Seq(Int)]
      BY <2>7, <3>2, <3>3 DEF TypeOK, Receive
    <3>5. halo' \in [Sides -> Int]
      BY <2>7, <3>2, <3>3 DEF TypeOK, Receive
    <3> QED
      BY <2>7, <3>4, <3>5, <1>g DEF TypeOK, Receive, RankPC
  <2>8. CASE SendrecvReturns(r)
    BY <2>8, <1>v DEF TypeOK, SendrecvReturns, LeaveSendrecv
  <2>9. CASE TimeStep(r)
    <3>1. time_step(r, stripe[r], left_from_stripe(r), right_from_stripe(r)) \in [Slots -> Int]
      BY TimeStepType, LinkFacts DEF TypeOK, left_from_stripe, right_from_stripe
    <3> QED
      BY <2>9, <3>1, <1>g DEF TypeOK, TimeStep, RankPC
  <2>10. CASE LeaveLoop(r)
    BY <2>10, <1>g DEF TypeOK, LeaveLoop, RankPC
  <2>11. CASE SendStripe(r)
    BY <2>11, <1>g, <1>q DEF TypeOK, SendStripe, RankPC
  <2>12. CASE GatherReturns(r)
    BY <2>12, <1>w DEF TypeOK, GatherReturns, LeaveGather
  <2>13. CASE Finalize(r)
    BY <2>13, <1>g DEF TypeOK, Finalize, RankPC
  <2> QED
    BY <1>r, <2>1, <2>2, <2>3, <2>4, <2>5, <2>6, <2>7, <2>8, <2>9, <2>10, <2>11,
       <2>12, <2>13 DEF RankStep
<1>t. ASSUME RootStep
      PROVE  TypeOK'
  <2>1. CASE Deal
    <3>1. \A r \in Ranks : <<Slice(T, r)>> \in Seq([Slots -> Int])
      BY <1>s, <1>q, SendFacts
    <3>2. down' \in [Ranks -> Seq([Slots -> Int])]
      BY <2>1, <3>1, <1>q DEF Deal
    <3> QED
      BY <2>1, <3>2, <1>s, <1>g DEF TypeOK, Deal, RankPC
  <2>2. CASE ScatterReturns
    BY <2>2, <1>g DEF TypeOK, ScatterReturns, LeaveScatter, RankPC
  <2>3. CASE OpenFile
    BY <2>3, <1>g DEF TypeOK, OpenFile, RankPC
  <2>4. CASE Gather
    <3> DEFINE s == [r \in Ranks |-> IF r = Root THEN stripe[r] ELSE Head(up[r])]
    <3>1. \A r \in Others : Head(up[r]) \in [Slots -> Int] /\ Tail(up[r]) \in Seq([Slots -> Int])
      BY <2>4, <1>q DEF Gather
    <3>2. s \in [Ranks -> [Slots -> Int]]
      BY <3>1 DEF TypeOK, Others
    <3>3. xx % Total = 0
      BY <2>4 DEF Gather, TotalInv, Admitted
    <3>4. T' \in [Nodes -> Int]
      BY <2>4, <3>2, <3>3, JoinedType DEF Gather
    <3>5. up' \in [Ranks -> Seq([Slots -> Int])]
      BY <2>4, <3>1 DEF TypeOK, Gather, Others
    <3> QED
      BY <2>4, <3>4, <3>5, <1>g DEF TypeOK, Gather, RankPC
  <2>5. CASE Dump
    <3>1. step[Root] < tt
      BY <2>5 DEF Dump, PlaceInv, Placed, InStep
    <3>2. Append(film, T) \in Seq([Nodes -> Int])
      BY DEF TypeOK
    <3> QED
      BY <2>5, <3>1, <3>2, <1>g, <1>d, <1>n DEF TypeOK, Dump, RankPC
  <2>6. CASE CloseFile
    BY <2>6, <1>g, <1>d DEF TypeOK, CloseFile, RankPC
  <2> QED
    BY <1>t, <2>1, <2>2, <2>3, <2>4, <2>5, <2>6 DEF RootStep
<1>a. ASSUME NEW r \in Ranks, EarlyReturn(r)
      PROVE  TypeOK'
  <2>1. CASE EarlyScatterReturns
    BY <2>1, <1>g DEF TypeOK, EarlyScatterReturns, LeaveScatter, RankPC
  <2>2. CASE EarlySendrecvReturns(r)
    BY <2>2, <1>v DEF TypeOK, EarlySendrecvReturns, LeaveSendrecv
  <2>3. CASE EarlyGatherReturns(r)
    BY <2>3, <1>w DEF TypeOK, EarlyGatherReturns, LeaveGather
  <2> QED
    BY <1>a, <2>1, <2>2, <2>3 DEF EarlyReturn
<1>j. CASE EndJob
  BY <1>j DEF TypeOK, EndJob
<1>x. ASSUME NEW r \in Ranks, UseNull(r)
      PROVE  TypeOK'
  BY <1>x DEF TypeOK, UseNull, Dies
<1>u. CASE Terminated
  BY <1>u DEF TypeOK, Terminated, vars
<1> QED
  BY <1>r, <1>t, <1>a, <1>j, <1>x, <1>u DEF Next, ProcessStep

-----------------------------------------------------------------------------
(* Positions. *)

LEMMA GotoFacts ==
    ASSUME TypeOK, NEW r \in Ranks, NEW l, Goto(r, l)
    PROVE  pc'[r] = l /\ \A s \in Ranks : s # r => pc'[s] = pc[s]
  BY DEF TypeOK, Goto

(* A rank moves; the others stay, and so does what the move does not need. *)
LEMMA MoveFacts ==
    ASSUME IInv, NEW r \in Ranks,
           \A s \in Ranks : s # r => /\ pc'[s] = pc[s] /\ step'[s] = step[s]
                                    /\ peer'[s] = peer[s],
           finalized \subseteq finalized',
           \A s \in Ranks : down'[s] # <<>> => down'[s] = down[s],
           Placed(r)', Admitted(r)',
           pc'[r] \in PreLoop \/ (pc[r] \notin PreLoop /\ pc'[r] \notin PreLoop)
             \/ (pc[Root] \notin PreLoop /\ pc'[Root] \notin PreLoop /\ down'[r] = <<>>),
           pc'[r] \in PreLoop => pc[r] \in PreLoop
    PROVE  PlaceInv' /\ TotalInv' /\ DealInv'
<1> USE RankFacts
<1>1. PlaceInv'
  BY DEF IInv, PlaceInv, Placed
<1>2. TotalInv'
  BY DEF IInv, TotalInv, Admitted
<1>3. DealInv'
  BY DEF IInv, DealInv
<1> QED
  BY <1>1, <1>2, <1>3

LEMMA PlaceStep == IInv /\ Next => PlaceInv' /\ TotalInv' /\ DealInv'
<1> SUFFICES ASSUME IInv, Next PROVE PlaceInv' /\ TotalInv' /\ DealInv'
  OBVIOUS
<1> USE RankFacts DEF p2pVars, collVars, fileVars, procVars
<1>0. TypeOK /\ PlaceInv /\ TotalInv /\ DealInv
  BY DEF IInv
<1>1. \A r \in Ranks : /\ Placed(r) /\ Admitted(r) /\ step[r] \in Nat
                        /\ (step[r] < tt \/ step[r] = tt)
  BY <1>0 DEF PlaceInv, TotalInv, TypeOK
<1>2. ASSUME NEW r \in Ranks, pc[r] \notin PreLoop
      PROVE  pc[Root] \notin PreLoop
  BY <1>0, <1>2 DEF DealInv
<1>3. ASSUME NEW r \in Ranks, NEW q, <<r, q>> \in Links, Call(r, q)
      PROVE  /\ pc'[r] = "post" /\ peer'[r] = q /\ <<r, q>> \in Links
             /\ \A s \in Ranks : s # r => pc'[s] = pc[s] /\ peer'[s] = peer[s]
  BY <1>0, <1>3, GotoFacts DEF Call, TypeOK
<1>r. ASSUME NEW r \in Ranks, RankStep(r)
      PROVE  PlaceInv' /\ TotalInv' /\ DealInv'
  <2>1. CASE CheckTotal(r)
    <3>1. pc'[r] = "rank" /\ \A s \in Ranks : s # r => pc'[s] = pc[s]
      BY <2>1, <1>0, GotoFacts DEF CheckTotal
    <3>2. Placed(r)' /\ Admitted(r)'
      BY <2>1, <3>1, <1>1 DEF CheckTotal, Placed, Admitted, PreLoop, RootOnly, Exchanging, InStep
    <3> QED
      BY <2>1, <3>1, <3>2, <1>0, <1>2, MoveFacts DEF CheckTotal, PreLoop
  <2>2. CASE CommRank(r)
    <3>1. \/ /\ r \notin finalized /\ pc'[r] = "alloc"
             /\ \A s \in Ranks : s # r => pc'[s] = pc[s]
          \/ pc' = pc
      BY <2>2, <1>0, GotoFacts DEF CommRank, Dies
    <3>2. Placed(r)' /\ Admitted(r)'
      BY <2>2, <3>1, <1>1 DEF CommRank, Placed, Admitted, PreLoop, RootOnly, Exchanging, InStep
    <3> QED
      BY <2>2, <3>1, <3>2, <1>0, <1>2, MoveFacts DEF CommRank, PreLoop
  <2>3. CASE Allocate(r)
    <3>1. pc'[r] = "scatter" /\ \A s \in Ranks : s # r => pc'[s] = pc[s]
      BY <2>3, <1>0, GotoFacts DEF Allocate
    <3>2. Placed(r)' /\ Admitted(r)'
      BY <2>3, <3>1, <1>1 DEF Allocate, Placed, Admitted, PreLoop, RootOnly, Exchanging, InStep
    <3> QED
      BY <2>3, <3>1, <3>2, <1>0, <1>2, MoveFacts DEF Allocate, PreLoop
  <2>4. CASE TakeStripe(r)
    <3>1. pc'[r] = "loop" /\ \A s \in Ranks : s # r => pc'[s] = pc[s]
      BY <2>4, <1>0, GotoFacts DEF TakeStripe
    <3>2. Placed(r)' /\ Admitted(r)'
      BY <2>4, <3>1, <1>1 DEF TakeStripe, Placed, Admitted, PreLoop, RootOnly, Exchanging, InStep
    <3>3. \A s \in Ranks : down'[s] = IF s = r THEN <<>> ELSE down[s]
      BY <2>4, <1>0 DEF TakeStripe, TypeOK
    <3>4. pc[Root] \notin PreLoop
      BY <2>4, <1>0 DEF DealInv, TakeStripe
    <3> QED
      BY <2>4, <3>1, <3>2, <3>3, <3>4, MoveFacts DEF TakeStripe, PreLoop
  <2>5. CASE EnterStep(r)
    <3>1. \/ \E q : <<r, q>> \in Links /\ Call(r, q)
          \/ Goto(r, "compute") /\ UNCHANGED peer
      <4>1. (r < Total - 1 => <<r, r + 1>> \in Links) /\ (r > 0 => <<r, r - 1>> \in Links)
        BY LinkFacts
      <4> QED
        BY <2>5, <4>1 DEF EnterStep
    <3>2. /\ pc'[r] \in {"post", "compute"} /\ (pc'[r] = "post" => <<r, peer'[r]>> \in Links)
          /\ \A s \in Ranks : s # r => pc'[s] = pc[s] /\ peer'[s] = peer[s]
      <4>1. CASE \E q : <<r, q>> \in Links /\ Call(r, q)
        BY <4>1, <1>3
      <4>2. CASE Goto(r, "compute") /\ UNCHANGED peer
        BY <4>2, <1>0, GotoFacts
      <4> QED
        BY <3>1, <4>1, <4>2
    <3>3. Placed(r)' /\ Admitted(r)'
      BY <2>5, <3>2, <1>1 DEF EnterStep, Placed, Admitted, PreLoop, RootOnly, Exchanging, InStep
    <3> QED
      BY <2>5, <3>2, <3>3, <1>0, <1>2, MoveFacts DEF EnterStep, PreLoop
  <2>6. CASE Post(r)
    <3>1. pc'[r] = "receive" /\ \A s \in Ranks : s # r => pc'[s] = pc[s]
      BY <2>6, <1>0, GotoFacts DEF Post
    <3>2. Placed(r)' /\ Admitted(r)'
      BY <2>6, <3>1, <1>1 DEF Post, Placed, Admitted, PreLoop, RootOnly, Exchanging, InStep
    <3> QED
      BY <2>6, <3>1, <3>2, <1>0, <1>2, MoveFacts DEF Post, PreLoop
  <2>7. CASE Receive(r)
    <3>1. pc'[r] = "received" /\ \A s \in Ranks : s # r => pc'[s] = pc[s]
      BY <2>7, <1>0, GotoFacts DEF Receive
    <3>2. Placed(r)' /\ Admitted(r)'
      BY <2>7, <3>1, <1>1 DEF Receive, Placed, Admitted, PreLoop, RootOnly, Exchanging, InStep
    <3> QED
      BY <2>7, <3>1, <3>2, <1>0, <1>2, MoveFacts DEF Receive, PreLoop
  <2>8. CASE SendrecvReturns(r)
    <3>1. \/ \E q : <<r, q>> \in Links /\ Call(r, q)
          \/ Goto(r, "compute") /\ UNCHANGED peer
      <4>1. r > 0 => <<r, r - 1>> \in Links
        BY LinkFacts
      <4> QED
        BY <2>8, <4>1 DEF SendrecvReturns, LeaveSendrecv
    <3>2. /\ pc'[r] \in {"post", "compute"} /\ (pc'[r] = "post" => <<r, peer'[r]>> \in Links)
          /\ \A s \in Ranks : s # r => pc'[s] = pc[s] /\ peer'[s] = peer[s]
      <4>1. CASE \E q : <<r, q>> \in Links /\ Call(r, q)
        BY <4>1, <1>3
      <4>2. CASE Goto(r, "compute") /\ UNCHANGED peer
        BY <4>2, <1>0, GotoFacts
      <4> QED
        BY <3>1, <4>1, <4>2
    <3>3. Placed(r)' /\ Admitted(r)'
      BY <2>8, <3>2, <1>1 DEF SendrecvReturns, LeaveSendrecv, Placed, Admitted, PreLoop, RootOnly, Exchanging, InStep
    <3> QED
      BY <2>8, <3>2, <3>3, <1>0, <1>2, MoveFacts DEF SendrecvReturns, LeaveSendrecv, PreLoop
  <2>9. CASE TimeStep(r)
    <3>1. pc'[r] = "gather" /\ \A s \in Ranks : s # r => pc'[s] = pc[s]
      BY <2>9, <1>0, GotoFacts DEF TimeStep
    <3>2. Placed(r)' /\ Admitted(r)'
      BY <2>9, <3>1, <1>1 DEF TimeStep, Placed, Admitted, PreLoop, RootOnly, Exchanging, InStep
    <3> QED
      BY <2>9, <3>1, <3>2, <1>0, <1>2, MoveFacts DEF TimeStep, PreLoop
  <2>10. CASE LeaveLoop(r)
    <3>1. pc'[r] = "gather" /\ \A s \in Ranks : s # r => pc'[s] = pc[s]
      BY <2>10, <1>0, GotoFacts DEF LeaveLoop
    <3>2. Placed(r)' /\ Admitted(r)'
      BY <2>10, <3>1, <1>1 DEF LeaveLoop, Placed, Admitted, PreLoop, RootOnly, Exchanging, InStep
    <3> QED
      BY <2>10, <3>1, <3>2, <1>0, <1>2, MoveFacts DEF LeaveLoop, PreLoop
  <2>11. CASE SendStripe(r)
    <3>1. pc'[r] = "gathering" /\ \A s \in Ranks : s # r => pc'[s] = pc[s]
      BY <2>11, <1>0, GotoFacts DEF SendStripe
    <3>2. Placed(r)' /\ Admitted(r)'
      BY <2>11, <3>1, <1>1 DEF SendStripe, Placed, Admitted, PreLoop, RootOnly, Exchanging, InStep
    <3> QED
      BY <2>11, <3>1, <3>2, <1>0, <1>2, MoveFacts DEF SendStripe, PreLoop
  <2>12. CASE GatherReturns(r)
    <3>1. /\ pc'[r] = (IF step[r] < tt THEN "loop" ELSE "finalize")
          /\ \A s \in Ranks : s # r => pc'[s] = pc[s] /\ step'[s] = step[s]
      BY <2>12, <1>0, GotoFacts DEF GatherReturns, LeaveGather, TypeOK
    <3>2. Placed(r)' /\ Admitted(r)'
      BY <2>12, <3>1, <1>1 DEF GatherReturns, LeaveGather, Placed, Admitted, PreLoop, RootOnly, Exchanging, InStep
    <3> QED
      BY <2>12, <3>1, <3>2, <1>0, <1>2, MoveFacts DEF GatherReturns, LeaveGather, PreLoop
  <2>13. CASE Finalize(r)
    <3>1. pc'[r] = "done" /\ \A s \in Ranks : s # r => pc'[s] = pc[s]
      BY <2>13, <1>0, GotoFacts DEF Finalize
    <3>2. Placed(r)' /\ Admitted(r)'
      BY <2>13, <3>1, <1>1 DEF Finalize, Placed, Admitted, PreLoop, RootOnly, Exchanging, InStep
    <3> QED
      BY <2>13, <3>1, <3>2, <1>0, <1>2, MoveFacts DEF Finalize, PreLoop
  <2> QED
    BY <1>r, <2>1, <2>2, <2>3, <2>4, <2>5, <2>6, <2>7, <2>8, <2>9, <2>10, <2>11,
       <2>12, <2>13 DEF RankStep
<1>t. ASSUME RootStep
      PROVE  PlaceInv' /\ TotalInv' /\ DealInv'
  <2>1. CASE Deal
    <3>1. pc'[Root] = "dealt" /\ \A s \in Ranks : s # Root => pc'[s] = pc[s]
      BY <2>1, <1>0, GotoFacts DEF Deal
    <3>2. Placed(Root)' /\ Admitted(Root)'
      BY <2>1, <3>1, <1>1 DEF Deal, Placed, Admitted, PreLoop, RootOnly, Exchanging, InStep
    <3>3. PlaceInv' /\ TotalInv'
      BY <2>1, <3>1, <3>2, <1>1 DEF Deal, PlaceInv, TotalInv, Placed, Admitted
    <3>4. \A s \in Ranks : down'[s] # <<>> => s # Root
      BY <2>1 DEF Deal
    <3>5. \A s \in Ranks : pc[s] \in PreLoop
      BY <2>1, <1>0 DEF Deal, DealInv, PreLoop
    <3> QED
      BY <3>1, <3>3, <3>4, <3>5 DEF DealInv, PreLoop
  <2>2. CASE ScatterReturns
    <3>1. pc'[Root] = "open" /\ \A s \in Ranks : s # Root => pc'[s] = pc[s]
      BY <2>2, <1>0, GotoFacts DEF ScatterReturns, LeaveScatter
    <3>2. Placed(Root)' /\ Admitted(Root)'
      BY <2>2, <3>1, <1>1 DEF ScatterReturns, LeaveScatter, Placed, Admitted, PreLoop, RootOnly, Exchanging, InStep
    <3> QED
      BY <2>2, <3>1, <3>2, <1>0, <1>2, MoveFacts DEF ScatterReturns, LeaveScatter, PreLoop
  <2>3. CASE OpenFile
    <3>1. pc'[Root] = "loop" /\ \A s \in Ranks : s # Root => pc'[s] = pc[s]
      BY <2>3, <1>0, GotoFacts DEF OpenFile
    <3>2. Placed(Root)' /\ Admitted(Root)'
      BY <2>3, <3>1, <1>1 DEF OpenFile, Placed, Admitted, PreLoop, RootOnly, Exchanging, InStep
    <3> QED
      BY <2>3, <3>1, <3>2, <1>0, <1>2, MoveFacts DEF OpenFile, PreLoop
  <2>4. CASE Gather
    <3>1. /\ pc'[Root] = (IF step[Root] < tt THEN "dump" ELSE "close")
          /\ \A s \in Ranks : s # Root => pc'[s] = pc[s]
      BY <2>4, <1>0, GotoFacts DEF Gather
    <3>2. Placed(Root)' /\ Admitted(Root)'
      BY <2>4, <3>1, <1>1 DEF Gather, Placed, Admitted, PreLoop, RootOnly, Exchanging, InStep
    <3> QED
      BY <2>4, <3>1, <3>2, <1>0, <1>2, MoveFacts DEF Gather, PreLoop
  <2>5. CASE Dump
    <3>1. /\ \/ pc'[Root] = "loop" /\ \A s \in Ranks : s # Root => pc'[s] = pc[s]
             \/ pc' = pc /\ step' = step
          /\ \A s \in Ranks : s # Root => step'[s] = step[s]
      BY <2>5, <1>0, GotoFacts DEF Dump, Dies, TypeOK
    <3>2. Placed(Root)' /\ Admitted(Root)'
      BY <2>5, <3>1, <1>1 DEF Dump, Placed, Admitted, PreLoop, RootOnly, Exchanging, InStep
    <3> QED
      BY <2>5, <3>1, <3>2, <1>0, <1>2, MoveFacts DEF Dump, PreLoop
  <2>6. CASE CloseFile
    <3>1. \/ pc'[Root] = "finalize" /\ \A s \in Ranks : s # Root => pc'[s] = pc[s]
          \/ pc' = pc
      BY <2>6, <1>0, GotoFacts DEF CloseFile, Dies
    <3>2. Placed(Root)' /\ Admitted(Root)'
      BY <2>6, <3>1, <1>1 DEF CloseFile, Placed, Admitted, PreLoop, RootOnly, Exchanging, InStep
    <3> QED
      BY <2>6, <3>1, <3>2, <1>0, <1>2, MoveFacts DEF CloseFile, PreLoop
  <2> QED
    BY <1>t, <2>1, <2>2, <2>3, <2>4, <2>5, <2>6 DEF RootStep
<1>a. ASSUME NEW r \in Ranks, EarlyReturn(r)
      PROVE  PlaceInv' /\ TotalInv' /\ DealInv'
  <2>1. CASE EarlyScatterReturns
    <3>1. pc'[Root] = "open" /\ \A s \in Ranks : s # Root => pc'[s] = pc[s]
      BY <2>1, <1>0, GotoFacts DEF EarlyScatterReturns, LeaveScatter
    <3>2. Placed(Root)' /\ Admitted(Root)'
      BY <2>1, <3>1, <1>1 DEF EarlyScatterReturns, LeaveScatter, Placed, Admitted, PreLoop, RootOnly, Exchanging, InStep
    <3> QED
      BY <2>1, <3>1, <3>2, <1>0, <1>2, MoveFacts DEF EarlyScatterReturns, LeaveScatter, PreLoop
  <2>2. CASE EarlySendrecvReturns(r)
    <3>1. \/ \E q : <<r, q>> \in Links /\ Call(r, q)
          \/ Goto(r, "compute") /\ UNCHANGED peer
      <4>1. r > 0 => <<r, r - 1>> \in Links
        BY LinkFacts
      <4> QED
        BY <2>2, <4>1 DEF EarlySendrecvReturns, LeaveSendrecv
    <3>2. /\ pc'[r] \in {"post", "compute"} /\ (pc'[r] = "post" => <<r, peer'[r]>> \in Links)
          /\ \A s \in Ranks : s # r => pc'[s] = pc[s] /\ peer'[s] = peer[s]
      <4>1. CASE \E q : <<r, q>> \in Links /\ Call(r, q)
        BY <4>1, <1>3
      <4>2. CASE Goto(r, "compute") /\ UNCHANGED peer
        BY <4>2, <1>0, GotoFacts
      <4> QED
        BY <3>1, <4>1, <4>2
    <3>3. Placed(r)' /\ Admitted(r)'
      BY <2>2, <3>2, <1>1 DEF EarlySendrecvReturns, LeaveSendrecv, Placed, Admitted, PreLoop, RootOnly, Exchanging, InStep
    <3> QED
      BY <2>2, <3>2, <3>3, <1>0, <1>2, MoveFacts DEF EarlySendrecvReturns, LeaveSendrecv, PreLoop
  <2>3. CASE EarlyGatherReturns(r)
    <3>1. /\ pc'[r] = (IF step[r] < tt THEN "loop" ELSE "finalize")
          /\ \A s \in Ranks : s # r => pc'[s] = pc[s] /\ step'[s] = step[s]
      BY <2>3, <1>0, GotoFacts DEF EarlyGatherReturns, LeaveGather, TypeOK
    <3>2. Placed(r)' /\ Admitted(r)'
      BY <2>3, <3>1, <1>1 DEF EarlyGatherReturns, LeaveGather, Placed, Admitted, PreLoop, RootOnly, Exchanging, InStep
    <3> QED
      BY <2>3, <3>1, <3>2, <1>0, <1>2, MoveFacts DEF EarlyGatherReturns, LeaveGather, PreLoop
  <2> QED
    BY <1>a, <2>1, <2>2, <2>3 DEF EarlyReturn
<1>j. CASE EndJob \/ Terminated
  BY <1>j, <1>0 DEF EndJob, Terminated, vars, PlaceInv, TotalInv, DealInv, Placed, Admitted
<1>n. ASSUME NEW r \in Ranks, UseNull(r)
      PROVE  PlaceInv' /\ TotalInv' /\ DealInv'
  BY <1>n, <1>0 DEF UseNull, Dies, PlaceInv, TotalInv, DealInv, Placed, Admitted
<1> QED
  BY <1>r, <1>t, <1>a, <1>j, <1>n DEF Next, ProcessStep

-----------------------------------------------------------------------------
(* Counts.  Most moves send and receive nothing, and keep every count. *)

LEMMA CountKept ==
    ASSUME IInv, NEW r \in Ranks, chan' = chan, up' = up,
           \A s \in Ranks : s # r => /\ pc'[s] = pc[s] /\ step'[s] = step[s]
                                    /\ peer'[s] = peer[s],
           \A q \in Ranks : <<r, q>> \in Links =>
               Sent(r, q)' = Sent(r, q) /\ Got(r, q)' = Got(r, q),
           r # Root => StripesSent(r)' = StripesSent(r),
           r = Root => StripesGot' = StripesGot
    PROVE  CountInv'
<1> USE RankFacts
<1>1. \A s, q \in Ranks : <<s, q>> \in Links =>
          Sent(s, q)' = Sent(s, q) /\ Got(s, q)' = Got(s, q)
  BY DEF Sent, Got, HasSent, HasGot
<1>2. StripesGot' = StripesGot
  BY DEF StripesGot
<1>3. \A s \in Others : StripesSent(s)' = StripesSent(s)
  BY DEF StripesSent, Others
<1>4. \A l \in Links : Len(chan'[l]) = Sent(l[1], l[2])' - Got(l[2], l[1])'
  <2> SUFFICES ASSUME NEW l \in Links
               PROVE  Len(chan'[l]) = Sent(l[1], l[2])' - Got(l[2], l[1])'
    OBVIOUS
  <2>1. /\ l[1] \in Ranks /\ l[2] \in Ranks /\ <<l[1], l[2]>> \in Links
        /\ <<l[2], l[1]>> \in Links
    BY LinkFacts
  <2> QED
    BY <1>1, <2>1 DEF IInv, CountInv
<1>5. (\A s \in Others : Len(up'[s]) = StripesSent(s)' - StripesGot') /\ up'[Root] = <<>>
  BY <1>2, <1>3 DEF IInv, CountInv
<1> QED
  BY <1>4, <1>5 DEF CountInv

(* A rank that leaves MPI_Sendrecv has sent and received what it had before. *)
LEMMA LeaveSendrecvCount ==
    ASSUME IInv, NEW r \in Ranks, pc[r] = "received", LeaveSendrecv(r)
    PROVE  CountInv'
<1> USE RankFacts DEF collVars, fileVars, procVars
<1>1. TypeOK /\ step[r] < tt /\ <<r, peer[r]>> \in Links
  BY DEF IInv, PlaceInv, Placed, Exchanging, InStep
<1>2. peer[r] = r - 1 \/ peer[r] = r + 1
  BY <1>1, LinkFacts DEF TypeOK
<1>3. \A q \in Ranks : <<r, q>> \in Links => q = r - 1 \/ q = r + 1
  BY LinkFacts
<1>4. /\ step' = step /\ chan' = chan /\ up' = up
      /\ \A s \in Ranks : s # r => pc'[s] = pc[s] /\ peer'[s] = peer[s]
      /\ \/ peer[r] = r + 1 /\ r > 0 /\ pc'[r] = "post" /\ peer'[r] = r - 1
         \/ ~(peer[r] = r + 1 /\ r > 0) /\ pc'[r] = "compute" /\ peer'[r] = peer[r]
  BY <1>1, GotoFacts DEF LeaveSendrecv, Call, TypeOK
<1>5. ASSUME NEW q \in Ranks, <<r, q>> \in Links
      PROVE  Sent(r, q)' = Sent(r, q) /\ Got(r, q)' = Got(r, q)
  <2>1. q = r - 1 \/ q = r + 1
    BY <1>3, <1>5
  <2>2. HasSent(r, q)' = HasSent(r, q)
    BY <1>2, <1>4, <2>1 DEF HasSent, Exchanging
  <2>3. HasGot(r, q)' = HasGot(r, q)
    BY <1>2, <1>4, <2>1 DEF HasGot, Exchanging
  <2> QED
    BY <1>4, <2>2, <2>3 DEF Sent, Got
<1>6. StripesSent(r)' = StripesSent(r) /\ (r = Root => StripesGot' = StripesGot)
  BY <1>4 DEF StripesSent, StripesGot
<1> QED
  BY <1>4, <1>5, <1>6, CountKept

(* The next step of a rank other than 0, or its end. *)
LEMMA LeaveGatherCount ==
    ASSUME IInv, NEW r \in Ranks, LeaveGather(r)
    PROVE  CountInv'
<1> USE RankFacts DEF p2pVars, collVars, fileVars, procVars
<1>1. TypeOK /\ r # Root /\ pc[r] = "gathering" /\ step[r] \in Nat
  <2>1. TypeOK /\ Placed(r) /\ pc[r] = "gathering"
    BY DEF IInv, PlaceInv, LeaveGather
  <2>2. step[r] \in 0 .. tt
    BY <2>1 DEF TypeOK
  <2> QED
    BY <2>1, <2>2 DEF Placed
<1>2. /\ chan' = chan /\ up' = up /\ peer' = peer
      /\ \A s \in Ranks : s # r => pc'[s] = pc[s] /\ step'[s] = step[s]
      /\ \/ step[r] < tt /\ step'[r] = step[r] + 1 /\ pc'[r] = "loop"
         \/ ~(step[r] < tt) /\ step'[r] = step[r] /\ pc'[r] = "finalize"
  BY <1>1, GotoFacts DEF LeaveGather, TypeOK
<1>3. ASSUME NEW q \in Ranks
      PROVE  Sent(r, q)' = Sent(r, q) /\ Got(r, q)' = Got(r, q)
  BY <1>1, <1>2 DEF Sent, Got, HasSent, HasGot, Exchanging
<1>4. StripesSent(r)' = StripesSent(r)
  BY <1>1, <1>2 DEF StripesSent
<1> QED
  BY <1>1, <1>2, <1>3, <1>4, CountKept

LEMMA CountType ==
    ASSUME TypeOK
    PROVE  /\ \A r \in Ranks : step[r] \in Nat /\ StripesSent(r) \in Int
           /\ \A r, q \in Ranks : Sent(r, q) \in Int /\ Got(r, q) \in Int
           /\ StripesGot \in Int
<1>1. \A r \in Ranks : step[r] \in 0 .. tt
  BY DEF TypeOK
<1>2. \A r \in Ranks : step[r] \in Nat
  BY <1>1, RankFacts
<1> QED
  BY <1>2, RankFacts DEF Sent, Got, StripesSent, StripesGot

LEMMA CountRankStep ==
    ASSUME IInv, NEW r \in Ranks, RankStep(r)
    PROVE  CountInv'
<1> USE RankFacts DEF p2pVars, collVars, fileVars, procVars
<1>a. TypeOK /\ PlaceInv /\ CountInv
  BY DEF IInv
<1>b. Placed(r) /\ step[r] \in Nat
  BY <1>a DEF PlaceInv, TypeOK
<1>1. CASE CheckTotal(r)
  <2>1. pc'[r] = "rank" /\ \A s \in Ranks : s # r => pc'[s] = pc[s]
    BY <1>1, <1>a, GotoFacts DEF CheckTotal
  <2>2. \A q \in Ranks : Sent(r, q)' = Sent(r, q) /\ Got(r, q)' = Got(r, q)
    BY <1>1, <2>1, <1>b DEF CheckTotal, Sent, Got, HasSent, HasGot, Exchanging, Placed, PreLoop, InStep
  <2>3. StripesSent(r)' = StripesSent(r) /\ (r = Root => StripesGot' = StripesGot)
    BY <1>1, <2>1, <1>b DEF CheckTotal, StripesSent, StripesGot, Placed, InStep
  <2> QED
    BY <1>1, <2>1, <2>2, <2>3, CountKept DEF CheckTotal
<1>2. CASE CommRank(r)
  <2>1. (pc'[r] = "alloc" \/ pc'[r] = pc[r]) /\ \A s \in Ranks : s # r => pc'[s] = pc[s]
    BY <1>2, <1>a, GotoFacts DEF CommRank, Dies
  <2>2. \A q \in Ranks : Sent(r, q)' = Sent(r, q) /\ Got(r, q)' = Got(r, q)
    BY <1>2, <2>1, <1>b DEF CommRank, Dies, Sent, Got, HasSent, HasGot, Exchanging, Placed, PreLoop, InStep
  <2>3. StripesSent(r)' = StripesSent(r) /\ (r = Root => StripesGot' = StripesGot)
    BY <1>2, <2>1, <1>b DEF CommRank, Dies, StripesSent, StripesGot, Placed, InStep
  <2> QED
    BY <1>2, <2>1, <2>2, <2>3, CountKept DEF CommRank, Dies
<1>3. CASE Allocate(r)
  <2>1. pc'[r] = "scatter" /\ \A s \in Ranks : s # r => pc'[s] = pc[s]
    BY <1>3, <1>a, GotoFacts DEF Allocate
  <2>2. \A q \in Ranks : Sent(r, q)' = Sent(r, q) /\ Got(r, q)' = Got(r, q)
    BY <1>3, <2>1, <1>b DEF Allocate, Sent, Got, HasSent, HasGot, Exchanging, Placed, PreLoop, InStep
  <2>3. StripesSent(r)' = StripesSent(r) /\ (r = Root => StripesGot' = StripesGot)
    BY <1>3, <2>1, <1>b DEF Allocate, StripesSent, StripesGot, Placed, InStep
  <2> QED
    BY <1>3, <2>1, <2>2, <2>3, CountKept DEF Allocate
<1>4. CASE TakeStripe(r)
  <2>1. pc'[r] = "loop" /\ \A s \in Ranks : s # r => pc'[s] = pc[s]
    BY <1>4, <1>a, GotoFacts DEF TakeStripe
  <2>2. \A q \in Ranks : Sent(r, q)' = Sent(r, q) /\ Got(r, q)' = Got(r, q)
    BY <1>4, <2>1, <1>b DEF TakeStripe, Sent, Got, HasSent, HasGot, Exchanging, Placed, PreLoop, InStep
  <2>3. StripesSent(r)' = StripesSent(r) /\ (r = Root => StripesGot' = StripesGot)
    BY <1>4, <2>1, <1>b DEF TakeStripe, StripesSent, StripesGot, Placed, InStep
  <2> QED
    BY <1>4, <2>1, <2>2, <2>3, CountKept DEF TakeStripe
<1>5. CASE EnterStep(r)
  <2>1. /\ step' = step /\ chan' = chan /\ up' = up
        /\ \A s \in Ranks : s # r => pc'[s] = pc[s] /\ peer'[s] = peer[s]
        /\ \/ pc'[r] = "post" /\ peer'[r] = r + 1
           \/ pc'[r] = "post" /\ peer'[r] = r - 1 /\ r + 1 \notin Ranks
           \/ pc'[r] = "compute" /\ r + 1 \notin Ranks /\ r - 1 \notin Ranks
    <3>1. pc[r] = "loop" /\ step' = step /\ chan' = chan /\ up' = up
      BY <1>5 DEF EnterStep
    <3>2. CASE r < Total - 1
      BY <1>5, <3>1, <3>2, <1>a, GotoFacts DEF EnterStep, Call, TypeOK
    <3>3. CASE ~(r < Total - 1) /\ r > 0
      <4>1. Call(r, r - 1) /\ r + 1 \notin Ranks
        BY <1>5, <3>3 DEF EnterStep
      <4> QED
        BY <4>1, <3>1, <1>a, GotoFacts DEF Call, TypeOK
    <3>4. CASE ~(r < Total - 1) /\ ~(r > 0)
      <4>1. Goto(r, "compute") /\ peer' = peer /\ r + 1 \notin Ranks /\ r - 1 \notin Ranks
        BY <1>5, <3>4 DEF EnterStep
      <4> QED
        BY <4>1, <3>1, <1>a, GotoFacts
    <3> QED
      BY <3>2, <3>3, <3>4
  <2>2. pc[r] = "loop"
    BY <1>5 DEF EnterStep
  <2>3. ASSUME NEW q \in Ranks, <<r, q>> \in Links
        PROVE  Sent(r, q)' = Sent(r, q) /\ Got(r, q)' = Got(r, q)
    <3>1. q = r - 1 \/ q = r + 1
      BY <2>3, LinkFacts
    <3>2. ~HasSent(r, q) /\ ~HasGot(r, q)
      BY <2>2 DEF HasSent, HasGot, Exchanging
    <3>3. ~HasSent(r, q)' /\ ~HasGot(r, q)'
      BY <2>1, <3>1 DEF HasSent, HasGot, Exchanging
    <3> QED
      BY <2>1, <3>2, <3>3 DEF Sent, Got
  <2>4. StripesSent(r)' = StripesSent(r) /\ (r = Root => StripesGot' = StripesGot)
    BY <2>1, <2>2 DEF StripesSent, StripesGot
  <2> QED
    BY <2>1, <2>3, <2>4, CountKept
<1>6. CASE Post(r)
  <2> DEFINE p == peer[r]
  <2>1. /\ pc[r] = "post" /\ step' = step /\ up' = up /\ peer' = peer
        /\ pc'[r] = "receive" /\ \A s \in Ranks : s # r => pc'[s] = pc[s]
    BY <1>6, <1>a, GotoFacts DEF Post
  <2>2. <<r, p>> \in Links /\ p \in Ranks
    BY <2>1, <1>a, <1>b DEF Placed, Exchanging, TypeOK
  <2>3. p # r /\ (p = r - 1 \/ p = r + 1)
    BY <2>2, LinkFacts
  <2>4. Sent(r, p) = step[r] /\ Sent(r, p)' = step[r] + 1
    BY <2>1, <2>3 DEF Sent, HasSent, Exchanging
  <2>5. \A a, b \in Ranks : <<a, b>> # <<r, p>> => Sent(a, b)' = Sent(a, b)
    BY <2>1, <2>2, <2>3 DEF Sent, HasSent, Exchanging
  <2>6. \A a, b \in Ranks : Got(a, b)' = Got(a, b)
    BY <2>1, <2>2, <2>3 DEF Got, HasGot, Exchanging
  <2>7. Len(chan'[<<r, p>>]) = Len(chan[<<r, p>>]) + 1
        /\ \A l \in Links : l # <<r, p>> => chan'[l] = chan[l]
    <3>1. chan[<<r, p>>] \in Seq(Int) /\ stripe[r] \in [Slots -> Int]
      BY <1>a, <2>2 DEF TypeOK
    <3>2. Edge(r) \in Int
      BY <3>1 DEF Edge
    <3>3. Len(Append(chan[<<r, p>>], Edge(r))) = Len(chan[<<r, p>>]) + 1
      BY <3>1, <3>2, SendFacts
    <3> QED
      BY <1>6, <3>3, <1>a, <2>2 DEF Post, TypeOK
  <2>8. ASSUME NEW l \in Links
        PROVE  Len(chan'[l]) = Sent(l[1], l[2])' - Got(l[2], l[1])'
    <3>1. l = <<l[1], l[2]>> /\ l[1] \in Ranks /\ l[2] \in Ranks
      BY LinkFacts
    <3>2. /\ Len(chan[l]) = Sent(l[1], l[2]) - Got(l[2], l[1])
          /\ Sent(l[1], l[2]) \in Int /\ Got(l[2], l[1]) \in Int
      BY <1>a, <3>1, CountType DEF CountInv
    <3>3. CASE l = <<r, p>>
      <4>1. l[1] = r /\ l[2] = p
        BY <3>3
      <4>2. /\ Sent(l[1], l[2]) = step[r] /\ Sent(l[1], l[2])' = step[r] + 1
            /\ Got(l[2], l[1])' = Got(l[2], l[1]) /\ Len(chan'[l]) = Len(chan[l]) + 1
        BY <4>1, <3>1, <3>3, <2>1, <2>4, <2>6, <2>7
      <4> QED
        BY <4>2, <3>2, <1>b
    <3>4. CASE l # <<r, p>>
      <4>1. <<l[1], l[2]>> # <<r, p>>
        BY <3>1, <3>4
      <4>2. /\ Sent(l[1], l[2])' = Sent(l[1], l[2])
            /\ Got(l[2], l[1])' = Got(l[2], l[1]) /\ chan'[l] = chan[l]
        BY <4>1, <3>1, <3>4, <2>5, <2>6, <2>7
      <4> QED
        BY <4>2, <3>2
    <3> QED
      BY <3>3, <3>4
  <2>9. \A s \in Ranks : StripesSent(s)' = StripesSent(s) /\ StripesGot' = StripesGot
    BY <2>1 DEF StripesSent, StripesGot
  <2> QED
    BY <1>a, <2>1, <2>8, <2>9 DEF CountInv
<1>7. CASE Receive(r)
  <2> DEFINE p == peer[r]
  <2>1. /\ pc[r] = "receive" /\ step' = step /\ up' = up /\ peer' = peer
        /\ pc'[r] = "received" /\ \A s \in Ranks : s # r => pc'[s] = pc[s]
    BY <1>7, <1>a, GotoFacts DEF Receive
  <2>2. <<p, r>> \in Links /\ p \in Ranks /\ (p = r - 1 \/ p = r + 1)
    <3>1. <<r, p>> \in Links /\ p \in Ranks
      BY <2>1, <1>a, <1>b DEF Placed, Exchanging, TypeOK
    <3> QED
      BY <3>1, LinkFacts
  <2>4. Got(r, p) = step[r] /\ Got(r, p)' = step[r] + 1
    BY <2>1, <2>2 DEF Got, HasGot, Exchanging
  <2>5. \A a, b \in Ranks : <<a, b>> # <<r, p>> => Got(a, b)' = Got(a, b)
    BY <2>1, <2>2 DEF Got, HasGot, Exchanging
  <2>6. \A a, b \in Ranks : Sent(a, b)' = Sent(a, b)
    BY <2>1, <2>2 DEF Sent, HasSent, Exchanging
  <2>7. Len(chan'[<<p, r>>]) = Len(chan[<<p, r>>]) - 1
        /\ \A l \in Links : l # <<p, r>> => chan'[l] = chan[l]
    <3>1. chan[<<p, r>>] \in Seq(Int) /\ chan[<<p, r>>] # <<>>
      BY <1>7, <1>a, <2>2 DEF TypeOK, Receive
    <3>2. Len(Tail(chan[<<p, r>>])) = Len(chan[<<p, r>>]) - 1
      BY <3>1, TakeFacts
    <3> QED
      BY <1>7, <3>2, <1>a, <2>2 DEF Receive, TypeOK
  <2>8. ASSUME NEW l \in Links
        PROVE  Len(chan'[l]) = Sent(l[1], l[2])' - Got(l[2], l[1])'
    <3>1. l = <<l[1], l[2]>> /\ l[1] \in Ranks /\ l[2] \in Ranks
      BY LinkFacts
    <3>2. /\ Len(chan[l]) = Sent(l[1], l[2]) - Got(l[2], l[1])
          /\ Sent(l[1], l[2]) \in Int /\ Got(l[2], l[1]) \in Int
      BY <1>a, <3>1, CountType DEF CountInv
    <3>3. CASE l = <<p, r>>
      <4>1. l[1] = p /\ l[2] = r
        BY <3>3
      <4>2. /\ Got(l[2], l[1]) = step[r] /\ Got(l[2], l[1])' = step[r] + 1
            /\ Sent(l[1], l[2])' = Sent(l[1], l[2]) /\ Len(chan'[l]) = Len(chan[l]) - 1
        BY <4>1, <3>1, <3>3, <2>1, <2>4, <2>6, <2>7
      <4> QED
        BY <4>2, <3>2, <1>b
    <3>4. CASE l # <<p, r>>
      <4>1. <<l[2], l[1]>> # <<r, p>>
        BY <3>1, <3>4
      <4>2. /\ Got(l[2], l[1])' = Got(l[2], l[1])
            /\ Sent(l[1], l[2])' = Sent(l[1], l[2]) /\ chan'[l] = chan[l]
        BY <4>1, <3>1, <3>4, <2>5, <2>6, <2>7
      <4> QED
        BY <4>2, <3>2
    <3> QED
      BY <3>3, <3>4
  <2>9. \A s \in Ranks : StripesSent(s)' = StripesSent(s) /\ StripesGot' = StripesGot
    BY <2>1 DEF StripesSent, StripesGot
  <2> QED
    BY <1>a, <2>1, <2>8, <2>9 DEF CountInv
<1>8. CASE SendrecvReturns(r)
  BY <1>8, LeaveSendrecvCount DEF SendrecvReturns
<1>9. CASE TimeStep(r)
  <2>1. pc'[r] = "gather" /\ \A s \in Ranks : s # r => pc'[s] = pc[s]
    BY <1>9, <1>a, GotoFacts DEF TimeStep
  <2>2. \A q \in Ranks : Sent(r, q)' = Sent(r, q) /\ Got(r, q)' = Got(r, q)
    BY <1>9, <2>1, <1>b DEF TimeStep, Sent, Got, HasSent, HasGot, Exchanging, Placed, PreLoop, InStep
  <2>3. StripesSent(r)' = StripesSent(r) /\ (r = Root => StripesGot' = StripesGot)
    BY <1>9, <2>1, <1>b DEF TimeStep, StripesSent, StripesGot, Placed, InStep
  <2> QED
    BY <1>9, <2>1, <2>2, <2>3, CountKept DEF TimeStep
<1>10. CASE LeaveLoop(r)
  <2>1. pc'[r] = "gather" /\ \A s \in Ranks : s # r => pc'[s] = pc[s]
    BY <1>10, <1>a, GotoFacts DEF LeaveLoop
  <2>2. \A q \in Ranks : Sent(r, q)' = Sent(r, q) /\ Got(r, q)' = Got(r, q)
    BY <1>10, <2>1, <1>b DEF LeaveLoop, Sent, Got, HasSent, HasGot, Exchanging, Placed, PreLoop, InStep
  <2>3. StripesSent(r)' = StripesSent(r) /\ (r = Root => StripesGot' = StripesGot)
    BY <1>10, <2>1, <1>b DEF LeaveLoop, StripesSent, StripesGot, Placed, InStep
  <2> QED
    BY <1>10, <2>1, <2>2, <2>3, CountKept DEF LeaveLoop
<1>11. CASE SendStripe(r)
  <2>1. /\ pc[r] = "gather" /\ step' = step /\ chan' = chan /\ peer' = peer /\ r # Root
        /\ pc'[r] = "gathering" /\ \A s \in Ranks : s # r => pc'[s] = pc[s]
    BY <1>11, <1>a, GotoFacts DEF SendStripe
  <2>2. \A a, b \in Ranks : Sent(a, b)' = Sent(a, b) /\ Got(a, b)' = Got(a, b)
    BY <2>1 DEF Sent, Got, HasSent, HasGot, Exchanging
  <2>3. /\ StripesSent(r)' = StripesSent(r) + 1 /\ StripesGot' = StripesGot
        /\ \A s \in Ranks : s # r => StripesSent(s)' = StripesSent(s)
    BY <2>1, <1>b DEF StripesSent, StripesGot
  <2>4. /\ Len(up'[r]) = Len(up[r]) + 1
        /\ \A s \in Ranks : s # r => up'[s] = up[s]
    <3>1. up[r] \in Seq([Slots -> Int]) /\ stripe[r] \in [Slots -> Int]
      BY <1>a DEF TypeOK
    <3>2. Len(Append(up[r], stripe[r])) = Len(up[r]) + 1
      BY <3>1, SendFacts
    <3> QED
      BY <1>11, <3>2, <1>a DEF SendStripe, TypeOK
  <2>5. \A l \in Links : Len(chan'[l]) = Sent(l[1], l[2])' - Got(l[2], l[1])'
    BY <1>a, <2>1, <2>2, LinkFacts DEF CountInv
  <2>6. ASSUME NEW s \in Others
        PROVE  Len(up'[s]) = StripesSent(s)' - StripesGot'
    <3>1. Len(up[s]) = StripesSent(s) - StripesGot /\ StripesSent(s) \in Int /\ StripesGot \in Int
      BY <1>a, CountType DEF CountInv
    <3>2. s \in Ranks
      OBVIOUS
    <3> QED
      BY <3>1, <3>2, <2>3, <2>4
  <2>7. up'[Root] = <<>>
    BY <1>a, <2>1, <2>4 DEF CountInv
  <2> QED
    BY <2>5, <2>6, <2>7 DEF CountInv
<1>12. CASE GatherReturns(r)
  BY <1>12, LeaveGatherCount DEF GatherReturns
<1>13. CASE Finalize(r)
  <2>1. pc'[r] = "done" /\ \A s \in Ranks : s # r => pc'[s] = pc[s]
    BY <1>13, <1>a, GotoFacts DEF Finalize
  <2>2. \A q \in Ranks : Sent(r, q)' = Sent(r, q) /\ Got(r, q)' = Got(r, q)
    BY <1>13, <2>1, <1>b DEF Finalize, Sent, Got, HasSent, HasGot, Exchanging, Placed, PreLoop, InStep
  <2>3. StripesSent(r)' = StripesSent(r) /\ (r = Root => StripesGot' = StripesGot)
    BY <1>13, <2>1, <1>b DEF Finalize, StripesSent, StripesGot, Placed, InStep
  <2> QED
    BY <1>13, <2>1, <2>2, <2>3, CountKept DEF Finalize
<1> QED
  BY <1>1, <1>2, <1>3, <1>4, <1>5, <1>6, <1>7, <1>8, <1>9, <1>10, <1>11, <1>12,
     <1>13 DEF RankStep

LEMMA CountRootStep ==
    ASSUME IInv, RootStep
    PROVE  CountInv'
<1> USE RankFacts DEF p2pVars, collVars, fileVars, procVars
<1>a. TypeOK /\ PlaceInv /\ CountInv
  BY DEF IInv
<1>b. Placed(Root) /\ step[Root] \in Nat
  BY <1>a, CountType DEF PlaceInv
<1>c. ASSUME chan' = chan, up' = up,
             \A s \in Ranks : s # Root => /\ pc'[s] = pc[s] /\ step'[s] = step[s]
                                         /\ peer'[s] = peer[s],
             \A q \in Ranks : Sent(Root, q)' = Sent(Root, q) /\ Got(Root, q)' = Got(Root, q),
             StripesGot' = StripesGot
      PROVE  CountInv'
  BY <1>c, CountKept
<1>1. CASE Deal
  <2>1. pc'[Root] = "dealt" /\ \A s \in Ranks : s # Root => pc'[s] = pc[s]
    BY <1>1, <1>a, GotoFacts DEF Deal
  <2>2. \A q \in Ranks : Sent(Root, q)' = Sent(Root, q) /\ Got(Root, q)' = Got(Root, q)
    BY <1>1, <2>1, <1>b DEF Deal, Sent, Got, HasSent, HasGot, Exchanging
  <2>3. StripesGot' = StripesGot
    BY <1>1, <2>1, <1>b DEF Deal, StripesGot
  <2> QED
    BY <1>1, <2>1, <2>2, <2>3, <1>c DEF Deal
<1>2. CASE ScatterReturns
  <2>1. pc'[Root] = "open" /\ \A s \in Ranks : s # Root => pc'[s] = pc[s]
    BY <1>2, <1>a, GotoFacts DEF ScatterReturns, LeaveScatter
  <2>2. \A q \in Ranks : Sent(Root, q)' = Sent(Root, q) /\ Got(Root, q)' = Got(Root, q)
    BY <1>2, <2>1, <1>b DEF ScatterReturns, LeaveScatter, Sent, Got, HasSent, HasGot, Exchanging
  <2>3. StripesGot' = StripesGot
    BY <1>2, <2>1, <1>b DEF ScatterReturns, LeaveScatter, StripesGot
  <2> QED
    BY <1>2, <2>1, <2>2, <2>3, <1>c DEF ScatterReturns, LeaveScatter
<1>3. CASE OpenFile
  <2>1. pc'[Root] = "loop" /\ \A s \in Ranks : s # Root => pc'[s] = pc[s]
    BY <1>3, <1>a, GotoFacts DEF OpenFile
  <2>2. \A q \in Ranks : Sent(Root, q)' = Sent(Root, q) /\ Got(Root, q)' = Got(Root, q)
    BY <1>3, <2>1, <1>b DEF OpenFile, Sent, Got, HasSent, HasGot, Exchanging
  <2>3. StripesGot' = StripesGot
    BY <1>3, <2>1, <1>b DEF OpenFile, StripesGot
  <2> QED
    BY <1>3, <2>1, <2>2, <2>3, <1>c DEF OpenFile
<1>4. CASE Gather
  <2>1. /\ pc[Root] = "gather" /\ step' = step /\ chan' = chan /\ peer' = peer
        /\ pc'[Root] = (IF step[Root] < tt THEN "dump" ELSE "close")
        /\ \A s \in Ranks : s # Root => pc'[s] = pc[s]
    BY <1>4, <1>a, GotoFacts DEF Gather
  <2>2. \A a, b \in Ranks : Sent(a, b)' = Sent(a, b) /\ Got(a, b)' = Got(a, b)
    BY <2>1 DEF Sent, Got, HasSent, HasGot, Exchanging
  <2>3. StripesGot' = StripesGot + 1
    BY <2>1, <1>b DEF StripesGot
  <2>4. \A s \in Others : StripesSent(s)' = StripesSent(s)
    BY <2>1 DEF StripesSent, Others
  <2>5. \A l \in Links : Len(chan'[l]) = Sent(l[1], l[2])' - Got(l[2], l[1])'
    <3> SUFFICES ASSUME NEW l \in Links
                 PROVE  Len(chan'[l]) = Sent(l[1], l[2])' - Got(l[2], l[1])'
      OBVIOUS
    <3>1. l[1] \in Ranks /\ l[2] \in Ranks
      BY LinkFacts
    <3> QED
      BY <3>1, <1>a, <2>1, <2>2 DEF CountInv
  <2>6. ASSUME NEW s \in Others
        PROVE  Len(up'[s]) = StripesSent(s)' - StripesGot'
    <3>1. up[s] \in Seq([Slots -> Int]) /\ up[s] # <<>> /\ up'[s] = Tail(up[s])
      BY <1>4, <1>a DEF TypeOK, Gather, Others
    <3>2. Len(up'[s]) = Len(up[s]) - 1
      BY <3>1, TakeFacts
    <3>3. Len(up[s]) = StripesSent(s) - StripesGot /\ StripesSent(s) \in Int /\ StripesGot \in Int
      BY <1>a, CountType DEF CountInv
    <3> QED
      BY <3>2, <3>3, <2>3, <2>4
  <2>7. up'[Root] = <<>>
    BY <1>4, <1>a DEF Gather, CountInv
  <2> QED
    BY <2>5, <2>6, <2>7 DEF CountInv
<1>5. CASE Dump
  <2>1. /\ pc[Root] = "dump" /\ step[Root] < tt /\ chan' = chan /\ up' = up /\ peer' = peer
        /\ \A s \in Ranks : s # Root => pc'[s] = pc[s] /\ step'[s] = step[s]
        /\ \/ pc'[Root] = "loop" /\ step'[Root] = step[Root] + 1
           \/ pc'[Root] = pc[Root] /\ step'[Root] = step[Root]
    <3>1. pc[Root] = "dump" /\ step[Root] < tt /\ chan' = chan /\ up' = up /\ peer' = peer
      BY <1>5, <1>b DEF Dump, Placed, InStep
    <3>2. \/ Goto(Root, "loop") /\ step' = [step EXCEPT ![Root] = @ + 1]
          \/ UNCHANGED <<pc, step>>
      BY <1>5 DEF Dump, Dies
    <3> QED
      BY <3>1, <3>2, <1>a, GotoFacts DEF TypeOK
  <2>2. \A q \in Ranks : Sent(Root, q)' = Sent(Root, q) /\ Got(Root, q)' = Got(Root, q)
    BY <2>1, <1>b DEF Sent, Got, HasSent, HasGot, Exchanging
  <2>3. StripesGot' = StripesGot
    BY <2>1, <1>b DEF StripesGot
  <2> QED
    BY <2>1, <2>2, <2>3, <1>c
<1>6. CASE CloseFile
  <2>1. (pc'[Root] = "finalize" \/ pc'[Root] = pc[Root]) /\ \A s \in Ranks : s # Root => pc'[s] = pc[s]
    BY <1>6, <1>a, GotoFacts DEF CloseFile, Dies
  <2>2. \A q \in Ranks : Sent(Root, q)' = Sent(Root, q) /\ Got(Root, q)' = Got(Root, q)
    BY <1>6, <2>1, <1>b DEF CloseFile, Dies, Sent, Got, HasSent, HasGot, Exchanging
  <2>3. StripesGot' = StripesGot
    BY <1>6, <2>1, <1>b DEF CloseFile, Dies, StripesGot
  <2> QED
    BY <1>6, <2>1, <2>2, <2>3, <1>c DEF CloseFile, Dies
<1> QED
  BY <1>1, <1>2, <1>3, <1>4, <1>5, <1>6 DEF RootStep

LEMMA CountStep == IInv /\ Next => CountInv'
<1> SUFFICES ASSUME IInv, Next PROVE CountInv'
  OBVIOUS
<1> USE RankFacts DEF p2pVars, collVars, fileVars, procVars
<1>1. ASSUME NEW r \in Ranks, EarlyReturn(r) PROVE CountInv'
  <2>1. CASE EarlyScatterReturns
    <3>1. pc'[Root] = "open" /\ \A s \in Ranks : s # Root => pc'[s] = pc[s]
      BY <2>1, GotoFacts DEF EarlyScatterReturns, LeaveScatter, IInv
    <3>2. \A q \in Ranks : Sent(Root, q)' = Sent(Root, q) /\ Got(Root, q)' = Got(Root, q)
      BY <2>1, <3>1 DEF EarlyScatterReturns, LeaveScatter, Sent, Got, HasSent, HasGot, Exchanging
    <3>3. StripesGot' = StripesGot
      BY <2>1, <3>1 DEF EarlyScatterReturns, LeaveScatter, StripesGot
    <3> QED
      BY <2>1, <3>1, <3>2, <3>3, CountKept DEF EarlyScatterReturns, LeaveScatter
  <2>2. CASE EarlySendrecvReturns(r)
    BY <2>2, LeaveSendrecvCount DEF EarlySendrecvReturns
  <2>3. CASE EarlyGatherReturns(r)
    BY <2>3, LeaveGatherCount DEF EarlyGatherReturns
  <2> QED
    BY <1>1, <2>1, <2>2, <2>3 DEF EarlyReturn
<1>2. CASE EndJob \/ Terminated \/ \E r \in Ranks : UseNull(r)
  <2>1. UNCHANGED <<pc, step, peer, chan, up>>
    BY <1>2 DEF EndJob, Terminated, UseNull, Dies, vars
  <2>2. /\ \A r, q : Sent(r, q)' = Sent(r, q) /\ Got(r, q)' = Got(r, q)
        /\ StripesGot' = StripesGot /\ \A r : StripesSent(r)' = StripesSent(r)
    BY <2>1 DEF Sent, Got, HasSent, HasGot, StripesSent, StripesGot
  <2> QED
    BY <2>1, <2>2 DEF CountInv, IInv
<1> QED
  BY <1>1, <1>2, CountRankStep, CountRootStep DEF Next, ProcessStep

-----------------------------------------------------------------------------
(***************************************************************************)
(* A rank that starts its next step has received the edge values its       *)
(* neighbours sent in this one, so that they are no step behind it; and    *)
(* rank 0 has a stripe of this step from everyone.                         *)
(***************************************************************************)
LEMMA NeighbourNotBehind ==
    ASSUME IInv, NEW r \in Ranks, NEW n \in Ranks, <<n, r>> \in Links, HasGot(r, n)
    PROVE  step[n] >= step[r]
<1>1. Len(chan[<<n, r>>]) = Sent(n, r) - Got(r, n) /\ Len(chan[<<n, r>>]) \in Nat
  <2>1. chan[<<n, r>>] \in Seq(Int)
    BY DEF IInv, TypeOK
  <2> QED
    BY <2>1, TakeFacts DEF IInv, CountInv
<1>2. Got(r, n) = step[r] + 1
  BY DEF Got
<1>3. Sent(n, r) = step[n] + 1 \/ Sent(n, r) = step[n]
  BY DEF Sent
<1>4. step[n] \in Nat /\ step[r] \in Nat
  BY CountType DEF IInv
<1> QED
  BY <1>1, <1>2, <1>3, <1>4

LEMMA NobodyBehindRoot ==
    ASSUME IInv, NEW q \in Ranks, pc[Root] = "dump"
    PROVE  step[q] >= step[Root]
<1> USE RankFacts
<1>1. CASE q = Root
  BY <1>1, CountType DEF IInv
<1>2. CASE q # Root
  <2>1. q \in Others
    BY <1>2 DEF Others
  <2>2. up[q] \in Seq([Slots -> Int])
    BY DEF IInv, TypeOK
  <2>3. Len(up[q]) \in Nat /\ Len(up[q]) = StripesSent(q) - StripesGot
    BY <2>1, <2>2, TakeFacts DEF IInv, CountInv
  <2>4. StripesGot = step[Root] + 1
    BY DEF StripesGot
  <2>5. StripesSent(q) = step[q] + 1 \/ StripesSent(q) = step[q]
    BY DEF StripesSent
  <2>6. step[q] \in Nat /\ step[Root] \in Nat
    BY CountType DEF IInv
  <2> QED
    BY <2>3, <2>4, <2>5, <2>6
<1> QED
  BY <1>1, <1>2

(* One rank goes on to its next step, with no neighbour behind it. *)
LEMMA SkewKept ==
    ASSUME IInv, NEW r \in Ranks, pc[r] \in {"gathering", "dump"}, step[r] < tt,
           step'[r] = step[r] + 1,
           \A s \in Ranks : s # r => step'[s] = step[s]
    PROVE  SkewBounded'
<1> USE RankFacts
<1>0. SkewBounded /\ \A s \in Ranks : step[s] \in Nat
  BY CountType DEF IInv
<1>1. \A n \in Ranks : n = r - 1 \/ n = r + 1 => step[n] >= step[r]
  <2> SUFFICES ASSUME NEW n \in Ranks, n = r - 1 \/ n = r + 1
               PROVE  step[n] >= step[r]
    OBVIOUS
  <2>1. r = n - 1 \/ r = n + 1
    OBVIOUS
  <2>2. <<n, r>> \in Links
    BY <2>1, LinkFacts
  <2>3. HasGot(r, n)
    BY DEF HasGot
  <2> QED
    BY <2>2, <2>3, NeighbourNotBehind
<1>2. ASSUME NEW q \in Ranks, q # r
      PROVE  step[r] + 1 - step[q] <= Distance(r, q)
  <2>1. CASE r < q
    <3>1. r + 1 \in Ranks /\ step[r + 1] - step[q] <= Distance(r + 1, q)
      BY <2>1, <1>0 DEF SkewBounded
    <3>2. step[r + 1] >= step[r]
      BY <3>1, <1>1
    <3>3. Distance(r, q) = q - r /\ Distance(r + 1, q) = q - r - 1
      BY <2>1 DEF Distance
    <3> QED
      BY <3>1, <3>2, <3>3, <1>0
  <2>2. CASE q < r
    <3>1. r - 1 \in Ranks /\ step[r - 1] - step[q] <= Distance(r - 1, q)
      BY <2>2, <1>0 DEF SkewBounded
    <3>2. step[r - 1] >= step[r]
      BY <3>1, <1>1
    <3>3. Distance(r, q) = r - q /\ Distance(r - 1, q) = r - q - 1
      BY <2>2 DEF Distance
    <3> QED
      BY <3>1, <3>2, <3>3, <1>0
  <2> QED
    BY <1>2, <2>1, <2>2
<1>3. ASSUME r = Root, NEW q \in Ranks
      PROVE  step[q] >= step[Root]
  <2>1. pc[Root] = "dump"
    BY <1>3 DEF IInv, PlaceInv, Placed
  <2> QED
    BY <2>1, NobodyBehindRoot
<1>4. ASSUME NEW a \in Ranks, NEW b \in Ranks
      PROVE  step'[a] - step'[b] <= Distance(a, b)
  <2>1. step[a] - step[b] <= Distance(a, b)
    BY <1>0 DEF SkewBounded
  <2>2. CASE a = r /\ b # r
    <3>1. step[r] + 1 - step[b] <= Distance(r, b)
      BY <2>2, <1>2
    <3>2. step'[a] = step[r] + 1 /\ step'[b] = step[b] /\ Distance(a, b) = Distance(r, b)
      BY <2>2
    <3>3. step[r] \in Nat /\ step[b] \in Nat /\ Distance(a, b) \in Int
      BY <1>0 DEF Distance
    <3> QED
      BY <3>1, <3>2, <3>3
  <2>3. CASE a = r /\ b = r
    BY <2>1, <2>3, <1>0
  <2>4. CASE a # r
    BY <2>1, <2>4, <1>0 DEF Distance
  <2> QED
    BY <2>2, <2>3, <2>4
<1>5. ASSUME NEW b \in Ranks
      PROVE  step'[Root] - step'[b] <= 1
  <2>1. step[Root] - step[b] <= 1
    BY <1>0 DEF SkewBounded
  <2>2. CASE r = Root
    BY <2>1, <2>2, <1>0, <1>3
  <2>3. CASE r # Root
    BY <2>1, <2>3, <1>0
  <2> QED
    BY <2>2, <2>3
<1> QED
  BY <1>4, <1>5 DEF SkewBounded, Distance

LEMMA SkewStep == IInv /\ Next => SkewBounded'
<1> SUFFICES ASSUME IInv, Next PROVE SkewBounded'
  OBVIOUS
<1> USE RankFacts
<1>1. CASE UNCHANGED step
  BY <1>1 DEF IInv, SkewBounded, Distance
<1>2. ASSUME NEW r \in Ranks, LeaveGather(r)
      PROVE  SkewBounded'
  <2>1. CASE step[r] < tt
    <3>1. pc[r] = "gathering" /\ step' = [step EXCEPT ![r] = step[r] + 1]
      BY <1>2, <2>1 DEF LeaveGather
    <3>2. step'[r] = step[r] + 1 /\ \A s \in Ranks : s # r => step'[s] = step[s]
      BY <3>1 DEF IInv, TypeOK
    <3> QED
      BY <3>1, <3>2, <2>1, SkewKept
  <2>2. CASE ~(step[r] < tt)
    BY <1>2, <2>2, <1>1 DEF LeaveGather
  <2> QED
    BY <2>1, <2>2
<1>3. CASE Dump
  <2>1. CASE step' = [step EXCEPT ![Root] = step[Root] + 1]
    <3>1. pc[Root] = "dump" /\ step[Root] < tt
      BY <1>3 DEF Dump, IInv, PlaceInv, Placed, InStep
    <3>2. step'[Root] = step[Root] + 1 /\ \A s \in Ranks : s # Root => step'[s] = step[s]
      BY <2>1 DEF IInv, TypeOK
    <3> QED
      BY <3>1, <3>2, SkewKept
  <2> QED
    BY <1>3, <2>1, <1>1 DEF Dump
<1>4. ASSUME NEW r \in Ranks, RankStep(r), ~GatherReturns(r)
      PROVE  UNCHANGED step
  BY <1>4 DEF RankStep, CheckTotal, CommRank, Allocate, TakeStripe, EnterStep, Post,
     Receive, SendrecvReturns, LeaveSendrecv, TimeStep, LeaveLoop, SendStripe, Finalize
<1>5. ASSUME RootStep, ~Dump
      PROVE  UNCHANGED step
  BY <1>5 DEF RootStep, Deal, ScatterReturns, LeaveScatter, OpenFile, Gather, CloseFile
<1>6. ASSUME NEW r \in Ranks, EarlyReturn(r), ~EarlyGatherReturns(r)
      PROVE  UNCHANGED step
  BY <1>6 DEF EarlyReturn, EarlyScatterReturns, LeaveScatter, EarlySendrecvReturns, LeaveSendrecv
<1>7. CASE EndJob \/ Terminated \/ \E r \in Ranks : UseNull(r)
  BY <1>7, <1>1 DEF EndJob, Terminated, UseNull, vars
<1>8. ASSUME NEW r \in Ranks, ProcessStep(r)
      PROVE  SkewBounded'
  BY <1>8, <1>1, <1>2, <1>3, <1>4, <1>5 DEF ProcessStep, GatherReturns
<1>9. ASSUME NEW r \in Ranks, EarlyReturn(r)
      PROVE  SkewBounded'
  BY <1>9, <1>1, <1>2, <1>6 DEF EarlyGatherReturns
<1> QED
  BY <1>7, <1>8, <1>9 DEF Next

-----------------------------------------------------------------------------
(* What follows from the invariant. *)

(* No queue is longer than its two ends are apart. *)
LEMMA BuffersFollow == IInv => BuffersBounded
<1> SUFFICES ASSUME IInv PROVE BuffersBounded
  OBVIOUS
<1> USE RankFacts
<1>0. SkewBounded /\ CountInv /\ TypeOK /\ \A r \in Ranks : step[r] \in Nat
  BY CountType DEF IInv
<1>1. ASSUME NEW l \in Links
      PROVE  Len(chan[l]) <= 2
  <2>1. PICK a \in Ranks, b \in Ranks : l[1] = a /\ l[2] = b /\ (b = a - 1 \/ b = a + 1)
    BY LinkFacts
  <2>2. step[a] - step[b] <= 1
    BY <2>1, <1>0 DEF SkewBounded, Distance
  <2>3. Sent(a, b) = step[a] + 1 \/ Sent(a, b) = step[a]
    BY DEF Sent
  <2>4. Got(b, a) = step[b] + 1 \/ Got(b, a) = step[b]
    BY DEF Got
  <2>5. Len(chan[l]) = Sent(a, b) - Got(b, a)
    BY <1>0, <2>1 DEF CountInv
  <2>6. step[a] \in Nat /\ step[b] \in Nat
    BY <1>0
  <2>7. Sent(a, b) \in Int /\ Got(b, a) \in Int
    BY <2>3, <2>4, <2>6
  <2>8. Sent(a, b) <= step[a] + 1 /\ step[b] <= Got(b, a)
    BY <2>3, <2>4, <2>6
  <2> QED
    BY <2>2, <2>5, <2>6, <2>7, <2>8
<1>2. ASSUME NEW r \in Ranks
      PROVE  Len(up[r]) <= r + 1
  <2>1. CASE r = Root
    <3>1. up[r] = <<>> /\ up[r] \in Seq([Slots -> Int])
      BY <2>1, <1>0 DEF CountInv, TypeOK
    <3>2. Len(up[r]) = 0
      BY <3>1, TakeFacts
    <3> QED
      BY <3>2
  <2>2. CASE r # Root
    <3>1. step[r] - step[Root] <= r
      <4>1. step[r] - step[Root] <= Distance(r, Root)
        BY <1>0 DEF SkewBounded
      <4> QED
        BY <4>1, <2>2, <1>0 DEF Distance, Root
    <3>2. /\ StripesSent(r) <= step[r] + 1 /\ StripesGot >= step[Root]
          /\ StripesSent(r) \in Int /\ StripesGot \in Int
      BY <1>0, CountType DEF StripesSent, StripesGot
    <3>3. Len(up[r]) = StripesSent(r) - StripesGot
      BY <1>0, <2>2 DEF CountInv, Others
    <3> QED
      BY <3>1, <3>2, <3>3, <1>0
  <2> QED
    BY <2>1, <2>2
<1> QED
  BY <1>1, <1>2 DEF BuffersBounded

(* Who is done has received everything, since nobody sends in a step tt. *)
LEMMA CleanFollows == IInv => CleanFinalize
<1> SUFFICES ASSUME IInv, NEW r \in Ranks, pc[r] = "done"
             PROVE  /\ \A l \in Links : l[2] = r => chan[l] = <<>>
                    /\ down[r] = <<>>
                    /\ r = Root => \A q \in Others : up[q] = <<>>
  BY DEF CleanFinalize
<1> USE RankFacts
<1>0. TypeOK /\ CountInv /\ step[r] = tt /\ \A s \in Ranks : step[s] \in 0 .. tt /\ Placed(s)
  BY DEF IInv, TypeOK, PlaceInv, Placed
<1>1. ASSUME NEW l \in Links, l[2] = r
      PROVE  chan[l] = <<>>
  <2>1. PICK a \in Ranks : l[1] = a
    BY LinkFacts
  <2>2. HasSent(a, r) => step[a] < tt
    BY <1>0, <2>1 DEF HasSent, Placed, InStep, Exchanging
  <2>3. Sent(a, r) <= tt /\ Sent(a, r) \in Int
    <3>1. step[a] \in Int /\ step[a] <= tt
      BY <1>0, <2>1
    <3>2. CASE HasSent(a, r)
      <4>1. Sent(a, r) = step[a] + 1
        BY <3>2 DEF Sent
      <4> QED
        BY <4>1, <3>1, <3>2, <2>2
    <3>3. CASE ~HasSent(a, r)
      <4>1. Sent(a, r) = step[a]
        BY <3>3 DEF Sent
      <4> QED
        BY <4>1, <3>1
    <3> QED
      BY <3>2, <3>3
  <2>4. Got(r, a) = tt
    BY <1>0 DEF Got, HasGot, Exchanging
  <2>5. Len(chan[l]) = Sent(a, r) - Got(r, a)
    BY <1>0, <1>1, <2>1 DEF CountInv
  <2>6. chan[l] \in Seq(Int)
    BY <1>0 DEF TypeOK
  <2>7. Len(chan[l]) = 0
    BY <2>3, <2>4, <2>5, <2>6, TakeFacts
  <2> QED
    BY <2>6, <2>7, TakeFacts
<1>2. down[r] = <<>>
  BY DEF IInv, DealInv, PreLoop
<1>3. ASSUME r = Root, NEW q \in Others
      PROVE  up[q] = <<>>
  <2>1. StripesGot = tt + 1
    BY <1>0, <1>3 DEF StripesGot
  <2>2. StripesSent(q) <= tt + 1 /\ StripesSent(q) \in Int
    <3>1. step[q] \in Int /\ step[q] <= tt
      BY <1>0
    <3> QED
      BY <3>1 DEF StripesSent
  <2>3. Len(up[q]) = StripesSent(q) - StripesGot
    BY <1>0 DEF CountInv
  <2>4. up[q] \in Seq([Slots -> Int])
    BY <1>0 DEF TypeOK
  <2>5. Len(up[q]) = 0
    BY <2>1, <2>2, <2>3, <2>4, TakeFacts
  <2> QED
    BY <2>4, <2>5, TakeFacts
<1> QED
  BY <1>1, <1>2, <1>3

-----------------------------------------------------------------------------
LEMMA InvStep == IInv /\ [Next]_vars => IInv'
<1>1. IInv /\ Next => IInv'
  BY TypeStep, PlaceStep, CountStep, SkewStep DEF IInv
<1>2. IInv /\ UNCHANGED vars => IInv'
  BY DEF IInv, TypeOK, PlaceInv, Placed, TotalInv, Admitted, DealInv, CountInv, Sent, Got,
     HasSent, HasGot, StripesSent, StripesGot, SkewBounded, vars, p2pVars, collVars,
     fileVars, procVars
<1> QED
  BY <1>1, <1>2

LEMMA Invariance == Spec => []IInv
  BY InvInit, InvStep, PTL DEF Spec

(* Every variable of the program stays in its range, for any constants. *)
THEOREM TypeCorrect == Spec => []TypeOK
<1>1. IInv => TypeOK
  BY DEF IInv
<1> QED
  BY Invariance, <1>1, PTL

(***************************************************************************)
(* However many ranks there are, and however MPI buffers, a rank is ahead  *)
(* of another by at most their distance, and rank 0 by at most one step.   *)
(***************************************************************************)
THEOREM Skew == Spec => []SkewBounded
<1>1. IInv => SkewBounded
  BY DEF IInv
<1> QED
  BY Invariance, <1>1, PTL

(* MPI holds at most two edge values of a link, and r + 1 stripes of rank r. *)
THEOREM Buffers == Spec => []BuffersBounded
  BY Invariance, BuffersFollow, PTL

(* A rank that is through with MPI_Finalize has left no message behind. *)
THEOREM CleanEnd == Spec => []CleanFinalize
  BY Invariance, CleanFollows, PTL

-----------------------------------------------------------------------------
(***************************************************************************)
(* Temperatures.  What each rank has, and what is on its way, is part of   *)
(* the rod after the number of time steps that the counts above say.       *)
(***************************************************************************)

(* The number of time steps that rank r's stripe has behind it. *)
Level(r) == IF pc[r] \in {"gather", "gathering", "dump"} /\ step[r] < tt
            THEN step[r] + 1 ELSE step[r]

(* The time steps behind the stripes of the j-th gather, counting from 0. *)
Gathered(j) == IF j < tt THEN j + 1 ELSE tt

(* What rank r sends rank q after n time steps. *)
EdgeValue(r, q, n) ==
    Solution[n][IF q = r + 1 THEN stripe_size * (r + 1) - 1 ELSE stripe_size * r]

StripeInv == \A r \in Ranks :
    pc[r] \notin PreLoop => stripe[r] = Slice(Solution[Level(r)], r)

HaloInv == \A l \in Links :
    pc[l[1]] \in Exchanging \cup {"compute"} /\ HasGot(l[1], l[2]) =>
        halo[l] = EdgeValue(l[2], l[1], step[l[1]])

ChanInv == \A l \in Links : \A k \in 1 .. Len(chan[l]) :
    chan[l][k] = EdgeValue(l[1], l[2], Got(l[2], l[1]) + k - 1)

UpInv == \A r \in Others : \A k \in 1 .. Len(up[r]) :
    up[r][k] = Slice(Solution[Gathered(StripesGot + k - 1)], r)

DownInv == \A r \in Ranks : down[r] # <<>> => Head(down[r]) = Slice(Solution[0], r)

RootInv ==
    /\ pc[Root] = "scatter" => T = Solution[0]
    /\ pc[Root] = "dump" => T = Solution[step[Root] + 1]
    /\ pc[Root] = "close" => T = Solution[tt]

FilmInv == Len(film) = step[Root] /\ \A k \in 1 .. Len(film) : film[k] = Solution[k]

ValueInv == /\ StripeInv /\ HaloInv /\ ChanInv
            /\ UpInv /\ DownInv /\ RootInv /\ FilmInv

-----------------------------------------------------------------------------
(* The time steps of stripes are the time step of the rod. *)

LEMMA RodFacts ==
    ASSUME xx % Total = 0, NEW r \in Ranks
    PROVE  /\ stripe_size * r \in Nat
           /\ stripe_size * (r + 1) = stripe_size * r + stripe_size
           /\ r = 0 => stripe_size * r = 0
           /\ r > 0 => stripe_size * r >= stripe_size
           /\ r = Total - 1 => stripe_size * r + stripe_size = xx
           /\ r < Total - 1 => stripe_size * r + 2 * stripe_size <= xx
<1> DEFINE S == stripe_size
<1>1. S \in Nat \ {0} /\ S * Total = xx /\ r \in Nat /\ r + 1 <= Total /\ Total \in Nat
  BY StripeFacts, RankFacts
<1> HIDE DEF S
<1>2. S * r \in Nat /\ S * (r + 1) = S * r + S /\ S * (r + 2) = S * r + 2 * S
  BY <1>1
<1>3. r = 0 => S * r = 0
  BY <1>1
<1>4. ASSUME r > 0 PROVE S * r >= S
  <2>1. r - 1 \in Nat /\ S * (r - 1) \in Nat /\ S * r = S * (r - 1) + S
    BY <1>1, <1>4
  <2> QED
    BY <2>1, <1>1
<1>5. r = Total - 1 => S * r + S = xx
  BY <1>1, <1>2
<1>6. ASSUME r < Total - 1 PROVE S * r + 2 * S <= xx
  <2>1. Total - (r + 2) \in Nat
    BY <1>1, <1>6
  <2>2. S * (Total - (r + 2)) \in Nat
    BY <1>1, <2>1
  <2>3. S * (Total - (r + 2)) = S * Total - S * (r + 2)
    BY <1>1
  <2> QED
    BY <1>1, <1>2, <2>2, <2>3
<1> QED
  BY <1>2, <1>3, <1>4, <1>5, <1>6 DEF S

LEMMA StripeOfNextRod ==
    ASSUME stripe_size >= 2, xx % Total = 0, NEW r \in Ranks, NEW g \in [Nodes -> Int],
           NEW a, NEW b,
           r > 0 => a = g[stripe_size * r - 1],
           r < Total - 1 => b = g[stripe_size * (r + 1)]
    PROVE  time_step(r, Slice(g, r), a, b) = Slice(NextRod(g), r)
<1> DEFINE S == stripe_size  N == S * r  old == Slice(g, r)
<1>1. /\ S \in Nat /\ S >= 2 /\ N \in Nat /\ xx \in Nat /\ xx > 2
      /\ r \in Nat /\ r < Total /\ Total \in Nat
      /\ r = 0 => N = 0
      /\ r > 0 => N >= S
      /\ r = Total - 1 => N + S = xx
      /\ r < Total - 1 => N + 2 * S <= xx
  BY RodFacts, StripeFacts, RankFacts, RodAssumption
<1>2. (r > 0 => a = g[N - 1]) /\ (r < Total - 1 => b = g[N + S])
  BY RodFacts
<1>3. \A i \in Slots : i \in Nat /\ i < S /\ old[i] = g[N + i]
  BY RankFacts DEF Slice
<1>4. \A i \in Int : 0 <= i /\ i < S => slot(old, i) = g[N + i]
  <2>1. \A i \in Int : 0 <= i /\ i < S => i \in Slots
    BY <1>1 DEF Slots
  <2> QED
    BY <2>1, <1>3 DEF slot
<1> SUFFICES ASSUME NEW i \in Slots
             PROVE  time_step(r, old, a, b)[i] = NextRod(g)[N + i]
  BY DEF time_step, Slice
<1>5. i \in Nat /\ i < S /\ old[i] = g[N + i]
  BY <1>3
<1>6. N + S <= xx /\ N + i \in Nodes
  <2>1. N + S <= xx
    <3> HIDE DEF S, N
    <3> QED BY <1>1
  <2> QED
    BY <1>1, <1>5, <2>1 DEF Nodes
<1> HIDE DEF S, N, old
<1>7. \A n \in Nodes :
          /\ n = 0 => NextRod(g)[n] = left_boundary(g[1])
          /\ n # 0 /\ n = xx - 1 => NextRod(g)[n] = right_boundary(g[xx - 2])
          /\ n # 0 /\ n # xx - 1 => NextRod(g)[n] = forward_euler(g[n - 1], g[n], g[n + 1])
  BY DEF NextRod
<1>8. CASE IsRightEnd(r, i)
  <2>1. r = Total - 1 /\ i = S - 1
    BY <1>8 DEF IsRightEnd, S
  <2>2. N + i = xx - 1 /\ N + (i - 1) = xx - 2 /\ N + i # 0 /\ 0 <= i - 1 /\ i - 1 < S
    BY <2>1, <1>1
  <2>3. slot(old, i - 1) = g[xx - 2]
    BY <2>2, <1>4, <1>5
  <2> QED
    BY <1>6, <1>8, <2>2, <2>3, <1>7 DEF time_step
<1>9. CASE ~IsRightEnd(r, i) /\ IsLeftEnd(r, i)
  <2>1. r = 0 /\ i = 0
    BY <1>9 DEF IsLeftEnd
  <2>2. N + i = 0 /\ N + (i + 1) = 1 /\ 0 <= i + 1 /\ i + 1 < S
    BY <2>1, <1>1
  <2>3. slot(old, i + 1) = g[1]
    BY <2>2, <1>4, <1>5
  <2> QED
    BY <1>6, <1>9, <2>2, <2>3, <1>7 DEF time_step
<1>10. CASE ~IsRightEnd(r, i) /\ ~IsLeftEnd(r, i)
  <2>1. ~(r = Total - 1 /\ i = S - 1) /\ ~(r = 0 /\ i = 0)
    BY <1>10 DEF IsRightEnd, IsLeftEnd, S
  <2>2. N + i # 0 /\ N + i # xx - 1
    BY <2>1, <1>1, <1>5
  <2>3. NextRod(g)[N + i] = forward_euler(g[N + i - 1], g[N + i], g[N + i + 1])
    <3>1. PICK n \in Nodes : n = N + i
      BY <1>6
    <3>2. NextRod(g)[n] = forward_euler(g[n - 1], g[n], g[n + 1])
      BY <1>7, <2>2, <3>1
    <3>3. n - 1 = N + i - 1 /\ n + 1 = N + i + 1
      BY <3>1, <1>1, <1>5
    <3> QED
      BY <3>1, <3>2, <3>3, Zenon
  <2>4. CASE i = S - 1
    <3>1. r < Total - 1 /\ 0 <= i - 1 /\ i - 1 < S /\ N + i + 1 = N + S
          /\ N + (i - 1) = N + i - 1
      BY <2>1, <2>4, <1>1
    <3>2. slot(old, i - 1) = g[N + i - 1] /\ b = g[N + i + 1]
      BY <3>1, <1>2, <1>4, <1>5
    <3> QED
      BY <1>10, <2>3, <2>4, <3>2, <1>5 DEF time_step, S
  <2>5. CASE i # S - 1 /\ i = 0
    <3>1. r > 0 /\ 0 <= i + 1 /\ i + 1 < S /\ N + i - 1 = N - 1
          /\ N + (i + 1) = N + i + 1
      BY <2>1, <2>5, <1>1
    <3>2. slot(old, i + 1) = g[N + i + 1] /\ a = g[N + i - 1]
      BY <3>1, <1>2, <1>4, <1>5
    <3> QED
      BY <1>10, <2>3, <2>5, <3>2, <1>5 DEF time_step, S
  <2>6. CASE i # S - 1 /\ i # 0
    <3>1. /\ i - 1 \in Int /\ 0 <= i - 1 /\ i - 1 < S /\ N + (i - 1) = N + i - 1
          /\ i + 1 \in Int /\ 0 <= i + 1 /\ i + 1 < S /\ N + (i + 1) = N + i + 1
      BY <2>6, <1>1, <1>5
    <3>2. i - 1 \in Slots /\ i + 1 \in Slots
      BY <3>1, <1>1 DEF Slots, S
    <3>3. old[i - 1] = g[N + i - 1] /\ old[i + 1] = g[N + i + 1]
      BY <3>1, <3>2, <1>3
    <3> QED
      BY <1>10, <2>3, <2>6, <3>3, <1>5 DEF time_step, S
  <2> QED
    BY <2>4, <2>5, <2>6
<1> QED
  BY <1>8, <1>9, <1>10

(* Every node has its place in a stripe. *)
LEMMA NodePlace ==
    ASSUME xx % Total = 0, NEW n \in Nodes
    PROVE  /\ n \div stripe_size \in Ranks /\ n % stripe_size \in Slots
           /\ stripe_size * (n \div stripe_size) + (n % stripe_size) = n
<1> DEFINE S == stripe_size  d == n \div S  m == n % S
<1>1. S \in Nat \ {0} /\ S * Total = xx /\ n \in Nat /\ n < xx /\ Total \in Nat
  BY StripeFacts, RankFacts DEF Nodes
<1>2. d \in Int /\ m \in 0 .. S - 1 /\ n = S * d + m
  <2> HIDE DEF S
  <2> QED BY <1>1, Z3
<1>3. 0 <= d /\ d < Total
  <2>1. ASSUME d < 0 PROVE FALSE
    <3>1. S * d <= -S
      <4> HIDE DEF S, d
      <4> QED BY <1>1, <1>2, <2>1
    <3> QED
      BY <1>1, <1>2, <3>1
  <2>2. ASSUME d >= Total PROVE FALSE
    <3>1. S * d >= S * Total
      <4> HIDE DEF S, d
      <4> QED BY <1>1, <1>2, <2>2
    <3> QED
      BY <1>1, <1>2, <3>1
  <2> QED
    BY <1>1, <1>2, <2>1, <2>2
<1> QED
  BY <1>2, <1>3, RankFacts DEF Slots

(* A rod that is cut into stripes and joined again is the same rod. *)
LEMMA JoinedSlices ==
    ASSUME xx % Total = 0, NEW g \in [Nodes -> Int]
    PROVE  Joined([r \in Ranks |-> Slice(g, r)]) = g
  BY NodePlace DEF Joined, Slice

LEMMA SolutionFacts ==
    /\ \A k \in 0 .. tt : Solution[k] \in [Nodes -> Int]
    /\ Solution[0] = InitialRod
    /\ \A k \in Nat : k < tt => Solution[k + 1] = NextRod(Solution[k])
    /\ tt \in Nat
  BY StripesAssumption

-----------------------------------------------------------------------------
(* The initial states, and what one moving rank leaves alone. *)

LEMMA ValueInit == Init => ValueInv
<1> SUFFICES ASSUME Init PROVE ValueInv
  OBVIOUS
<1> USE RankFacts
<1>1. /\ \A r \in Ranks : pc[r] = "start" /\ step[r] = 0 /\ down[r] = <<>> /\ up[r] = <<>>
      /\ \A l \in Links : chan[l] = <<>>
      /\ film = <<>>
  BY DEF Init
<1>2. StripeInv /\ DownInv /\ RootInv
  BY <1>1 DEF StripeInv, DownInv, RootInv, PreLoop
<1>3. HaloInv
  BY <1>1, LinkFacts DEF HaloInv, Exchanging
<1>4. ChanInv /\ UpInv /\ FilmInv
  BY <1>1 DEF ChanInv, UpInv, FilmInv, Others
<1> QED
  BY <1>2, <1>3, <1>4 DEF ValueInv

OnlyMoves(r) == \A s \in Ranks : s # r => /\ pc'[s] = pc[s] /\ step'[s] = step[s]
                                          /\ peer'[s] = peer[s]

LEMMA OthersStay ==
    ASSUME NEW r \in Ranks, OnlyMoves(r), NEW s \in Ranks, s # r
    PROVE  /\ pc'[s] = pc[s] /\ step'[s] = step[s] /\ Level(s)' = Level(s)
           /\ \A q : /\ HasGot(s, q)' <=> HasGot(s, q)
                     /\ Got(s, q)' = Got(s, q)
<1>1. pc'[s] = pc[s] /\ step'[s] = step[s] /\ peer'[s] = peer[s]
  BY DEF OnlyMoves
<1> QED
  BY <1>1 DEF Level, HasGot, Got

LEMMA StripesKept ==
    ASSUME StripeInv, NEW r \in Ranks, OnlyMoves(r),
           \A s \in Ranks : s # r => stripe'[s] = stripe[s],
           pc'[r] \notin PreLoop => stripe'[r] = Slice(Solution[Level(r)'], r)
    PROVE  StripeInv'
<1> SUFFICES ASSUME NEW s \in Ranks, pc'[s] \notin PreLoop
             PROVE  stripe'[s] = Slice(Solution[Level(s)'], s)
  BY DEF StripeInv
<1>1. CASE s = r
  BY <1>1
<1>2. CASE s # r
  BY <1>2, OthersStay DEF StripeInv
<1> QED
  BY <1>1, <1>2

LEMMA HaloKept ==
    ASSUME HaloInv, NEW r \in Ranks, OnlyMoves(r),
           \A l \in Links : l[1] # r => halo'[l] = halo[l],
           \A q \in Ranks : /\ <<r, q>> \in Links
                            /\ pc'[r] \in Exchanging \cup {"compute"} /\ HasGot(r, q)'
                            => halo'[<<r, q>>] = EdgeValue(q, r, step'[r])
    PROVE  HaloInv'
<1> SUFFICES ASSUME NEW l \in Links, pc'[l[1]] \in Exchanging \cup {"compute"},
                    HasGot(l[1], l[2])'
             PROVE  halo'[l] = EdgeValue(l[2], l[1], step'[l[1]])
  BY DEF HaloInv, EdgeValue
<1>0. PICK s \in Ranks, q \in Ranks : l = <<s, q>> /\ l[1] = s /\ l[2] = q
  BY LinkFacts
<1>1. CASE s = r
  BY <1>0, <1>1
<1>2. CASE s # r
  BY <1>0, <1>2, OthersStay DEF HaloInv
<1> QED
  BY <1>1, <1>2

LEMMA ChanKept ==
    ASSUME ChanInv, NEW r \in Ranks, OnlyMoves(r), chan' = chan,
           \A q \in Ranks : <<r, q>> \in Links => Got(r, q)' = Got(r, q)
    PROVE  ChanInv'
<1> SUFFICES ASSUME NEW l \in Links, NEW k \in 1 .. Len(chan[l])
             PROVE  chan[l][k] = EdgeValue(l[1], l[2], Got(l[2], l[1])' + k - 1)
  BY DEF ChanInv, EdgeValue
<1>0. PICK s \in Ranks, q \in Ranks : l = <<s, q>> /\ l[1] = s /\ l[2] = q /\ <<q, s>> \in Links
  BY LinkFacts, RankFacts
<1>1. Got(q, s)' = Got(q, s)
  BY <1>0, OthersStay
<1> QED
  BY <1>0, <1>1 DEF ChanInv

LEMMA UpKept ==
    ASSUME UpInv, up' = up, StripesGot' = StripesGot
    PROVE  UpInv'
  BY DEF UpInv, Gathered

LEMMA GotByRoot ==
    ASSUME NEW r \in Ranks, OnlyMoves(r), r = Root => StripesGot' = StripesGot
    PROVE  StripesGot' = StripesGot
  BY RankFacts DEF OnlyMoves, StripesGot

(* A move that changes no data, and after which a rank has no more than before. *)
LEMMA ValuesKept ==
    ASSUME ValueInv, NEW r \in Ranks, OnlyMoves(r),
           UNCHANGED <<stripe, halo, chan, up, down, T>>,
           \A q \in Ranks : <<r, q>> \in Links => Got(r, q)' = Got(r, q),
           r = Root => StripesGot' = StripesGot,
           pc'[r] \notin PreLoop => pc[r] \notin PreLoop /\ Level(r)' = Level(r),
           \A q \in Ranks : /\ <<r, q>> \in Links
                            /\ pc'[r] \in Exchanging \cup {"compute"} /\ HasGot(r, q)'
                            => /\ pc[r] \in Exchanging \cup {"compute"} /\ HasGot(r, q)
                               /\ step'[r] = step[r],
           r = Root /\ pc'[r] \in {"scatter", "dump", "close"} =>
               pc'[r] = pc[r] /\ step'[r] = step[r],
           FilmInv'
    PROVE  ValueInv'
<1>0. StripeInv /\ HaloInv /\ ChanInv /\ UpInv /\ DownInv /\ RootInv
  BY DEF ValueInv
<1>1. StripeInv'
  BY <1>0, StripesKept DEF StripeInv
<1>2. HaloInv'
  <2>1. ASSUME NEW q \in Ranks, <<r, q>> \in Links,
               pc'[r] \in Exchanging \cup {"compute"}, HasGot(r, q)'
        PROVE  halo'[<<r, q>>] = EdgeValue(q, r, step'[r])
    <3>1. halo[<<r, q>>] = EdgeValue(q, r, step[r])
      BY <1>0, <2>1 DEF HaloInv
    <3> QED
      BY <2>1, <3>1
  <2> QED
    BY <1>0, <2>1, HaloKept
<1>3. ChanInv' /\ UpInv'
  BY <1>0, ChanKept, UpKept, GotByRoot
<1>4. DownInv'
  BY <1>0 DEF DownInv
<1>5. RootInv'
  BY <1>0, RankFacts DEF RootInv, OnlyMoves
<1> QED
  BY <1>1, <1>2, <1>3, <1>4, <1>5 DEF ValueInv

(* The moves before the loop, around it and behind it. *)
Quiet(r) ==
    \/ pc'[r] = pc[r]
    \/ pc[r] = "start" /\ pc'[r] = "rank"
    \/ pc[r] = "rank" /\ pc'[r] = "alloc"
    \/ pc[r] = "alloc" /\ pc'[r] = "scatter" /\ r # Root
    \/ pc[r] = "dealt" /\ pc'[r] = "open"
    \/ pc[r] = "open" /\ pc'[r] = "loop"
    \/ pc[r] = "loop" /\ pc'[r] = "gather" /\ ~(step[r] < tt)
    \/ pc[r] = "close" /\ pc'[r] = "finalize"
    \/ pc[r] = "finalize" /\ pc'[r] = "done"

LEMMA QuietKeepsValues ==
    ASSUME ValueInv, NEW r \in Ranks, Quiet(r),
           \A s \in Ranks : s # r => pc'[s] = pc[s],
           UNCHANGED <<step, stripe, p2pVars, collVars, film>>
    PROVE  ValueInv'
<1> USE DEF p2pVars, collVars
<1>1. OnlyMoves(r)
  BY DEF OnlyMoves
<1>2. \A q \in Ranks : HasGot(r, q)' <=> HasGot(r, q)
  BY DEF Quiet, HasGot, Exchanging
<1>3. \A q \in Ranks : Got(r, q)' = Got(r, q)
  BY <1>2 DEF Got
<1>4. r = Root => StripesGot' = StripesGot
  BY DEF Quiet, StripesGot
<1>5. Level(r)' = Level(r)
  BY DEF Quiet, Level
<1>6. pc'[r] \notin PreLoop => pc[r] \notin PreLoop
  BY DEF Quiet, PreLoop
<1>7. pc'[r] \in Exchanging \cup {"compute"} => pc[r] \in Exchanging \cup {"compute"}
  BY DEF Quiet, Exchanging
<1>8. r = Root /\ pc'[r] \in {"scatter", "dump", "close"} => pc'[r] = pc[r]
  BY DEF Quiet
<1>9. FilmInv'
  BY DEF ValueInv, FilmInv
<1> QED
  BY <1>1, <1>2, <1>3, <1>4, <1>5, <1>6, <1>7, <1>8, <1>9, ValuesKept

-----------------------------------------------------------------------------
(* The moves that matter, one lemma each. *)

LEMMA RanksPresent ==
    ASSUME IInv, NEW r \in Ranks
    PROVE  /\ TypeOK /\ Placed(r) /\ step[r] \in Nat /\ step[r] <= tt
           /\ pc[r] \notin {"start", "rank"} => xx % Total = 0
<1>1. step[r] \in 0 .. tt
  BY DEF IInv, TypeOK
<1> QED
  BY <1>1, RankFacts DEF IInv, PlaceInv, TotalInv, Admitted

(* Rank 0 has the initial rod; nothing else of Allocate concerns it. *)
LEMMA AllocateValues ==
    ASSUME IInv, ValueInv, NEW r \in Ranks, Allocate(r)
    PROVE  ValueInv'
<1> USE RankFacts DEF p2pVars, fileVars, procVars
<1>0. pc[r] = "alloc" /\ \A s \in Ranks : s # r => pc'[s] = pc[s]
  BY GotoFacts DEF Allocate, IInv
<1>1. CASE Goto(r, "scatter") /\ r # Root
  <2>1. pc'[r] = "scatter"
    BY <1>1, GotoFacts DEF IInv
  <2> QED
    BY <1>0, <1>1, <2>1, QuietKeepsValues DEF Allocate, Quiet, p2pVars, collVars
<1>2. CASE Goto(r, "scatter") /\ r = Root /\ T' = InitialRod
  <2>1. pc'[Root] = "scatter" /\ OnlyMoves(r) /\ UNCHANGED <<step, stripe, halo, chan, up, down, film>>
    BY <1>0, <1>2, GotoFacts DEF IInv, OnlyMoves, Allocate
  <2>2. StripeInv' /\ HaloInv'
    BY <1>2, <2>1, StripesKept, HaloKept DEF ValueInv, PreLoop, Exchanging
  <2>3. \A q \in Ranks : Got(r, q)' = Got(r, q)
    BY <1>0, <1>2, <2>1 DEF Got, HasGot, Exchanging
  <2>4. StripesGot' = StripesGot
    BY <1>0, <1>2, <2>1 DEF StripesGot
  <2>5. ChanInv' /\ UpInv'
    BY <2>1, <2>3, <2>4, ChanKept, UpKept DEF ValueInv
  <2>6. RootInv'
    BY <1>2, <2>1, SolutionFacts DEF RootInv
  <2> QED
    BY <2>1, <2>2, <2>5, <2>6 DEF ValueInv, DownInv, FilmInv
<1> QED
  BY <1>1, <1>2 DEF Allocate

LEMMA DealValues ==
    ASSUME IInv, ValueInv, Deal
    PROVE  ValueInv'
<1> USE RankFacts DEF p2pVars, collVars, fileVars, procVars
<1>1. /\ pc[Root] = "scatter" /\ pc'[Root] = "dealt" /\ OnlyMoves(Root) /\ step[Root] = 0
      /\ UNCHANGED <<step, halo, chan, up, film>>
  BY GotoFacts, RanksPresent DEF IInv, OnlyMoves, Deal, Placed, PreLoop
<1>2. /\ T = Solution[0]
      /\ \A s \in Ranks : stripe'[s] = IF s = Root THEN Slice(T, s) ELSE stripe[s]
      /\ \A s \in Ranks : down'[s] = IF s = Root THEN <<>> ELSE <<Slice(T, s)>>
  BY <1>1 DEF Deal, ValueInv, RootInv, IInv, TypeOK
<1>3. StripeInv'
  <2>1. Level(Root)' = 0
    BY <1>1 DEF Level
  <2> QED
    BY <1>1, <1>2, <2>1, StripesKept DEF ValueInv
<1>4. HaloInv'
  BY <1>1, HaloKept DEF ValueInv, Exchanging
<1>5. \A q \in Ranks : Got(Root, q)' = Got(Root, q)
  BY <1>1 DEF Got, HasGot, Exchanging
<1>6. StripesGot' = StripesGot
  BY <1>1 DEF StripesGot
<1>7. ChanInv' /\ UpInv'
  BY <1>1, <1>5, <1>6, ChanKept, UpKept DEF ValueInv
<1>8. DownInv'
  <2> SUFFICES ASSUME NEW s \in Ranks, down'[s] # <<>>
               PROVE  Head(down'[s]) = Slice(Solution[0], s)
    BY DEF DownInv, Slice
  <2>1. down'[s] = <<Slice(T, s)>>
    BY <1>2
  <2>2. Head(<<Slice(T, s)>>) = Slice(T, s)
    OBVIOUS
  <2> QED
    BY <1>2, <2>1, <2>2
<1> QED
  BY <1>1, <1>3, <1>4, <1>7, <1>8 DEF ValueInv, RootInv, FilmInv

LEMMA TakeStripeValues ==
    ASSUME IInv, ValueInv, NEW r \in Ranks, TakeStripe(r)
    PROVE  ValueInv'
<1> USE RankFacts DEF p2pVars, collVars, fileVars, procVars
<1>1. /\ r # Root /\ pc[r] = "scatter" /\ pc'[r] = "loop" /\ OnlyMoves(r) /\ step[r] = 0
      /\ UNCHANGED <<step, halo, chan, up, film, T>>
  BY GotoFacts, RanksPresent DEF IInv, OnlyMoves, TakeStripe, Placed, PreLoop
<1>2. /\ \A s \in Ranks : stripe'[s] = IF s = r THEN Head(down[r]) ELSE stripe[s]
      /\ \A s \in Ranks : down'[s] = IF s = r THEN <<>> ELSE down[s]
      /\ Head(down[r]) = Slice(Solution[0], r)
  BY DEF TakeStripe, IInv, TypeOK, ValueInv, DownInv
<1>3. StripeInv'
  <2>1. Level(r)' = 0
    BY <1>1 DEF Level
  <2> QED
    BY <1>1, <1>2, <2>1, StripesKept DEF ValueInv
<1>4. HaloInv'
  BY <1>1, HaloKept DEF ValueInv, Exchanging
<1>5. \A q \in Ranks : Got(r, q)' = Got(r, q)
  BY <1>1 DEF Got, HasGot, Exchanging
<1>6. StripesGot' = StripesGot
  BY <1>1, GotByRoot
<1>7. ChanInv' /\ UpInv'
  BY <1>1, <1>5, <1>6, ChanKept, UpKept DEF ValueInv
<1>8. DownInv'
  BY <1>2 DEF ValueInv, DownInv
<1>9. RootInv'
  BY <1>1 DEF ValueInv, RootInv, OnlyMoves
<1>10. FilmInv'
  BY <1>1 DEF ValueInv, FilmInv
<1> QED
  BY <1>3, <1>4, <1>7, <1>8, <1>9, <1>10 DEF ValueInv

LEMMA EnterStepValues ==
    ASSUME IInv, ValueInv, NEW r \in Ranks, EnterStep(r)
    PROVE  ValueInv'
<1> USE RankFacts DEF p2pVars, collVars, fileVars, procVars
<1>1. /\ pc[r] = "loop" /\ OnlyMoves(r)
      /\ UNCHANGED <<step, stripe, halo, chan, up, down, T, film>>
      /\ \/ pc'[r] = "post" /\ peer'[r] = r + 1
         \/ pc'[r] = "post" /\ peer'[r] = r - 1 /\ r + 1 \notin Ranks
         \/ pc'[r] = "compute" /\ r + 1 \notin Ranks /\ r - 1 \notin Ranks
  <2>1. TypeOK /\ pc[r] = "loop" /\ UNCHANGED <<step, stripe, halo, chan, up, down, T, film>>
    BY DEF EnterStep, IInv
  <2>2. CASE r < Total - 1
    BY <2>1, <2>2, GotoFacts DEF EnterStep, Call, TypeOK, OnlyMoves
  <2>3. CASE ~(r < Total - 1) /\ r > 0
    <3>1. Call(r, r - 1) /\ r + 1 \notin Ranks
      BY <2>3 DEF EnterStep
    <3> QED
      BY <3>1, <2>1, GotoFacts DEF Call, TypeOK, OnlyMoves
  <2>4. CASE ~(r < Total - 1) /\ ~(r > 0)
    <3>1. Goto(r, "compute") /\ peer' = peer /\ r + 1 \notin Ranks /\ r - 1 \notin Ranks
      BY <2>4 DEF EnterStep
    <3> QED
      BY <3>1, <2>1, GotoFacts DEF OnlyMoves
  <2> QED
    BY <2>2, <2>3, <2>4
<1>2. ASSUME NEW q \in Ranks, <<r, q>> \in Links
      PROVE  ~HasGot(r, q) /\ ~HasGot(r, q)'
  <2>1. q = r - 1 \/ q = r + 1
    BY <1>2, LinkFacts
  <2> QED
    BY <1>1, <2>1 DEF HasGot, Exchanging
<1>3. \A q \in Ranks : <<r, q>> \in Links => Got(r, q)' = Got(r, q)
  BY <1>1, <1>2 DEF Got
<1>4. StripesGot' = StripesGot
  BY <1>1 DEF StripesGot, OnlyMoves
<1>5. Level(r)' = Level(r) /\ pc[r] \notin PreLoop
  BY <1>1 DEF Level, PreLoop
<1>6. FilmInv'
  BY <1>1 DEF ValueInv, FilmInv
<1>7. pc'[r] \notin {"scatter", "dump", "close"}
  BY <1>1
<1> QED
  BY <1>1, <1>2, <1>3, <1>4, <1>5, <1>6, <1>7, ValuesKept

(* Through with one neighbour: to the other, or with what both have sent. *)
LEMMA LeaveSendrecvValues ==
    ASSUME IInv, ValueInv, NEW r \in Ranks, pc[r] = "received", LeaveSendrecv(r)
    PROVE  ValueInv'
<1> USE RankFacts DEF p2pVars, collVars, fileVars, procVars
<1>1. TypeOK /\ (peer[r] = r - 1 \/ peer[r] = r + 1)
  BY RanksPresent, LinkFacts DEF Placed, Exchanging, TypeOK
<1>2. /\ OnlyMoves(r) /\ UNCHANGED <<step, stripe, halo, chan, up, down, T, film>>
      /\ \/ peer[r] = r + 1 /\ r > 0 /\ pc'[r] = "post" /\ peer'[r] = r - 1
         \/ ~(peer[r] = r + 1 /\ r > 0) /\ pc'[r] = "compute" /\ peer'[r] = peer[r]
  BY <1>1, GotoFacts DEF LeaveSendrecv, Call, TypeOK, OnlyMoves
<1>3. ASSUME NEW q \in Ranks, <<r, q>> \in Links
      PROVE  HasGot(r, q)' <=> HasGot(r, q)
  <2>1. q = r - 1 \/ q = r + 1
    BY <1>3, LinkFacts
  <2> QED
    BY <1>1, <1>2, <2>1 DEF HasGot, Exchanging
<1>4. \A q \in Ranks : <<r, q>> \in Links => Got(r, q)' = Got(r, q)
  BY <1>2, <1>3 DEF Got
<1>5. StripesGot' = StripesGot
  BY <1>2 DEF StripesGot, OnlyMoves
<1>6. Level(r)' = Level(r) /\ pc[r] \notin PreLoop
  BY <1>2 DEF Level, PreLoop
<1>7. FilmInv'
  BY <1>2 DEF ValueInv, FilmInv
<1>8. pc'[r] \notin {"scatter", "dump", "close"} /\ pc[r] \in Exchanging
  BY <1>2 DEF Exchanging
<1> QED
  BY <1>2, <1>3, <1>4, <1>5, <1>6, <1>7, <1>8, ValuesKept

LEMMA PostValues ==
    ASSUME IInv, ValueInv, NEW r \in Ranks, Post(r)
    PROVE  ValueInv'
<1> USE RankFacts DEF p2pVars, collVars, fileVars, procVars
<1> DEFINE p == peer[r]
<1>1. /\ TypeOK /\ pc[r] = "post" /\ pc'[r] = "receive" /\ OnlyMoves(r)
      /\ UNCHANGED <<step, peer, stripe, halo, up, down, T, film>>
      /\ chan' = [chan EXCEPT ![<<r, p>>] = Append(chan[<<r, p>>], Edge(r))]
  BY GotoFacts DEF IInv, OnlyMoves, Post
<1>2. /\ p \in Ranks /\ <<r, p>> \in Links /\ p # r /\ (p = r - 1 \/ p = r + 1)
      /\ step[r] \in Nat /\ xx % Total = 0
  <2>1. p \in Ranks /\ <<r, p>> \in Links
    BY <1>1, RanksPresent DEF Placed, Exchanging, TypeOK
  <2>2. step[r] \in Nat /\ xx % Total = 0
    BY <1>1, RanksPresent
  <2> QED
    BY <2>1, <2>2, LinkFacts
<1>3. /\ \A q \in Ranks : HasGot(r, q)' <=> HasGot(r, q)
      /\ \A q \in Ranks : Got(r, q)' = Got(r, q)
  BY <1>1, <1>2 DEF HasGot, Got, Exchanging
<1>4. stripe[r] = Slice(Solution[step[r]], r)
  BY <1>1 DEF ValueInv, StripeInv, Level, PreLoop
<1>5. Edge(r) = EdgeValue(r, p, step[r])
  <2>1. stripe_size * (r + 1) - 1 = stripe_size * r + (stripe_size - 1)
        /\ stripe_size * r = stripe_size * r + 0
    BY <1>2, RodFacts, StripeFacts
  <2>2. \A i \in Slots : stripe[r][i] = Solution[step[r]][stripe_size * r + i]
    BY <1>4 DEF Slice
  <2>3. CASE p = r + 1
    <3>1. stripe[r][stripe_size - 1] = Solution[step[r]][stripe_size * r + (stripe_size - 1)]
      BY <2>2
    <3> QED
      BY <2>1, <2>3, <3>1 DEF Edge, EdgeValue
  <2>4. CASE p # r + 1
    <3>1. stripe[r][0] = Solution[step[r]][stripe_size * r + 0]
      BY <2>2
    <3> QED
      BY <2>1, <2>4, <3>1 DEF Edge, EdgeValue
  <2> QED
    BY <2>3, <2>4
<1>6. ChanInv'
  <2> SUFFICES ASSUME NEW l \in Links, NEW k \in 1 .. Len(chan'[l])
               PROVE  chan'[l][k] = EdgeValue(l[1], l[2], Got(l[2], l[1])' + k - 1)
    BY DEF ChanInv, EdgeValue
  <2>0. PICK s \in Ranks, q \in Ranks : l = <<s, q>> /\ l[1] = s /\ l[2] = q /\ <<q, s>> \in Links
    BY LinkFacts
  <2>1. Got(q, s)' = Got(q, s)
    BY <1>1, <1>3, <2>0, OthersStay
  <2>2. CASE l # <<r, p>>
    <3>1. chan'[l] = chan[l]
      BY <1>1, <2>2 DEF TypeOK
    <3> QED
      BY <2>0, <2>1, <3>1 DEF ValueInv, ChanInv
  <2>3. CASE l = <<r, p>>
    <3>1. s = r /\ q = p
      BY <2>0, <2>3
    <3>2. chan[l] \in Seq(Int) /\ Edge(r) \in Int /\ chan'[l] = Append(chan[l], Edge(r))
      <4>1. chan[l] \in Seq(Int) /\ stripe[r] \in [Slots -> Int]
        BY <1>1 DEF TypeOK
      <4>2. chan'[l] = Append(chan[l], Edge(r))
        BY <1>1, <2>3 DEF TypeOK
      <4> QED
        BY <4>1, <4>2 DEF Edge
    <3>3. Len(chan[l]) = step[r] - Got(p, r)
      <4>1. Len(chan[l]) = Sent(l[1], l[2]) - Got(l[2], l[1])
        BY DEF IInv, CountInv
      <4>2. Sent(r, p) = step[r]
        BY <1>1, <1>2 DEF Sent, HasSent, Exchanging
      <4> QED
        BY <2>0, <3>1, <4>1, <4>2
    <3>4. /\ Len(chan[l]) \in Nat /\ Len(chan'[l]) = Len(chan[l]) + 1
          /\ chan'[l][Len(chan[l]) + 1] = Edge(r)
          /\ \A j \in 1 .. Len(chan[l]) : chan'[l][j] = chan[l][j]
      BY <3>2, AppendProperties
    <3>5. CASE k = Len(chan[l]) + 1
      <4>1. Got(p, r) \in Int
        BY <1>1, <1>2, CountType
      <4>2. Got(p, r) + k - 1 = step[r]
        <5> DEFINE L == Len(chan[l])  G == Got(p, r)
        <5>1. L \in Nat /\ G \in Int /\ L = step[r] - G /\ k = L + 1 /\ step[r] \in Nat
          BY <1>2, <3>3, <3>4, <3>5, <4>1
        <5> HIDE DEF L, G
        <5>2. G + k - 1 = step[r]
          BY <5>1
        <5> QED
          BY <5>2 DEF G
      <4> QED
        BY <1>5, <2>0, <2>1, <3>1, <3>4, <3>5, <4>2
    <3>6. CASE k # Len(chan[l]) + 1
      <4>1. k \in 1 .. Len(chan[l])
        BY <3>4, <3>6
      <4> QED
        BY <2>0, <2>1, <3>4, <4>1 DEF ValueInv, ChanInv
    <3> QED
      BY <3>5, <3>6
  <2> QED
    BY <2>2, <2>3
<1>7. StripeInv'
  <2>1. Level(r)' = step[r]
    BY <1>1 DEF Level
  <2> QED
    BY <1>1, <1>4, <2>1, StripesKept DEF ValueInv
<1>8. HaloInv'
  <2>1. ASSUME NEW q \in Ranks, <<r, q>> \in Links, HasGot(r, q)'
        PROVE  halo'[<<r, q>>] = EdgeValue(q, r, step'[r])
    BY <1>1, <1>3, <2>1 DEF ValueInv, HaloInv, Exchanging
  <2> QED
    BY <1>1, <2>1, HaloKept DEF ValueInv
<1>9. UpInv'
  <2>1. StripesGot' = StripesGot
    BY <1>1 DEF StripesGot, OnlyMoves
  <2> QED
    BY <1>1, <2>1, UpKept DEF ValueInv
<1>10. DownInv' /\ RootInv' /\ FilmInv'
  BY <1>1 DEF ValueInv, DownInv, RootInv, FilmInv, OnlyMoves
<1> QED
  BY <1>6, <1>7, <1>8, <1>9, <1>10 DEF ValueInv

LEMMA ReceiveValues ==
    ASSUME IInv, ValueInv, NEW r \in Ranks, Receive(r)
    PROVE  ValueInv'
<1> USE RankFacts DEF p2pVars, collVars, fileVars, procVars
<1>0. PICK p \in Ranks : p = peer[r]
  BY DEF IInv, TypeOK
<1> DEFINE c == chan[<<p, r>>]
<1>1. /\ TypeOK /\ pc[r] = "receive" /\ pc'[r] = "received" /\ OnlyMoves(r) /\ c # <<>>
      /\ UNCHANGED <<step, peer, stripe, up, down, T, film>>
      /\ chan' = [chan EXCEPT ![<<p, r>>] = Tail(c)]
      /\ halo' = [halo EXCEPT ![<<r, p>>] = Head(c)]
  BY <1>0, GotoFacts DEF IInv, OnlyMoves, Receive
<1>2. /\ p \in Ranks /\ <<r, p>> \in Links /\ p # r /\ (p = r - 1 \/ p = r + 1)
      /\ step[r] \in Nat
  <2>1. p \in Ranks /\ <<r, p>> \in Links
    BY <1>0, <1>1, RanksPresent DEF Placed, Exchanging, TypeOK
  <2>2. step[r] \in Nat
    BY RanksPresent
  <2> QED
    BY <2>1, <2>2, LinkFacts
<1>3. <<p, r>> \in Links /\ <<r, p>> \in Sides /\ Links \subseteq Sides
  BY <1>2, LinkFacts
<1>4. /\ Got(r, p) = step[r] /\ Got(r, p)' = step[r] + 1
      /\ \A q \in Ranks : q # p => /\ HasGot(r, q)' <=> HasGot(r, q)
                                   /\ Got(r, q)' = Got(r, q)
  BY <1>0, <1>1, <1>2 DEF HasGot, Got, Exchanging
<1>5. /\ c \in Seq(Int) /\ Len(c) \in Nat /\ Len(c) > 0
      /\ Head(c) = c[1] /\ Tail(c) \in Seq(Int) /\ Len(Tail(c)) = Len(c) - 1
      /\ \A j \in 1 .. Len(Tail(c)) : Tail(c)[j] = c[j + 1]
  <2>1. c \in Seq(Int)
    BY <1>1, <1>3 DEF TypeOK
  <2>2. Len(c) \in Nat /\ Len(c) > 0
    BY <1>1, <2>1, TakeFacts
  <2> QED
    BY <1>1, <2>1, <2>2, HeadTailProperties
<1>6. \A j \in 1 .. Len(c) : c[j] = EdgeValue(p, r, step[r] + j - 1)
  BY <1>3, <1>4 DEF ValueInv, ChanInv
<1>7. Head(c) = EdgeValue(p, r, step[r])
  <2>1. 1 \in 1 .. Len(c) /\ step[r] + 1 - 1 = step[r]
    BY <1>2, <1>5
  <2> QED
    BY <1>5, <1>6, <2>1
<1>8. ChanInv'
  <2> SUFFICES ASSUME NEW l \in Links, NEW k \in 1 .. Len(chan'[l])
               PROVE  chan'[l][k] = EdgeValue(l[1], l[2], Got(l[2], l[1])' + k - 1)
    BY DEF ChanInv, EdgeValue
  <2>0. PICK s \in Ranks, q \in Ranks : l = <<s, q>> /\ l[1] = s /\ l[2] = q /\ <<q, s>> \in Links
    BY LinkFacts
  <2>1. CASE l # <<p, r>>
    <3>1. chan'[l] = chan[l]
      BY <1>1, <2>1 DEF TypeOK
    <3>2. Got(q, s)' = Got(q, s)
      BY <1>1, <1>4, <2>0, <2>1, OthersStay
    <3> QED
      BY <2>0, <3>1, <3>2 DEF ValueInv, ChanInv
  <2>2. CASE l = <<p, r>>
    <3>1. s = p /\ q = r /\ chan'[l] = Tail(c)
      BY <1>1, <1>3, <2>0, <2>2 DEF TypeOK
    <3>2. k \in Nat /\ k + 1 \in 1 .. Len(c) /\ chan'[l][k] = c[k + 1]
      BY <1>5, <3>1
    <3>3. Got(q, s)' = step[r] + 1
      BY <1>4, <3>1
    <3>4. step[r] + (k + 1) - 1 = Got(q, s)' + k - 1
      BY <1>2, <3>2, <3>3
    <3> QED
      BY <1>6, <2>0, <3>1, <3>2, <3>4
  <2> QED
    BY <2>1, <2>2
<1>9. HaloInv'
  <2>1. ASSUME NEW q \in Ranks, <<r, q>> \in Links, HasGot(r, q)'
        PROVE  halo'[<<r, q>>] = EdgeValue(q, r, step'[r])
    <3>1. CASE q = p
      BY <1>1, <1>3, <1>7, <3>1 DEF TypeOK
    <3>2. CASE q # p
      <4>1. halo'[<<r, q>>] = halo[<<r, q>>]
        BY <1>1, <1>3, <2>1, <3>2 DEF TypeOK
      <4> QED
        BY <1>1, <1>4, <2>1, <3>2, <4>1 DEF ValueInv, HaloInv, Exchanging
    <3> QED
      BY <3>1, <3>2
  <2>2. \A l \in Links : l[1] # r => halo'[l] = halo[l]
    BY <1>1, <1>3 DEF TypeOK
  <2> QED
    BY <1>1, <2>1, <2>2, HaloKept DEF ValueInv
<1>10. StripeInv'
  <2>1. Level(r)' = Level(r) /\ pc[r] \notin PreLoop
    BY <1>1 DEF Level, PreLoop
  <2> QED
    BY <1>1, <2>1, StripesKept DEF ValueInv, StripeInv
<1>11. UpInv'
  <2>1. StripesGot' = StripesGot
    BY <1>1 DEF StripesGot, OnlyMoves
  <2> QED
    BY <1>1, <2>1, UpKept DEF ValueInv
<1>12. DownInv' /\ RootInv' /\ FilmInv'
  BY <1>1 DEF ValueInv, DownInv, RootInv, FilmInv, OnlyMoves
<1> QED
  BY <1>8, <1>9, <1>10, <1>11, <1>12 DEF ValueInv

(* Between the exchange and the gather each rank does a step of the rod. *)
LEMMA HaloCurrent ==
    ASSUME IInv, ValueInv, NEW r \in Ranks, pc[r] = "compute"
    PROVE  /\ stripe[r] = Slice(Solution[step[r]], r)
           /\ r > 0 => left_from_stripe(r) = Solution[step[r]][stripe_size * r - 1]
           /\ r < Total - 1 => right_from_stripe(r) = Solution[step[r]][stripe_size * (r + 1)]
<1> USE RankFacts
<1>1. stripe[r] = Slice(Solution[step[r]], r)
  BY DEF ValueInv, StripeInv, Level, PreLoop
<1>2. ASSUME NEW q \in Ranks, <<r, q>> \in Links
      PROVE  halo[<<r, q>>] = EdgeValue(q, r, step[r])
  BY <1>2 DEF ValueInv, HaloInv, HasGot
<1>3. ASSUME r > 0 PROVE left_from_stripe(r) = Solution[step[r]][stripe_size * r - 1]
  <2>1. r - 1 \in Ranks /\ r - 1 + 1 = r
    BY <1>3
  <2>2. <<r, r - 1>> \in Links
    BY <2>1, LinkFacts
  <2>3. halo[<<r, r - 1>>] = EdgeValue(r - 1, r, step[r])
    BY <1>2, <2>1, <2>2
  <2> QED
    BY <2>1, <2>3 DEF left_from_stripe, EdgeValue
<1>4. ASSUME r < Total - 1 PROVE right_from_stripe(r) = Solution[step[r]][stripe_size * (r + 1)]
  <2>1. r + 1 \in Ranks /\ r # r + 1 + 1
    BY <1>4
  <2>2. <<r, r + 1>> \in Links
    BY <2>1, LinkFacts
  <2>3. halo[<<r, r + 1>>] = EdgeValue(r + 1, r, step[r])
    BY <1>2, <2>1, <2>2
  <2> QED
    BY <2>1, <2>3 DEF right_from_stripe, EdgeValue
<1> QED
  BY <1>1, <1>3, <1>4

LEMMA TimeStepValues ==
    ASSUME IInv, ValueInv, stripe_size >= 2, NEW r \in Ranks, TimeStep(r)
    PROVE  ValueInv'
<1> USE RankFacts DEF p2pVars, collVars, fileVars, procVars
<1>1. /\ TypeOK /\ pc[r] = "compute" /\ pc'[r] = "gather" /\ OnlyMoves(r)
      /\ UNCHANGED <<step, halo, chan, up, down, T, film>>
  BY GotoFacts DEF IInv, OnlyMoves, TimeStep
<1>2. step[r] \in Nat /\ step[r] < tt /\ xx % Total = 0
  BY <1>1, RanksPresent DEF Placed, InStep
<1>3. stripe'[r] = Slice(Solution[step[r] + 1], r)
  <2>1. stripe'[r] = time_step(r, stripe[r], left_from_stripe(r), right_from_stripe(r))
    BY <1>1 DEF TimeStep, TypeOK
  <2>2. Solution[step[r]] \in [Nodes -> Int] /\ Solution[step[r] + 1] = NextRod(Solution[step[r]])
    BY <1>2, SolutionFacts
  <2> QED
    BY <1>1, <1>2, <2>1, <2>2, HaloCurrent, StripeOfNextRod
<1>4. StripeInv'
  <2>1. Level(r)' = step[r] + 1
    BY <1>1, <1>2 DEF Level
  <2>2. \A s \in Ranks : s # r => stripe'[s] = stripe[s]
    BY <1>1 DEF TimeStep, TypeOK
  <2> QED
    BY <1>1, <1>3, <2>1, <2>2, StripesKept DEF ValueInv
<1>5. HaloInv'
  BY <1>1, HaloKept DEF ValueInv, Exchanging
<1>6. \A q \in Ranks : Got(r, q)' = Got(r, q)
  BY <1>1, <1>2 DEF Got, HasGot
<1>7. StripesGot' = StripesGot
  BY <1>1 DEF StripesGot, OnlyMoves
<1>8. ChanInv' /\ UpInv'
  BY <1>1, <1>6, <1>7, ChanKept, UpKept DEF ValueInv
<1>9. DownInv' /\ RootInv' /\ FilmInv'
  BY <1>1 DEF ValueInv, DownInv, RootInv, FilmInv, OnlyMoves
<1> QED
  BY <1>4, <1>5, <1>8, <1>9 DEF ValueInv

LEMMA SendStripeValues ==
    ASSUME IInv, ValueInv, NEW r \in Ranks, SendStripe(r)
    PROVE  ValueInv'
<1> USE RankFacts DEF p2pVars, collVars, fileVars, procVars
<1>1. /\ TypeOK /\ r # Root /\ pc[r] = "gather" /\ pc'[r] = "gathering" /\ OnlyMoves(r)
      /\ UNCHANGED <<step, stripe, halo, chan, down, T, film>>
      /\ up' = [up EXCEPT ![r] = Append(up[r], stripe[r])]
  BY GotoFacts DEF IInv, OnlyMoves, SendStripe
<1>2. step[r] \in Nat /\ step[r] <= tt
  BY RanksPresent
<1>3. stripe[r] = Slice(Solution[Gathered(step[r])], r)
  <2>1. Level(r) = Gathered(step[r])
    BY <1>1, <1>2 DEF Level, Gathered
  <2> QED
    BY <1>1, <2>1 DEF ValueInv, StripeInv, PreLoop
<1>4. StripesGot' = StripesGot
  BY <1>1 DEF StripesGot, OnlyMoves
<1>5. UpInv'
  <2> SUFFICES ASSUME NEW s \in Others, NEW k \in 1 .. Len(up'[s])
               PROVE  up'[s][k] = Slice(Solution[Gathered(StripesGot' + k - 1)], s)
    BY DEF UpInv, Gathered, Slice
  <2>1. CASE s # r
    <3>1. up'[s] = up[s]
      BY <1>1, <2>1 DEF TypeOK
    <3> QED
      BY <1>4, <3>1 DEF ValueInv, UpInv
  <2>2. CASE s = r
    <3>1. up[r] \in Seq([Slots -> Int]) /\ stripe[r] \in [Slots -> Int]
          /\ up'[r] = Append(up[r], stripe[r])
      BY <1>1 DEF TypeOK
    <3>2. Len(up[r]) = step[r] - StripesGot /\ StripesGot \in Int
      <4>1. StripesSent(r) = step[r]
        BY <1>1 DEF StripesSent
      <4> QED
        BY <1>1, <2>2, <4>1, CountType DEF IInv, CountInv
    <3>3. /\ Len(up[r]) \in Nat /\ Len(up'[r]) = Len(up[r]) + 1
          /\ up'[r][Len(up[r]) + 1] = stripe[r]
          /\ \A j \in 1 .. Len(up[r]) : up'[r][j] = up[r][j]
      BY <3>1, AppendProperties
    <3>4. CASE k = Len(up[r]) + 1
      <4>1. StripesGot + k - 1 = step[r]
        <5> DEFINE L == Len(up[r])
        <5>1. L \in Nat /\ L = step[r] - StripesGot /\ k = L + 1
          BY <3>2, <3>3, <3>4
        <5> HIDE DEF L
        <5> QED
          BY <1>2, <3>2, <5>1
      <4> QED
        BY <1>3, <1>4, <2>2, <3>3, <3>4, <4>1
    <3>5. CASE k # Len(up[r]) + 1
      <4>1. k \in 1 .. Len(up[r])
        BY <2>2, <3>3, <3>5
      <4> QED
        BY <1>4, <2>2, <3>3, <4>1 DEF ValueInv, UpInv
    <3> QED
      BY <3>4, <3>5
  <2> QED
    BY <2>1, <2>2
<1>6. StripeInv'
  <2>1. Level(r)' = Level(r) /\ pc[r] \notin PreLoop
    BY <1>1 DEF Level, PreLoop
  <2> QED
    BY <1>1, <2>1, StripesKept DEF ValueInv, StripeInv
<1>7. HaloInv'
  BY <1>1, HaloKept DEF ValueInv, Exchanging
<1>8. \A q \in Ranks : Got(r, q)' = Got(r, q)
  BY <1>1 DEF Got, HasGot, Exchanging
<1>9. ChanInv'
  BY <1>1, <1>8, ChanKept DEF ValueInv
<1>10. DownInv' /\ RootInv' /\ FilmInv'
  BY <1>1 DEF ValueInv, DownInv, RootInv, FilmInv, OnlyMoves
<1> QED
  BY <1>5, <1>6, <1>7, <1>9, <1>10 DEF ValueInv

(* Rank 0 joins stripes that have as many time steps behind them as its own. *)
LEMMA GatherValues ==
    ASSUME IInv, ValueInv, Gather
    PROVE  ValueInv'
<1> USE RankFacts DEF p2pVars, collVars, fileVars, procVars
<1>1. /\ TypeOK /\ pc[Root] = "gather" /\ OnlyMoves(Root)
      /\ pc'[Root] = (IF step[Root] < tt THEN "dump" ELSE "close")
      /\ UNCHANGED <<step, stripe, halo, chan, down, film>>
      /\ \A s \in Others : up[s] # <<>> /\ up'[s] = Tail(up[s])
  BY GotoFacts DEF IInv, OnlyMoves, Gather, TypeOK, Others
<1>2. step[Root] \in Nat /\ step[Root] <= tt /\ xx % Total = 0
  BY <1>1, RanksPresent
<1> DEFINE v == Gathered(step[Root])
<1>3. v \in 0 .. tt
  BY <1>2 DEF Gathered
<1>4. stripe[Root] = Slice(Solution[v], Root)
  <2>1. Level(Root) = v
    BY <1>1, <1>2 DEF Level, Gathered
  <2> QED
    BY <1>1, <2>1 DEF ValueInv, StripeInv, PreLoop
<1>5. StripesGot = step[Root] /\ StripesGot' = step[Root] + 1
  BY <1>1 DEF StripesGot
<1>6. ASSUME NEW s \in Others
      PROVE  /\ Len(up[s]) \in Nat /\ Len(up[s]) > 0 /\ Head(up[s]) = up[s][1]
             /\ Len(Tail(up[s])) = Len(up[s]) - 1
             /\ \A j \in 1 .. Len(Tail(up[s])) : Tail(up[s])[j] = up[s][j + 1]
  <2>1. up[s] \in Seq([Slots -> Int]) /\ up[s] # <<>>
    BY <1>1 DEF TypeOK
  <2>2. Len(up[s]) \in Nat /\ Len(up[s]) > 0
    BY <2>1, TakeFacts
  <2> QED
    BY <2>1, <2>2, HeadTailProperties
<1>7. \A s \in Others : \A j \in 1 .. Len(up[s]) :
          up[s][j] = Slice(Solution[Gathered(step[Root] + j - 1)], s)
  BY <1>5 DEF ValueInv, UpInv
<1>8. T' = Solution[v]
  <2>1. ASSUME NEW s \in Others PROVE Head(up[s]) = Slice(Solution[v], s)
    <3>1. 1 \in 1 .. Len(up[s]) /\ step[Root] + 1 - 1 = step[Root]
      BY <1>2, <1>6
    <3> QED
      BY <1>6, <1>7, <3>1
  <2>2. [r \in Ranks |-> IF r = Root THEN stripe[r] ELSE Head(up[r])]
          = [r \in Ranks |-> Slice(Solution[v], r)]
    BY <1>4, <2>1 DEF Others
  <2>3. Solution[v] \in [Nodes -> Int]
    BY <1>3, SolutionFacts
  <2> QED
    BY <1>2, <2>2, <2>3, JoinedSlices DEF Gather
<1>9. UpInv'
  <2> SUFFICES ASSUME NEW s \in Others, NEW k \in 1 .. Len(up'[s])
               PROVE  up'[s][k] = Slice(Solution[Gathered(StripesGot' + k - 1)], s)
    BY DEF UpInv, Gathered, Slice
  <2>1. k \in Nat /\ k + 1 \in 1 .. Len(up[s]) /\ up'[s][k] = up[s][k + 1]
    <3>1. up'[s] = Tail(up[s]) /\ k \in 1 .. Len(Tail(up[s]))
      BY <1>1
    <3>2. Len(Tail(up[s])) = Len(up[s]) - 1 /\ Len(up[s]) \in Nat
          /\ Tail(up[s])[k] = up[s][k + 1]
      BY <1>6, <3>1
    <3> QED
      BY <3>1, <3>2
  <2>2. step[Root] + (k + 1) - 1 = StripesGot' + k - 1
    BY <1>2, <1>5, <2>1
  <2> QED
    BY <1>7, <2>1, <2>2
<1>10. RootInv'
  BY <1>1, <1>2, <1>8 DEF RootInv, Gathered
<1>11. \A q \in Ranks : Got(Root, q)' = Got(Root, q)
  BY <1>1 DEF Got, HasGot, Exchanging
<1>12. ChanInv'
  BY <1>1, <1>11, ChanKept DEF ValueInv
<1>13. HaloInv'
  BY <1>1, HaloKept DEF ValueInv, Exchanging
<1>14. StripeInv'
  <2>1. Level(Root)' = Level(Root) /\ pc[Root] \notin PreLoop
    BY <1>1 DEF Level, PreLoop
  <2> QED
    BY <1>1, <2>1, StripesKept DEF ValueInv, StripeInv
<1>15. DownInv' /\ FilmInv'
  BY <1>1 DEF ValueInv, DownInv, FilmInv
<1> QED
  BY <1>9, <1>10, <1>12, <1>13, <1>14, <1>15 DEF ValueInv

LEMMA LeaveGatherValues ==
    ASSUME IInv, ValueInv, NEW r \in Ranks, LeaveGather(r)
    PROVE  ValueInv'
<1> USE RankFacts DEF p2pVars, collVars, fileVars, procVars
<1>1. /\ TypeOK /\ pc[r] = "gathering" /\ r # Root /\ step[r] \in Nat
  BY RanksPresent DEF LeaveGather, Placed
<1>2. /\ OnlyMoves(r) /\ UNCHANGED <<stripe, halo, chan, up, down, T, film>>
      /\ \/ step[r] < tt /\ step'[r] = step[r] + 1 /\ pc'[r] = "loop"
         \/ ~(step[r] < tt) /\ step'[r] = step[r] /\ pc'[r] = "finalize"
  BY <1>1, GotoFacts DEF LeaveGather, TypeOK, OnlyMoves
<1>3. \A q \in Ranks : Got(r, q)' = Got(r, q)
  BY <1>1, <1>2 DEF Got, HasGot, Exchanging
<1>4. Level(r)' = Level(r) /\ pc[r] \notin PreLoop
  BY <1>1, <1>2 DEF Level, PreLoop
<1>5. FilmInv'
  BY <1>1, <1>2 DEF ValueInv, FilmInv, OnlyMoves
<1>6. pc'[r] \notin Exchanging \cup {"compute"}
  BY <1>2 DEF Exchanging
<1> QED
  BY <1>1, <1>2, <1>3, <1>4, <1>5, <1>6, ValuesKept

(* What rank 0 appends to the file is the rod after this time step. *)
LEMMA DumpAppends ==
    ASSUME IInv, ValueInv, Dump, ~Dies(Root)
    PROVE  /\ OnlyMoves(Root) /\ pc'[Root] = "loop" /\ step[Root] < tt
           /\ step'[Root] = step[Root] + 1
           /\ film' = Append(film, Solution[step[Root] + 1])
           /\ UNCHANGED <<stripe, halo, chan, up, down, T, dead>>
<1> USE RankFacts DEF p2pVars, collVars, fileVars, procVars
<1>1. /\ TypeOK /\ pc[Root] = "dump" /\ step[Root] < tt /\ T = Solution[step[Root] + 1]
  BY RanksPresent DEF Dump, Placed, InStep, ValueInv, RootInv
<1>2. /\ Goto(Root, "loop") /\ step' = [step EXCEPT ![Root] = step[Root] + 1]
      /\ film' = Append(film, T)
      /\ UNCHANGED <<stripe, peer, halo, chan, up, down, T, dead>>
  BY DEF Dump
<1> QED
  BY <1>1, <1>2, GotoFacts DEF OnlyMoves, TypeOK

LEMMA DumpValues ==
    ASSUME IInv, ValueInv, Dump
    PROVE  ValueInv'
<1> USE RankFacts DEF p2pVars, collVars, fileVars, procVars
<1>1. CASE Dies(Root)
  <2>1. UNCHANGED <<pc, step, stripe, p2pVars, collVars, film>>
    <3>1. pc'[Root] # "loop" /\ UNCHANGED <<pc, stripe, p2pVars, collVars>>
      BY <1>1 DEF Dump, Dies
    <3>2. ~Goto(Root, "loop")
      BY <3>1, GotoFacts DEF IInv
    <3> QED
      BY <3>1, <3>2 DEF Dump
  <2> QED
    BY <2>1, QuietKeepsValues DEF Quiet
<1>2. CASE ~Dies(Root)
  <2>1. /\ OnlyMoves(Root) /\ pc[Root] = "dump" /\ pc'[Root] = "loop" /\ step[Root] < tt
        /\ step'[Root] = step[Root] + 1 /\ step[Root] \in Nat
        /\ film' = Append(film, Solution[step[Root] + 1])
        /\ UNCHANGED <<stripe, halo, chan, up, down, T>>
    BY <1>2, DumpAppends, RanksPresent DEF Dump
  <2>2. \A q \in Ranks : Got(Root, q)' = Got(Root, q)
    BY <2>1 DEF Got, HasGot, Exchanging
  <2>3. StripesGot' = StripesGot
    BY <2>1 DEF StripesGot
  <2>4. Level(Root)' = Level(Root) /\ pc[Root] \notin PreLoop
    BY <2>1 DEF Level, PreLoop
  <2>5. FilmInv'
    <3>1. film \in Seq([Nodes -> Int]) /\ Solution[step[Root] + 1] \in [Nodes -> Int]
      BY <2>1, SolutionFacts DEF IInv, TypeOK
    <3>2. /\ Len(film') = Len(film) + 1 /\ Len(film) \in Nat
          /\ film'[Len(film) + 1] = Solution[step[Root] + 1]
          /\ \A k \in 1 .. Len(film) : film'[k] = film[k]
      BY <2>1, <3>1, AppendProperties
    <3>3. Len(film) = step[Root] /\ \A k \in 1 .. Len(film) : film[k] = Solution[k]
      BY DEF ValueInv, FilmInv
    <3>4. \A k \in 1 .. Len(film') : film'[k] = Solution[k]
      BY <3>2, <3>3
    <3> QED
      BY <2>1, <3>2, <3>3, <3>4 DEF FilmInv
  <2>6. pc'[Root] \notin Exchanging \cup {"compute"} /\ pc'[Root] \notin {"scatter", "dump", "close"}
    BY <2>1 DEF Exchanging
  <2> QED
    BY <2>1, <2>2, <2>3, <2>4, <2>5, <2>6, ValuesKept
<1> QED
  BY <1>1, <1>2

LEMMA ValueRankStep ==
    ASSUME IInv, ValueInv, stripe_size >= 2, NEW r \in Ranks, RankStep(r)
    PROVE  ValueInv'
<1> USE DEF fileVars, procVars
<1>0. TypeOK
  BY DEF IInv
<1>1. CASE CheckTotal(r)
  BY <1>0, <1>1, GotoFacts, QuietKeepsValues DEF CheckTotal, Quiet
<1>2. CASE CommRank(r)
  <2>1. CASE r \in finalized
    BY <1>2, <2>1, QuietKeepsValues DEF CommRank, Dies, Quiet
  <2>2. CASE r \notin finalized
    BY <1>0, <1>2, <2>2, GotoFacts, QuietKeepsValues DEF CommRank, Quiet
  <2> QED
    BY <2>1, <2>2
<1>3. CASE LeaveLoop(r)
  BY <1>0, <1>3, GotoFacts, QuietKeepsValues DEF LeaveLoop, Quiet
<1>4. CASE Finalize(r)
  BY <1>0, <1>4, GotoFacts, QuietKeepsValues DEF Finalize, Quiet
<1> QED
  BY <1>1, <1>2, <1>3, <1>4, AllocateValues, TakeStripeValues, EnterStepValues, PostValues,
     ReceiveValues, LeaveSendrecvValues, TimeStepValues, SendStripeValues, LeaveGatherValues
     DEF RankStep, SendrecvReturns, GatherReturns

LEMMA ScatterValues ==
    ASSUME IInv, ValueInv, LeaveScatter
    PROVE  ValueInv'
  BY RankFacts, GotoFacts, QuietKeepsValues DEF LeaveScatter, Quiet, IInv, fileVars, procVars

LEMMA ValueRootStep ==
    ASSUME IInv, ValueInv, RootStep
    PROVE  ValueInv'
<1> USE RankFacts DEF fileVars, procVars
<1>0. TypeOK
  BY DEF IInv
<1>1. CASE OpenFile
  BY <1>0, <1>1, GotoFacts, QuietKeepsValues DEF OpenFile, Quiet
<1>2. CASE CloseFile
  <2>1. CASE file = "NULL"
    BY <1>2, <2>1, QuietKeepsValues DEF CloseFile, Dies, Quiet
  <2>2. CASE file # "NULL"
    BY <1>0, <1>2, <2>2, GotoFacts, QuietKeepsValues DEF CloseFile, Quiet
  <2> QED
    BY <2>1, <2>2
<1> QED
  BY <1>1, <1>2, DealValues, ScatterValues, GatherValues, DumpValues
     DEF RootStep, ScatterReturns

LEMMA ValueStep == stripe_size >= 2 /\ IInv /\ ValueInv /\ [Next]_vars => ValueInv'
<1> SUFFICES ASSUME stripe_size >= 2, IInv, ValueInv, [Next]_vars PROVE ValueInv'
  OBVIOUS
<1>1. CASE UNCHANGED <<pc, step, peer, stripe, halo, T, chan, down, up, film>>
  BY <1>1, RankFacts, QuietKeepsValues DEF Quiet, p2pVars, collVars
<1>2. CASE EndJob \/ Terminated \/ UNCHANGED vars \/ \E r \in Ranks : UseNull(r)
  BY <1>1, <1>2 DEF EndJob, Terminated, UseNull, Dies, vars, p2pVars, collVars, fileVars
<1>3. ASSUME NEW r \in Ranks, ProcessStep(r) PROVE ValueInv'
  BY <1>3, ValueRankStep, ValueRootStep DEF ProcessStep
<1>4. ASSUME NEW r \in Ranks, EarlyReturn(r) PROVE ValueInv'
  BY <1>4, ScatterValues, LeaveSendrecvValues, LeaveGatherValues
     DEF EarlyReturn, EarlyScatterReturns, EarlySendrecvReturns, EarlyGatherReturns
<1> QED
  BY <1>2, <1>3, <1>4 DEF Next

LEMMA Values ==
    ASSUME stripe_size >= 2
    PROVE  Spec => [](IInv /\ ValueInv)
<1>1. Init => IInv /\ ValueInv
  BY InvInit, ValueInit
<1>2. IInv /\ ValueInv /\ [Next]_vars => (IInv /\ ValueInv)'
  BY InvStep, ValueStep
<1> QED
  BY <1>1, <1>2, PTL DEF Spec

(***************************************************************************)
(* Stripes of at least two nodes are computed with the edge values of the  *)
(* same time step, however far ranks are apart and whatever MPI buffers.   *)
(***************************************************************************)
THEOREM CurrentHalo ==
    ASSUME stripe_size >= 2
    PROVE  Spec => []HaloIsCurrent
<1>1. IInv /\ ValueInv => HaloIsCurrent
  BY HaloCurrent DEF HaloIsCurrent
<1> QED
  BY <1>1, Values, PTL

(* The gather behind the loop has the rod after the last time step. *)
THEOREM LastGather ==
    ASSUME stripe_size >= 2
    PROVE  Spec => []FinalResult
<1>1. IInv /\ ValueInv => FinalResult
  BY DEF ValueInv, RootInv, FinalResult
<1> QED
  BY <1>1, Values, PTL

-----------------------------------------------------------------------------
(* The refinement.  Only Dump, Finalize and a death of rank 0 are visible. *)

HeatStatus == CASE Root \in dead -> "failed"
                [] pc[Root] = "done" -> "done"
                [] OTHER -> "run"

(* Both modules EXTEND Rod and are given the same rod. *)
LEMMA SameRod ==
    /\ Heat!InitialRod = InitialRod
    /\ \A rod : Heat!NextRod(rod) = NextRod(rod)
<1>1. Heat!Nodes = Nodes
  BY DEF Heat!Nodes, Nodes
<1>2. \A k, v, n : Heat!boundary(k, v, n) = boundary(k, v, n)
  BY DEF Heat!boundary, boundary
<1>3. \A n : Heat!left_boundary(n) = left_boundary(n)
             /\ Heat!right_boundary(n) = right_boundary(n)
  BY <1>2 DEF Heat!left_boundary, left_boundary, Heat!right_boundary, right_boundary
<1>4. \A a, b, c : Heat!forward_euler(a, b, c) = forward_euler(a, b, c)
  BY DEF Heat!forward_euler, forward_euler
<1>5. Heat!InitialRod = InitialRod
  BY <1>1, <1>3 DEF Heat!InitialRod, InitialRod
<1>6. \A rod : Heat!NextRod(rod) = NextRod(rod)
  BY <1>1, <1>3, <1>4 DEF Heat!NextRod, NextRod
<1> QED
  BY <1>5, <1>6

LEMMA MappedInit == Init => Heat!HeatInit
<1> SUFFICES ASSUME Init PROVE Heat!HeatInit
  OBVIOUS
<1>1. film = <<>> /\ Root \notin dead /\ pc[Root] = "start"
  BY RankFacts DEF Init
<1> QED
  BY <1>1 DEF Heat!HeatInit

LEMMA MappedDump ==
    ASSUME IInv, ValueInv, Dump, ~Dies(Root), Root \notin dead
    PROVE  Heat!HeatNext
<1> USE RankFacts
<1>1. /\ pc[Root] = "dump" /\ pc'[Root] = "loop" /\ dead' = dead /\ step[Root] < tt
      /\ film' = Append(film, Solution[step[Root] + 1])
      /\ step[Root] \in Nat
  BY DumpAppends, RanksPresent DEF Dump
<1>2. Len(film) = step[Root] /\ \A k \in 1 .. Len(film) : film[k] = Solution[k]
  BY DEF ValueInv, FilmInv
<1>3. film \in Seq([Nodes -> Int])
  BY DEF IInv, TypeOK
<1>4. Heat!Current = Solution[step[Root]]
  <2>1. CASE film = <<>>
    <3>1. step[Root] = 0
      BY <1>2, <2>1
    <3> QED
      BY <2>1, <3>1, SolutionFacts, SameRod DEF Heat!Current
  <2>2. CASE film # <<>>
    <3>1. Len(film) \in 1 .. Len(film)
      BY <1>3, <2>2, TakeFacts
    <3> QED
      BY <1>2, <2>2, <3>1 DEF Heat!Current
  <2> QED
    BY <2>1, <2>2
<1>5. film' = Append(film, NextRod(Heat!Current))
  BY <1>1, <1>4, SolutionFacts
<1>6. HeatStatus = "run" /\ HeatStatus' = "run"
  BY <1>1 DEF HeatStatus
<1>7. Heat!Integrate
  BY <1>1, <1>2, <1>5, <1>6, SameRod DEF Heat!Integrate, HeatStatus
<1> QED
  BY <1>7 DEF Heat!HeatNext

LEMMA MappedFinish ==
    ASSUME IInv, ValueInv, Finalize(Root), Root \notin dead
    PROVE  Heat!HeatNext
<1> USE RankFacts
<1>1. pc[Root] = "finalize" /\ pc'[Root] = "done" /\ dead' = dead /\ film' = film
  BY GotoFacts DEF Finalize, IInv, fileVars
<1>2. Len(film) = tt
  BY <1>1, RanksPresent DEF Placed, ValueInv, FilmInv
<1>3. HeatStatus = "run" /\ HeatStatus' = "done"
  BY <1>1 DEF HeatStatus
<1>4. Heat!Finish
  BY <1>1, <1>2, <1>3 DEF Heat!Finish, HeatStatus
<1> QED
  BY <1>4 DEF Heat!HeatNext

LEMMA MappedDeath ==
    ASSUME Root \notin dead, pc[Root] # "done", Root \in dead',
           pc'[Root] # "done", film' = film
    PROVE  Heat!HeatNext
<1>1. HeatStatus = "run"
  BY DEF HeatStatus
<1>2. HeatStatus' = "failed"
  BY DEF HeatStatus
<1>3. Heat!GiveUp
  BY <1>1, <1>2 DEF Heat!GiveUp, HeatStatus
<1> QED
  BY <1>3 DEF Heat!HeatNext

LEMMA MappedStutter ==
    ASSUME film' = film, Root \in dead' <=> Root \in dead,
           pc'[Root] = "done" <=> pc[Root] = "done"
    PROVE  UNCHANGED Heat!heatVars
<1>1. HeatStatus' = HeatStatus
  BY DEF HeatStatus
<1> QED
  BY <1>1 DEF Heat!heatVars, HeatStatus


(* A step of rank r: where it is at the end is the only visible place. *)
LEMMA MappedMove ==
    ASSUME TypeOK, NEW r \in Ranks, NEW l, Goto(r, l),
           film' = film, dead' = dead, r = Root => l # "done" /\ pc[r] # "done"
    PROVE  UNCHANGED Heat!heatVars
<1>1. pc'[Root] = "done" <=> pc[Root] = "done"
  BY GotoFacts, RankFacts
<1> QED
  BY <1>1, MappedStutter

LEMMA MappedRankStep ==
    ASSUME IInv, ValueInv, NEW r \in Ranks, r \notin dead, RankStep(r)
    PROVE  [Heat!HeatNext]_(Heat!heatVars)
<1> USE RankFacts DEF fileVars, procVars
<1>0. TypeOK
  BY DEF IInv
<1>1. CASE CheckTotal(r)
  BY <1>0, <1>1, MappedMove DEF CheckTotal
<1>2. CASE CommRank(r)
  <2>1. film' = film /\ pc[r] # "done"
    BY <1>2 DEF CommRank
  <2>2. CASE Dies(r) /\ r = Root
    <3>1. Root \notin dead /\ Root \in dead' /\ pc' = pc
      BY <2>2 DEF Dies
    <3> QED
      BY <2>1, <2>2, <3>1, MappedDeath
  <2>3. CASE Dies(r) /\ r # Root
    <3>1. pc' = pc /\ (Root \in dead' <=> Root \in dead)
      BY <2>3 DEF Dies
    <3> QED
      BY <2>1, <3>1, MappedStutter
  <2>4. CASE Goto(r, "alloc") /\ dead' = dead
    BY <1>0, <2>1, <2>4, MappedMove
  <2> QED
    BY <1>2, <2>2, <2>3, <2>4 DEF CommRank
<1>3. CASE Allocate(r) \/ TakeStripe(r)
  BY <1>0, <1>3, MappedMove DEF Allocate, TakeStripe
<1>4. CASE EnterStep(r)
  BY <1>0, <1>4, MappedMove DEF EnterStep, Call
<1>5. CASE Post(r)
  BY <1>0, <1>5, MappedMove DEF Post
<1>6. CASE Receive(r)
  BY <1>0, <1>6, MappedMove DEF Receive
<1>7. CASE SendrecvReturns(r)
  BY <1>0, <1>7, MappedMove DEF SendrecvReturns, LeaveSendrecv, Call
<1>8. CASE TimeStep(r)
  BY <1>0, <1>8, MappedMove DEF TimeStep
<1>9. CASE LeaveLoop(r)
  BY <1>0, <1>9, MappedMove DEF LeaveLoop
<1>10. CASE SendStripe(r)
  BY <1>0, <1>10, MappedMove DEF SendStripe
<1>11. CASE GatherReturns(r)
  BY <1>0, <1>11, MappedMove DEF GatherReturns, LeaveGather
<1>12. CASE Finalize(r)
  <2>1. CASE r = Root
    BY <1>12, <2>1, MappedFinish
  <2>2. CASE r # Root
    BY <1>0, <1>12, <2>2, MappedMove DEF Finalize
  <2> QED
    BY <2>1, <2>2
<1> QED
  BY <1>1, <1>2, <1>3, <1>4, <1>5, <1>6, <1>7, <1>8, <1>9, <1>10, <1>11, <1>12 DEF RankStep

LEMMA MappedRootStep ==
    ASSUME IInv, ValueInv, Root \notin dead, RootStep
    PROVE  [Heat!HeatNext]_(Heat!heatVars)
<1> USE RankFacts DEF fileVars, procVars
<1>0. TypeOK
  BY DEF IInv
<1>1. CASE Deal
  BY <1>0, <1>1, MappedMove DEF Deal
<1>2. CASE ScatterReturns
  BY <1>0, <1>2, MappedMove DEF ScatterReturns, LeaveScatter
<1>3. CASE OpenFile
  BY <1>0, <1>3, MappedMove DEF OpenFile
<1>4. CASE Gather
  <2>1. PICK l \in {"dump", "close"} : Goto(Root, l)
    BY <1>4 DEF Gather
  <2> QED
    BY <1>0, <1>4, <2>1, MappedMove DEF Gather
<1>5. CASE Dump
  <2>1. CASE Dies(Root)
    <3>1. Root \in dead' /\ pc' = pc
      BY <2>1 DEF Dies
    <3>2. pc[Root] = "dump" /\ film' = film
      BY <1>5, <2>1, <3>1, <1>0, GotoFacts DEF Dump
    <3> QED
      BY <3>1, <3>2, MappedDeath
  <2>2. CASE ~Dies(Root)
    BY <1>5, <2>2, MappedDump
  <2> QED
    BY <2>1, <2>2
<1>6. CASE CloseFile
  <2>1. pc[Root] = "close" /\ film' = film
    BY <1>6 DEF CloseFile
  <2>2. CASE Dies(Root)
    <3>1. Root \in dead' /\ pc' = pc
      BY <2>2 DEF Dies
    <3> QED
      BY <2>1, <3>1, MappedDeath
  <2>3. CASE Goto(Root, "finalize") /\ dead' = dead
    BY <1>0, <2>1, <2>3, MappedMove
  <2> QED
    BY <1>6, <2>2, <2>3 DEF CloseFile
<1> QED
  BY <1>1, <1>2, <1>3, <1>4, <1>5, <1>6 DEF RootStep

LEMMA MappedStep == IInv /\ ValueInv /\ [Next]_vars => [Heat!HeatNext]_(Heat!heatVars)
<1> SUFFICES ASSUME IInv, ValueInv, [Next]_vars PROVE [Heat!HeatNext]_(Heat!heatVars)
  OBVIOUS
<1>0. TypeOK
  BY DEF IInv
<1>1. ASSUME NEW r \in Ranks, ProcessStep(r) PROVE [Heat!HeatNext]_(Heat!heatVars)
  BY <1>1, MappedRankStep, MappedRootStep DEF ProcessStep
<1>2. ASSUME NEW r \in Ranks, EarlyReturn(r) PROVE [Heat!HeatNext]_(Heat!heatVars)
  BY <1>0, <1>2, RankFacts, MappedMove
     DEF EarlyReturn, EarlyScatterReturns, LeaveScatter, EarlySendrecvReturns, LeaveSendrecv,
         Call, EarlyGatherReturns, LeaveGather, fileVars, procVars
<1>3. CASE EndJob
  <2>1. film' = film /\ pc' = pc /\ dead' = dead \cup {r \in Ranks : pc[r] # "done"}
    BY <1>3 DEF EndJob, fileVars
  <2>2. CASE Root \notin dead /\ pc[Root] # "done"
    <3>1. Root \in dead'
      BY <2>1, <2>2, RankFacts
    <3> QED
      BY <2>1, <2>2, <3>1, MappedDeath
  <2>3. CASE Root \in dead \/ pc[Root] = "done"
    <3>1. Root \in dead' <=> Root \in dead
      BY <2>1, <2>3
    <3> QED
      BY <2>1, <3>1, MappedStutter
  <2> QED
    BY <2>2, <2>3
<1>4. CASE Terminated \/ UNCHANGED vars
  BY <1>4, MappedStutter DEF Terminated, vars, fileVars, procVars
<1>5. ASSUME NEW r \in Ranks, UseNull(r) PROVE [Heat!HeatNext]_(Heat!heatVars)
  <2>1. /\ film' = film /\ pc' = pc /\ dead' = dead \cup {r}
        /\ r \notin dead /\ pc[r] # "done"
    BY <1>5 DEF UseNull, Dies, fileVars
  <2>2. CASE r = Root
    BY <2>1, <2>2, MappedDeath
  <2>3. CASE r # Root
    BY <2>1, <2>3, MappedStutter
  <2> QED
    BY <2>2, <2>3
<1> QED
  BY <1>1, <1>2, <1>3, <1>4, <1>5 DEF Next

(***************************************************************************)
(* With stripes of at least two nodes the processes do together what one   *)
(* process would: their file is the film of HeatEquation, and they give up *)
(* only as it may.                                                         *)
(***************************************************************************)
THEOREM Refinement ==
    ASSUME stripe_size >= 2
    PROVE  Spec => ImplementsHeatEquation
<1>1. Init => Heat!HeatInit
  BY MappedInit
<1>2. IInv /\ ValueInv /\ [Next]_vars => [Heat!HeatNext]_(Heat!heatVars)
  BY MappedStep
<1> QED
  BY <1>1, <1>2, Values, PTL DEF Spec, ImplementsHeatEquation, Heat!HeatSpec

-----------------------------------------------------------------------------
(* Nobody waits in a circle. *)

(* What a process waits for when MPI buffers nothing, and a file that is   *)
(* not there to print to.                                                  *)
Blocked(r) ==
    \/ r # Root /\ pc[r] = "scatter" /\ down[r] = <<>>
    \/ pc[r] = "dealt" /\ ~AllDealt
    \/ pc[r] = "receive" /\ chan[<<peer[r], r>>] = <<>>
    \/ pc[r] = "received" /\ ~Delivered(r)
    \/ r = Root /\ pc[r] = "gather" /\ \E q \in Others : up[q] = <<>>
    \/ pc[r] = "gathering" /\ up[r] # <<>>
    \/ pc[r] = "dump" /\ file = "closed"

CanStep(r) == ~Ended(r) /\ ~Blocked(r)

NoDeadlock ==
    (\A r \in Ranks : Ended(r)) \/ dead # {} \/ \E r \in Ranks : CanStep(r)

(* Rank 0 has dealt a stripe to everyone who has not taken it, and has     *)
(* tried to open the file before it enters the loop.                       *)
DealtInv ==
    /\ pc[Root] \notin PreLoop =>
           \A r \in Others : pc[r] \in PreLoop => down[r] # <<>>
    /\ file = "closed" => pc[Root] \in PreLoop \cup {"dealt", "open", "finalize", "done"}

(* Where a rank goes from where it is. *)
Passage(r) ==
    \/ pc[r] = "start" /\ pc'[r] = "rank"
    \/ pc[r] = "rank" /\ pc'[r] = "alloc"
    \/ pc[r] = "alloc" /\ pc'[r] = "scatter"
    \/ pc[r] = "scatter" /\ pc'[r] = (IF r = Root THEN "dealt" ELSE "loop")
    \/ pc[r] = "dealt" /\ pc'[r] = "open"
    \/ pc[r] = "open" /\ pc'[r] = "loop"
    \/ pc[r] = "loop" /\ pc'[r] \in {"post", "compute", "gather"}
    \/ pc[r] = "post" /\ pc'[r] = "receive" /\ peer'[r] = peer[r]
    \/ pc[r] = "receive" /\ pc'[r] = "received" /\ peer'[r] = peer[r]
    \/ pc[r] = "received" /\ pc'[r] = "post" /\ peer[r] = r + 1 /\ peer'[r] = r - 1
    \/ pc[r] = "received" /\ pc'[r] = "compute"
    \/ pc[r] = "compute" /\ pc'[r] = "gather"
    \/ pc[r] = "gather" /\ pc'[r] \in {"gathering", "dump", "close"}
    \/ pc[r] \in {"gathering", "close"} /\ pc'[r] = "finalize"
    \/ pc[r] = "finalize" /\ pc'[r] = "done"

(* One rank moves on, in its step or to the next one, or dies. *)
Moves(r) ==
    /\ dead' = dead
    /\ \A s \in Ranks \ {r} : pc'[s] = pc[s] /\ step'[s] = step[s] /\ peer'[s] = peer[s]
    /\ \/ step'[r] = step[r] /\ Passage(r)
       \/ /\ pc[r] \in {"gathering", "dump"} /\ pc'[r] = "loop"
          /\ step[r] < tt /\ step'[r] = step[r] + 1

Falls(r) == dead' = dead \cup {r} /\ UNCHANGED <<pc, step, peer, down, file>>

LEMMA MovesOrFalls ==
    ASSUME IInv, NEW r \in Ranks, ProcessStep(r) \/ EarlyReturn(r)
    PROVE  Moves(r) \/ Falls(r)
<1> USE RankFacts DEF p2pVars, collVars, fileVars, procVars
<1>0. TypeOK /\ PlaceInv
  BY DEF IInv
<1>g. ASSUME NEW l, Goto(r, l), step' = step, peer' = peer, dead' = dead,
             pc'[r] = l => Passage(r)
      PROVE  Moves(r)
  BY <1>0, <1>g, GotoFacts DEF Moves
<1>c. ASSUME NEW q \in Ranks, Call(r, q)
      PROVE  /\ pc'[r] = "post" /\ peer'[r] = q
             /\ \A s \in Ranks \ {r} : pc'[s] = pc[s] /\ peer'[s] = peer[s]
  BY <1>0, <1>c, GotoFacts DEF Call, TypeOK
<1>v. ASSUME LeaveSendrecv(r), pc[r] = "received" PROVE Moves(r)
  <2>1. CASE peer[r] = r + 1 /\ r > 0 /\ Call(r, r - 1)
    <3>1. r - 1 \in Ranks /\ step' = step /\ dead' = dead
      BY <1>v, <2>1 DEF LeaveSendrecv
    <3> QED
      BY <1>v, <1>c, <2>1, <3>1 DEF Moves, Passage
  <2>2. CASE Goto(r, "compute") /\ UNCHANGED peer
    BY <1>v, <1>g, <2>2 DEF LeaveSendrecv, Passage
  <2> QED
    BY <1>v, <2>1, <2>2 DEF LeaveSendrecv
<1>w. ASSUME LeaveGather(r) PROVE Moves(r)
  <2>1. CASE step[r] < tt
    <3>1. step'[r] = step[r] + 1 /\ \A s \in Ranks \ {r} : step'[s] = step[s]
      BY <1>w, <1>0, <2>1 DEF LeaveGather, TypeOK
    <3> QED
      BY <1>w, <1>0, <2>1, <3>1, GotoFacts DEF LeaveGather, Moves
  <2>2. CASE ~(step[r] < tt)
    BY <1>w, <1>g, <2>2 DEF LeaveGather, Passage
  <2> QED
    BY <2>1, <2>2
<1>r. ASSUME RankStep(r) PROVE Moves(r) \/ Falls(r)
  <2>1. CASE CheckTotal(r)
    BY <2>1, <1>g DEF CheckTotal, Passage
  <2>2. CASE CommRank(r)
    BY <2>2, <1>g DEF CommRank, Passage, Dies, Falls
  <2>3. CASE Allocate(r)
    BY <2>3, <1>g DEF Allocate, Passage
  <2>4. CASE TakeStripe(r)
    BY <2>4, <1>g DEF TakeStripe, Passage
  <2>5. CASE EnterStep(r)
    <3>1. CASE \E q \in Ranks : Call(r, q)
      BY <2>5, <3>1, <1>c DEF EnterStep, Moves, Passage
    <3>2. CASE Goto(r, "compute") /\ UNCHANGED peer
      BY <2>5, <3>2, <1>g DEF EnterStep, Passage
    <3>3. (r < Total - 1 => r + 1 \in Ranks) /\ (r > 0 => r - 1 \in Ranks)
      OBVIOUS
    <3> QED
      BY <2>5, <3>1, <3>2, <3>3 DEF EnterStep
  <2>6. CASE Post(r)
    BY <2>6, <1>g DEF Post, Passage
  <2>7. CASE Receive(r)
    BY <2>7, <1>g DEF Receive, Passage
  <2>8. CASE SendrecvReturns(r)
    BY <2>8, <1>v DEF SendrecvReturns
  <2>9. CASE TimeStep(r)
    BY <2>9, <1>g DEF TimeStep, Passage
  <2>10. CASE LeaveLoop(r)
    BY <2>10, <1>g DEF LeaveLoop, Passage
  <2>11. CASE SendStripe(r)
    BY <2>11, <1>g DEF SendStripe, Passage
  <2>12. CASE GatherReturns(r)
    BY <2>12, <1>w DEF GatherReturns
  <2>13. CASE Finalize(r)
    BY <2>13, <1>g DEF Finalize, Passage
  <2> QED
    BY <1>r, <2>1, <2>2, <2>3, <2>4, <2>5, <2>6, <2>7, <2>8, <2>9, <2>10, <2>11,
       <2>12, <2>13 DEF RankStep
<1>t. ASSUME r = Root, RootStep PROVE Moves(r) \/ Falls(r)
  <2>1. CASE Deal
    BY <1>t, <2>1, <1>g DEF Deal, Passage
  <2>2. CASE ScatterReturns
    BY <1>t, <2>2, <1>g DEF ScatterReturns, LeaveScatter, Passage
  <2>3. CASE OpenFile
    BY <1>t, <2>3, <1>g DEF OpenFile, Passage
  <2>4. CASE Gather
    BY <1>t, <2>4, <1>g DEF Gather, Passage
  <2>5. CASE Dump
    <3>1. step[Root] < tt
      BY <1>0, <2>5 DEF Dump, PlaceInv, Placed, InStep
    <3>2. CASE Goto(Root, "loop") /\ step' = [step EXCEPT ![Root] = step[Root] + 1]
               /\ UNCHANGED dead
      <4>1. step'[Root] = step[Root] + 1 /\ \A s \in Ranks \ {Root} : step'[s] = step[s]
        BY <1>0, <3>2 DEF TypeOK
      <4> QED
        BY <1>t, <1>0, <2>5, <3>1, <3>2, <4>1, GotoFacts DEF Dump, Moves
    <3>3. CASE Dies(Root) /\ UNCHANGED step
      BY <1>t, <2>5, <3>3 DEF Dump, Dies, Falls
    <3> QED
      BY <2>5, <3>2, <3>3 DEF Dump
  <2>6. CASE CloseFile
    <3>1. CASE file = "NULL"
      BY <1>t, <2>6, <3>1 DEF CloseFile, Dies, Falls
    <3>2. CASE file # "NULL"
      BY <1>t, <2>6, <3>2, <1>g DEF CloseFile, Passage
    <3> QED
      BY <3>1, <3>2
  <2> QED
    BY <1>t, <2>1, <2>2, <2>3, <2>4, <2>5, <2>6 DEF RootStep
<1>a. ASSUME EarlyReturn(r) PROVE Moves(r)
  <2>1. CASE r = Root /\ EarlyScatterReturns
    BY <2>1, <1>g DEF EarlyScatterReturns, LeaveScatter, Passage
  <2>2. CASE EarlySendrecvReturns(r)
    BY <2>2, <1>v DEF EarlySendrecvReturns
  <2>3. CASE EarlyGatherReturns(r)
    BY <2>3, <1>w DEF EarlyGatherReturns
  <2> QED
    BY <1>a, <2>1, <2>2, <2>3 DEF EarlyReturn
<1> QED
  BY <1>r, <1>t, <1>a DEF ProcessStep

LEMMA DealtInit == Init => DealtInv
  BY RankFacts DEF Init, DealtInv, PreLoop, Others

(* What happens to the stripes dealt and to the file. *)
LEMMA DealtKept ==
    ASSUME IInv, NEW r \in Ranks, ProcessStep(r) \/ EarlyReturn(r)
    PROVE  /\ (pc[r] = "scatter" /\ r = Root) \/ \A s \in Ranks \ {r} : down'[s] = down[s]
           /\ down'[r] = down[r] \/ pc[r] = "scatter"
           /\ pc[r] = "scatter" /\ r = Root => \A s \in Others : down'[s] # <<>>
           /\ \/ file' = file
              \/ pc[r] = "open" /\ r = Root /\ file' # "closed"
              \/ pc[r] = "close" /\ pc'[r] = "finalize" /\ r = Root
           /\ pc[r] = "open" /\ r = Root => file' # "closed"
<1> USE RankFacts DEF p2pVars, collVars, fileVars, procVars
<1>0. TypeOK /\ PlaceInv
  BY DEF IInv
<1>1. CASE TakeStripe(r)
  BY <1>0, <1>1 DEF TakeStripe, TypeOK
<1>2. CASE r = Root /\ Deal
  <2>1. \A s \in Others : down'[s] = <<Slice(T, s)>>
    BY <1>2 DEF Deal, Others
  <2>2. \A s \in Others : down'[s] # <<>>
    <3>1. \A x : <<x>> # <<>>
      OBVIOUS
    <3> QED
      BY <2>1, <3>1, Zenon
  <2> QED
    BY <1>2, <2>2 DEF Deal
<1>3. CASE r = Root /\ OpenFile
  BY <1>3 DEF OpenFile
<1>4. CASE r = Root /\ CloseFile
  <2>1. down' = down /\ pc[r] = "close" /\ (file' = file \/ pc'[r] = "finalize")
    BY <1>0, <1>4, GotoFacts DEF CloseFile
  <2> QED
    BY <1>4, <2>1
<1>5. CASE down' = down /\ file' = file /\ ~(pc[r] = "scatter" /\ r = Root)
           /\ ~(pc[r] = "open" /\ r = Root)
  BY <1>5
<1> QED
  BY <1>1, <1>2, <1>3, <1>4, <1>5
     DEF ProcessStep, EarlyReturn, RankStep, RootStep, CheckTotal, CommRank, Allocate,
         EnterStep, Post, Receive, SendrecvReturns, LeaveSendrecv, TimeStep, LeaveLoop,
         SendStripe, GatherReturns, LeaveGather, Finalize, ScatterReturns, LeaveScatter,
         Gather, Dump, EarlyScatterReturns, EarlySendrecvReturns, EarlyGatherReturns

LEMMA DealtStep == IInv /\ DealtInv /\ [Next]_vars => DealtInv'
<1> SUFFICES ASSUME IInv, DealtInv, [Next]_vars PROVE DealtInv'
  OBVIOUS
<1> USE RankFacts
<1>1. ASSUME NEW r \in Ranks, ProcessStep(r) \/ EarlyReturn(r) PROVE DealtInv'
  <2>1. CASE Falls(r)
    BY <2>1 DEF Falls, DealtInv
  <2>2. CASE Moves(r)
    <3>1. /\ \A s \in Ranks \ {r} : pc'[s] = pc[s]
          /\ Passage(r) \/ (pc[r] \in {"gathering", "dump"} /\ pc'[r] = "loop")
      BY <2>2 DEF Moves
    <3>2. r # Root => (pc'[Root] = pc[Root]) /\ (pc'[r] \in PreLoop => pc[r] \in PreLoop)
          /\ (pc[r] = "scatter" => pc'[r] \notin PreLoop)
      BY <3>1 DEF Passage, PreLoop
    <3>3. r = Root => (pc'[Root] \notin PreLoop /\ pc[Root] \in PreLoop => pc[Root] = "scatter")
      BY <3>1 DEF Passage, PreLoop
    <3>4. /\ (pc[r] = "scatter" /\ r = Root) \/ \A s \in Ranks \ {r} : down'[s] = down[s]
          /\ down'[r] = down[r] \/ pc[r] = "scatter"
          /\ pc[r] = "scatter" /\ r = Root => \A s \in Others : down'[s] # <<>>
          /\ \/ file' = file
             \/ pc[r] = "open" /\ r = Root /\ file' # "closed"
             \/ pc[r] = "close" /\ pc'[r] = "finalize" /\ r = Root
          /\ pc[r] = "open" /\ r = Root => file' # "closed"
      BY <1>1, DealtKept
    <3>5. pc'[Root] \notin PreLoop => \A s \in Others : pc'[s] \in PreLoop => down'[s] # <<>>
      <4>1. CASE r = Root
        BY <4>1, <3>1, <3>3, <3>4 DEF DealtInv, Others
      <4>2. CASE r # Root
        BY <4>2, <3>1, <3>2, <3>4 DEF DealtInv, Others
      <4> QED
        BY <4>1, <4>2
    <3>6. file' = "closed" => pc'[Root] \in PreLoop \cup {"dealt", "open", "finalize", "done"}
      <4>1. CASE r = Root
        BY <4>1, <3>1, <3>4 DEF DealtInv, Passage, PreLoop
      <4>2. CASE r # Root
        BY <4>2, <3>2, <3>4 DEF DealtInv
      <4> QED
        BY <4>1, <4>2
    <3> QED
      BY <3>5, <3>6 DEF DealtInv
  <2> QED
    BY <1>1, <2>1, <2>2, MovesOrFalls
<1>2. CASE EndJob \/ UNCHANGED vars \/ \E r \in Ranks : UseNull(r)
  BY <1>2 DEF EndJob, UseNull, Dies, vars, collVars, fileVars, DealtInv
<1> QED
  BY <1>1, <1>2 DEF Next, Terminated

LEMMA Dealt == Spec => []DealtInv
  BY DealtInit, DealtStep, Invariance, PTL DEF Spec

(* A set of natural numbers has a least one: the only induction below, and *)
(* over sets, whose inclusion is well-founded.                             *)
LEMMA LeastNatural ==
    ASSUME NEW S \in SUBSET Nat, S # {}
    PROVE  \E m \in S : \A n \in S : m <= n
<1>1. PICK k \in S : TRUE
  OBVIOUS
<1> DEFINE U == 0 .. k
           I == {x \in SUBSET U : \E n \in S : n <= k /\ x = 0 .. n}
<1>2. IsFiniteSet(U) /\ k \in Nat
  BY FS_Interval
<1>3. IsWellFoundedOn(StrictSubsetOrdering(U), SUBSET U)
  BY <1>2, FS_StrictSubsetOrderingWellFounded, FS_FiniteSubsetsOfFinite
<1>4. I \subseteq SUBSET U /\ I # {}
  <2>1. 0 .. k \in I
    BY <1>1
  <2> QED
    BY <2>1
<1>5. PICK x \in I : \A y \in I : <<y, x>> \notin StrictSubsetOrdering(U)
  <2> HIDE DEF I
  <2> QED
    BY <1>3, <1>4, WFMin
<1>6. PICK m \in S : m <= k /\ x = 0 .. m
  BY <1>5
<1>7. ASSUME NEW n \in S, n < m PROVE FALSE
  <2>1. 0 .. n \in I
    BY <1>6, <1>7, <1>2
  <2>2. 0 .. n \subseteq 0 .. m /\ m \in 0 .. m /\ m \notin 0 .. n
    BY <1>7
  <2>3. <<0 .. n, x>> \in StrictSubsetOrdering(U)
    BY <1>6, <2>1, <2>2, <1>5 DEF StrictSubsetOrdering
  <2> QED
    BY <2>1, <2>3, <1>5
<1> QED
  BY <1>6, <1>7

(* The ranks in the second half of a Sendrecv. *)
InExchange(r) == pc[r] \in {"receive", "received"}

AllBlocked == \A r \in Ranks : pc[r] = "done" \/ Blocked(r)

LEMMA CountFacts ==
    ASSUME IInv
    PROVE  /\ \A r \in Ranks : step[r] \in Nat /\ step[r] <= tt
           /\ \A r, q \in Ranks : <<r, q>> \in Links =>
                 /\ <<q, r>> \in Links
                 /\ chan[<<r, q>>] = <<>> <=> Sent(r, q) = Got(q, r)
                 /\ Got(q, r) <= Sent(r, q)
           /\ \A r \in Others : /\ up[r] = <<>> <=> StripesSent(r) = StripesGot
                                /\ StripesGot <= StripesSent(r)
<1> USE RankFacts
<1>0. TypeOK /\ CountInv
  BY DEF IInv
<1>1. \A r \in Ranks : step[r] \in Nat /\ step[r] <= tt
  <2>1. \A r \in Ranks : step[r] \in 0 .. tt
    BY <1>0 DEF TypeOK
  <2> QED
    BY <2>1
<1>2. ASSUME NEW r \in Ranks, NEW q \in Ranks, <<r, q>> \in Links
      PROVE  /\ <<q, r>> \in Links
             /\ chan[<<r, q>>] = <<>> <=> Sent(r, q) = Got(q, r)
             /\ Got(q, r) <= Sent(r, q)
  <2>1. chan[<<r, q>>] \in Seq(Int)
    BY <1>0, <1>2 DEF TypeOK
  <2>2. /\ Len(chan[<<r, q>>]) \in Nat
        /\ chan[<<r, q>>] = <<>> <=> Len(chan[<<r, q>>]) = 0
    BY <2>1, TakeFacts
  <2>3. Len(chan[<<r, q>>]) = Sent(r, q) - Got(q, r)
    BY <1>0, <1>2 DEF CountInv
  <2>4. Sent(r, q) \in Int /\ Got(q, r) \in Int
    BY <1>0, CountType
  <2>5. <<q, r>> \in Links
    BY <1>2, LinkFacts
  <2> QED
    BY <2>2, <2>3, <2>4, <2>5
<1>3. ASSUME NEW r \in Others
      PROVE  /\ up[r] = <<>> <=> StripesSent(r) = StripesGot
             /\ StripesGot <= StripesSent(r)
  <2>1. up[r] \in Seq([Slots -> Int]) /\ r \in Ranks
    BY <1>0, <1>3 DEF TypeOK
  <2>2. Len(up[r]) \in Nat /\ (up[r] = <<>> <=> Len(up[r]) = 0)
    BY <2>1, TakeFacts
  <2>3. Len(up[r]) = StripesSent(r) - StripesGot
    BY <1>0, <1>3 DEF CountInv
  <2>4. StripesSent(r) \in Int /\ StripesGot \in Int
    BY <1>0, <2>1, CountType
  <2> QED
    BY <2>2, <2>3, <2>4
<1> QED
  BY <1>1, <1>2, <1>3

(* Once everyone has its stripe, whoever is blocked waits for an edge      *)
(* value, for a stripe or for rank 0.                                      *)
LEMMA WhereBlocked ==
    ASSUME IInv, DealtInv, AllBlocked
    PROVE  \A r \in Ranks : \/ pc[r] = "done" \/ InExchange(r)
                            \/ r = Root /\ pc[r] = "gather"
                            \/ r # Root /\ pc[r] = "gathering"
<1> USE RankFacts
<1>0. TypeOK /\ PlaceInv /\ DealInv
  BY DEF IInv
<1>1. pc[Root] \notin PreLoop
  BY DEF AllBlocked, Blocked, PreLoop
<1>2. \A r \in Ranks : r # Root => pc[r] # "scatter"
  BY <1>1 DEF AllBlocked, Blocked, DealtInv, PreLoop, Others
<1>3. \A r \in Ranks : r # Root => pc[r] \notin PreLoop
  BY <1>2 DEF AllBlocked, Blocked, PreLoop
<1>4. AllDealt
  BY <1>0, <1>3 DEF DealInv, AllDealt
<1>5. file # "closed" \/ pc[Root] \in {"dealt", "open", "finalize", "done"}
  BY <1>1 DEF DealtInv
<1>6. ASSUME NEW r \in Ranks, pc[r] = "dump" PROVE FALSE
  BY <1>0, <1>5, <1>6 DEF PlaceInv, Placed, RootOnly, AllBlocked, Blocked
<1>7. \A r \in Ranks : pc[r] = "gathering" => r # Root
  BY <1>0 DEF PlaceInv, Placed
<1> QED
  BY <1>1, <1>2, <1>4, <1>6, <1>7 DEF AllBlocked, Blocked, PreLoop, InExchange

(* Somebody who waits for a stripe, or for rank 0 to gather one, waits for *)
(* a rank in an exchange of the same step or an earlier one.               *)
LEMMA WaitsForExchange ==
    ASSUME IInv, DealtInv, AllBlocked, NEW r \in Ranks, pc[r] # "done"
    PROVE  \E x \in Ranks : InExchange(x) /\ step[x] <= step[r]
<1> USE RankFacts
<1>0. TypeOK /\ PlaceInv
  BY DEF IInv
<1>t. /\ \A q \in Ranks : step[q] \in Nat /\ step[q] <= tt
      /\ \A q \in Others : /\ up[q] = <<>> <=> StripesSent(q) = StripesGot
                           /\ StripesGot <= StripesSent(q)
  BY CountFacts
<1>w. \A q \in Ranks : \/ pc[q] = "done" \/ InExchange(q)
                       \/ q = Root /\ pc[q] = "gather"
                       \/ q # Root /\ pc[q] = "gathering"
  BY WhereBlocked
<1>1. ASSUME pc[Root] = "gather"
      PROVE  \E x \in Ranks : InExchange(x) /\ step[x] = step[Root]
  <2>1. PICK q \in Others : up[q] = <<>>
    BY <1>1 DEF AllBlocked, Blocked
  <2>2. q \in Ranks /\ q # Root
    BY DEF Others
  <2>3. StripesSent(q) = step[Root]
    BY <1>1, <1>t, <2>1 DEF StripesGot
  <2>4. pc[q] # "gathering"
    BY <2>1, <2>2 DEF AllBlocked, Blocked
  <2>5. pc[q] # "done"
    <3>1. ASSUME pc[q] = "done" PROVE FALSE
      <4>1. step[q] = tt /\ StripesSent(q) = step[q] + 1
        BY <1>0, <2>2, <3>1 DEF PlaceInv, Placed, StripesSent
      <4>2. step[Root] \in Nat /\ step[Root] <= tt
        BY <1>t
      <4> QED
        BY <2>3, <4>1, <4>2
    <3> QED
      BY <3>1
  <2>6. InExchange(q)
    BY <1>w, <2>2, <2>4, <2>5
  <2>7. step[q] = step[Root]
    BY <2>3, <2>6 DEF StripesSent, InExchange
  <2> QED
    BY <2>2, <2>6, <2>7
<1>2. CASE InExchange(r)
  BY <1>2, <1>t
<1>3. CASE r = Root /\ pc[r] = "gather"
  BY <1>1, <1>3, <1>t
<1>4. CASE r # Root /\ pc[r] = "gathering"
  <2>1. r \in Others /\ up[r] # <<>>
    BY <1>4 DEF Others, AllBlocked, Blocked
  <2>2. StripesSent(r) = step[r] + 1
    BY <1>4 DEF StripesSent
  <2>3. StripesGot \in Int
    BY <1>0, CountType
  <2>4. StripesGot <= step[r]
    BY <1>t, <2>1, <2>2, <2>3
  <2>5. pc[Root] # "done"
    <3>1. ASSUME pc[Root] = "done" PROVE FALSE
      <4>1. step[Root] = tt /\ StripesGot = step[Root] + 1
        BY <1>0, <3>1 DEF PlaceInv, Placed, StripesGot
      <4> QED
        BY <1>t, <2>4, <4>1
    <3> QED
      BY <3>1
  <2>6. pc[Root] = "gather" \/ InExchange(Root)
    BY <1>w, <2>5
  <2>7. step[Root] <= step[r]
    BY <2>4, <2>6 DEF StripesGot, InExchange
  <2>8. CASE pc[Root] = "gather"
    <3>1. PICK x \in Ranks : InExchange(x) /\ step[x] = step[Root]
      BY <1>1, <2>8
    <3> QED
      BY <2>7, <3>1
  <2> QED
    BY <2>6, <2>7, <2>8
<1> QED
  BY <1>w, <1>2, <1>3, <1>4

(***************************************************************************)
(* A rank that is blocked in an exchange, when nobody is in an earlier     *)
(* step, waits for its right neighbour, which is blocked in an exchange of *)
(* the same step: whoever has come to its left neighbour is through with   *)
(* the right one, so that no wait goes to the left.                        *)
(***************************************************************************)
LEMMA WaitsToTheRight ==
    ASSUME IInv, DealtInv, AllBlocked, NEW x \in Ranks, InExchange(x),
           \A y \in Ranks : step[y] >= step[x]
    PROVE  x + 1 \in Ranks /\ InExchange(x + 1) /\ step[x + 1] = step[x]
<1> USE RankFacts
<1>0. TypeOK /\ PlaceInv
  BY DEF IInv
<1>t. \A q \in Ranks : step[q] \in Nat /\ step[q] <= tt
  BY CountFacts
<1>w. \A q \in Ranks : \/ pc[q] = "done" \/ InExchange(q)
                       \/ q = Root /\ pc[q] = "gather"
                       \/ q # Root /\ pc[q] = "gathering"
  BY WhereBlocked
<1> DEFINE p == peer[x]
<1>1. /\ p \in Ranks /\ <<x, p>> \in Links /\ <<p, x>> \in Links
      /\ p = x - 1 \/ p = x + 1
      /\ step[x] < tt
  <2>1. p \in Ranks /\ <<x, p>> \in Links /\ step[x] < tt
    BY <1>0 DEF InExchange, PlaceInv, Placed, Exchanging, InStep, TypeOK
  <2> QED
    BY <2>1, LinkFacts
<1> HIDE DEF p
<1>2. step[p] >= step[x] /\ step[p] \in Nat
  BY <1>1, <1>t
<1>c. /\ chan[<<x, p>>] = <<>> <=> Sent(x, p) = Got(p, x)
      /\ Got(p, x) <= Sent(x, p)
      /\ chan[<<p, x>>] = <<>> <=> Sent(p, x) = Got(x, p)
  BY <1>1, CountFacts
(* The neighbour has not finished the step, nor its exchange with x. *)
<1>3. /\ step[p] = step[x]
      /\ ~HasSent(p, x) \/ ~HasGot(p, x)
      /\ pc[x] = "received" /\ p \in Ranks => ~HasGot(p, x)
      /\ pc[x] = "receive" => ~HasSent(p, x)
  <2>1. CASE pc[x] = "receive"
    <3>1. chan[<<p, x>>] = <<>>
      BY <2>1 DEF AllBlocked, Blocked, p
    <3>2. ~HasGot(x, p)
      BY <1>1, <2>1 DEF HasGot, Exchanging, p
    <3>3. Sent(p, x) = step[x]
      BY <1>c, <3>1, <3>2 DEF Got
    <3> QED
      BY <1>2, <1>t, <2>1, <3>3 DEF Sent
  <2>2. CASE pc[x] = "received"
    <3>1. chan[<<x, p>>] # <<>>
      BY <2>2 DEF AllBlocked, Blocked, Delivered, p
    <3>2. HasSent(x, p)
      BY <2>2 DEF HasSent, p
    <3>3. Got(p, x) \in Int /\ step[x] \in Nat /\ Sent(x, p) = step[x] + 1
      BY <1>0, <1>1, <1>t, <3>2, CountType DEF Sent
    <3>4. Got(p, x) < step[x] + 1
      BY <1>c, <3>1, <3>3
    <3> QED
      BY <1>2, <2>2, <3>3, <3>4 DEF Got
  <2> QED
    BY <2>1, <2>2 DEF InExchange
<1>4. InExchange(p)
  <2>1. pc[p] # "done"
    <3>1. step[p] < tt /\ step[p] \in Nat /\ tt \in Nat
      BY <1>1, <1>2, <1>3
    <3>2. pc[p] = "done" => step[p] = tt
      BY <1>0, <1>1 DEF PlaceInv, Placed
    <3> QED
      BY <3>1, <3>2
  <2>2. ~(pc[p] \in {"gather", "gathering"})
    BY <1>1, <1>3 DEF HasSent, HasGot
  <2> QED
    BY <1>1, <1>w, <2>1, <2>2
<1>5. peer[p] = p - 1 \/ peer[p] = p + 1
  <2>1. peer[p] \in Ranks /\ <<p, peer[p]>> \in Links
    BY <1>0, <1>1, <1>4 DEF InExchange, PlaceInv, Placed, Exchanging, TypeOK
  <2> QED
    BY <1>1, <2>1, LinkFacts
<1>6. ASSUME p = x - 1 PROVE FALSE
  <2>1. peer[p] = p + 1 /\ x = p + 1
    BY <1>1, <1>3, <1>4, <1>5, <1>6 DEF HasSent, HasGot, InExchange, Exchanging
  <2>2. CASE pc[x] = "receive"
    BY <1>3, <1>4, <2>1, <2>2 DEF HasSent, InExchange
  <2>3. CASE pc[x] = "received"
    <3>1. pc[p] = "receive"
      BY <1>1, <1>3, <1>4, <2>1, <2>3 DEF HasGot, InExchange
    <3>2. chan[<<x, p>>] = <<>>
      BY <1>1, <2>1, <3>1 DEF AllBlocked, Blocked
    <3> QED
      BY <2>3, <3>2 DEF AllBlocked, Blocked, Delivered, p
  <2> QED
    BY <2>2, <2>3 DEF InExchange
<1> QED
  BY <1>1, <1>3, <1>4, <1>6

LEMMA SomebodyCan == IInv /\ DealtInv => NoDeadlock
<1> SUFFICES ASSUME IInv, DealtInv, dead = {}, AllBlocked,
                    NEW r \in Ranks, pc[r] # "done"
             PROVE  FALSE
  BY DEF NoDeadlock, CanStep, Ended, AllBlocked
<1> USE RankFacts
<1>t. \A q \in Ranks : step[q] \in Nat /\ step[q] <= tt
  BY CountFacts
<1> DEFINE Steps == {step[y] : y \in {z \in Ranks : InExchange(z)}}
<1>1. Steps \in SUBSET Nat /\ Steps # {}
  BY <1>t, WaitsForExchange
<1>2. PICK n \in Steps : \A k \in Steps : n <= k
  <2> HIDE DEF Steps
  <2> QED
    BY <1>1, LeastNatural
<1>3. PICK w \in Ranks : InExchange(w) /\ step[w] = n
  BY <1>2
<1>4. \A y \in Ranks : step[y] >= n
  <2> SUFFICES ASSUME NEW y \in Ranks PROVE step[y] >= n
    OBVIOUS
  <2>1. CASE pc[y] = "done"
    BY <1>3, <1>t, <2>1 DEF IInv, PlaceInv, Placed
  <2>2. CASE pc[y] # "done"
    <3>1. PICK x \in Ranks : InExchange(x) /\ step[x] <= step[y]
      BY <2>2, WaitsForExchange
    <3>2. step[x] \in Steps /\ step[x] \in Nat /\ step[y] \in Nat /\ n \in Nat
      BY <1>3, <1>t, <3>1
    <3>3. n <= step[x]
      BY <1>2, <3>2
    <3> QED
      BY <3>1, <3>2, <3>3
  <2> QED
    BY <2>1, <2>2
<1> HIDE DEF Steps
<1> DEFINE Y == {x \in Ranks : InExchange(x) /\ step[x] = n}
           ToTheEnd == {Total - x : x \in Y}
<1>5. \A x \in Y : x + 1 \in Y
  BY <1>4, WaitsToTheRight
<1>6. ToTheEnd \in SUBSET Nat /\ ToTheEnd # {}
  <2>1. \A x \in Ranks : Total - x \in Nat
    OBVIOUS
  <2> QED
    BY <1>3, <2>1
<1>7. PICK k \in ToTheEnd : \A j \in ToTheEnd : k <= j
  <2> HIDE DEF ToTheEnd
  <2> QED
    BY <1>6, LeastNatural
<1>8. PICK x \in Y : k = Total - x
  BY <1>7
<1>9. Total - (x + 1) \in ToTheEnd /\ x \in Int
  BY <1>5
<1> HIDE DEF ToTheEnd, Y
<1> QED
  BY <1>7, <1>8, <1>9

(* Every state in which no process has died and not all have ended lets    *)
(* some process go on: although every rank sends to both neighbours        *)
(* before it waits for them, and rank 0 gathers from all the others, no    *)
(* number of ranks, nodes or steps leads to a circle of ranks waiting for  *)
(* each other's message.                                                   *)
THEOREM NoCircularWait == Spec => []NoDeadlock
  BY Dealt, Invariance, SomebodyCan, PTL

-----------------------------------------------------------------------------
(* How many steps a rank has before it, at most. *)

(* Those of this round of the loop; a Sendrecv with the left neighbour is  *)
(* the last one of a rank.                                                 *)
LeftInRound(r) ==
    LET exchange == IF peer[r] = r - 1 THEN 0 ELSE 3
    IN  CASE pc[r] = "start" -> 17
          [] pc[r] = "rank" -> 16
          [] pc[r] = "alloc" -> 15
          [] pc[r] = "scatter" -> 14
          [] pc[r] = "dealt" -> 13
          [] pc[r] = "open" -> 12
          [] pc[r] = "loop" -> 11
          [] pc[r] = "post" -> 7 + exchange
          [] pc[r] = "receive" -> 6 + exchange
          [] pc[r] = "received" -> 5 + exchange
          [] pc[r] = "compute" -> 4
          [] pc[r] = "gather" -> 3
          [] pc[r] \in {"gathering", "dump", "close"} -> 2
          [] pc[r] = "finalize" -> 1
          [] OTHER -> 0

StepsLeft(r) == 12 * (tt - step[r]) + LeftInRound(r)

(* Some rank has fewer steps before it and the others as many as before,   *)
(* or a process dies and none goes back.                                   *)
Advances ==
    \/ /\ dead \subseteq dead' /\ dead' # dead
       /\ \A q \in Ranks : StepsLeft(q)' = StepsLeft(q)
    \/ /\ dead' = dead
       /\ \E r \in Ranks : /\ StepsLeft(r)' < StepsLeft(r)
                           /\ \A q \in Ranks \ {r} : StepsLeft(q)' = StepsLeft(q)

LEMMA StepsLeftType ==
    ASSUME TypeOK, NEW r \in Ranks
    PROVE  StepsLeft(r) \in Nat /\ StepsLeft(r) <= 12 * tt + 17
<1>1. LeftInRound(r) \in 0 .. 17
  BY DEF LeftInRound
<1>2. step[r] \in 0 .. tt
  BY DEF TypeOK
<1> QED
  BY <1>1, <1>2, RankFacts DEF StepsLeft

LEMMA MoveShortens ==
    ASSUME IInv, IInv', NEW r \in Ranks, Moves(r)
    PROVE  StepsLeft(r)' < StepsLeft(r)
<1>1. /\ step[r] \in Nat /\ step'[r] \in Nat /\ tt \in Nat
      /\ r \in Int
  BY RankFacts DEF IInv, TypeOK
<1>2. CASE step'[r] = step[r] /\ Passage(r)
  <2>1. LeftInRound(r)' < LeftInRound(r) /\ LeftInRound(r) \in Int /\ LeftInRound(r)' \in Int
    BY <1>1, <1>2 DEF Passage, LeftInRound
  <2> QED
    BY <1>1, <1>2, <2>1 DEF StepsLeft
<1>3. CASE pc[r] \in {"gathering", "dump"} /\ pc'[r] = "loop" /\ step'[r] = step[r] + 1
  <2>1. LeftInRound(r) = 2 /\ LeftInRound(r)' = 11
    BY <1>3 DEF LeftInRound
  <2> QED
    BY <1>1, <1>3, <2>1 DEF StepsLeft
<1> QED
  BY <1>2, <1>3 DEF Moves

LEMMA NextAdvances == IInv /\ IInv' /\ [Next]_vars => [Advances]_vars
<1> SUFFICES ASSUME IInv, IInv', Next PROVE Advances \/ UNCHANGED vars
  OBVIOUS
<1>1. ASSUME NEW r \in Ranks, ProcessStep(r) \/ EarlyReturn(r) PROVE Advances
  <2>1. CASE Moves(r)
    <3>1. StepsLeft(r)' < StepsLeft(r)
      BY <2>1, MoveShortens
    <3>2. \A q \in Ranks \ {r} : StepsLeft(q)' = StepsLeft(q)
      BY <2>1 DEF Moves, StepsLeft, LeftInRound
    <3> QED
      BY <2>1, <3>1, <3>2 DEF Advances, Moves
  <2>2. CASE Falls(r)
    <3>1. dead' # dead
      BY <1>1, <2>2 DEF Falls, ProcessStep, EarlyReturn
    <3> QED
      BY <2>2, <3>1 DEF Falls, Advances, StepsLeft, LeftInRound
  <2> QED
    BY <1>1, <2>1, <2>2, MovesOrFalls
<1>2. CASE EndJob
  <2>1. CASE dead' # dead
    BY <1>2, <2>1 DEF EndJob, Advances, StepsLeft, LeftInRound, p2pVars
  <2>2. CASE dead' = dead
    BY <1>2, <2>2 DEF EndJob, vars, procVars
  <2> QED
    BY <2>1, <2>2
<1>3. ASSUME NEW r \in Ranks, UseNull(r) PROVE Advances
  <2>1. dead' # dead
    BY <1>3 DEF UseNull, Dies
  <2> QED
    BY <1>3, <2>1 DEF UseNull, Dies, Advances, StepsLeft, LeftInRound, p2pVars
<1> QED
  BY <1>1, <1>2, <1>3 DEF Next, Terminated

BoundedWork == \A r \in Ranks : StepsLeft(r) \in 0 .. 12 * tt + 17

(* A rank has at most 12 * tt + 17 steps before it and every step that the *)
(* job takes brings one rank nearer to its end and none further from it,   *)
(* or is the death of a process: with NoCircularWait, every run of the     *)
(* program ends, whatever the order in which the ranks are scheduled.      *)
THEOREM StepsRunOut == Spec => []BoundedWork /\ [][Advances]_vars
<1>1. IInv => BoundedWork
  BY StepsLeftType, RankFacts DEF IInv, BoundedWork
<1> QED
  BY <1>1, NextAdvances, Invariance, PTL DEF Spec

-----------------------------------------------------------------------------
(***************************************************************************)
(* Why the values need two nodes per process: with one, time_step uses an  *)
(* element outside stripe_old in every rank, and never the value received  *)
(* from the left (main.c 184-208).                                         *)
(***************************************************************************)
THEOREM OneNodeReadsOutside ==
    ASSUME stripe_size = 1, NEW r \in Ranks, NEW old, NEW left, NEW right
    PROVE  time_step(r, old, left, right)[0] =
              IF r = Total - 1 THEN right_boundary(Garbage)
              ELSE IF r = 0 THEN left_boundary(Garbage)
              ELSE forward_euler(Garbage, old[0], right)
<1> DEFINE ss == stripe_size
<1>1. ss = 1 /\ Slots = {0}
  BY DEF Slots
<1>2. slot(old, 0 - 1) = Garbage /\ slot(old, 0 + 1) = Garbage
  BY <1>1 DEF slot
<1>3. /\ IsRightEnd(r, 0) <=> r = Total - 1
      /\ IsLeftEnd(r, 0) <=> r = 0
      /\ 0 = stripe_size - 1
  BY <1>1 DEF IsRightEnd, IsLeftEnd
<1>4. time_step(r, old, left, right)[0] =
        IF IsRightEnd(r, 0) THEN right_boundary(slot(old, 0 - 1))
        ELSE IF IsLeftEnd(r, 0) THEN left_boundary(slot(old, 0 + 1))
        ELSE IF 0 = stripe_size - 1 THEN forward_euler(slot(old, 0 - 1), old[0], right)
        ELSE IF 0 = 0 THEN forward_euler(left, old[0], slot(old, 0 + 1))
        ELSE forward_euler(old[0 - 1], old[0], old[0 + 1])
  BY <1>1 DEF time_step
<1> QED
  BY <1>2, <1>3, <1>4
=============================================================================
