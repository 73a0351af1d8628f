---------------------------- MODULE LedgerProofs ----------------------------
(***************************************************************************)
(* The proofs about what is spent and about how a process goes.  First the *)
(* drain: the in-flight count is exact, and a drain that keeps its budget  *)
(* severs nobody it counted, for any number of requests and any budget.    *)
(* Then the ledger: the counters and the reports agree with its rows, and  *)
(* a cap is overshot by no more than what was in flight, for any requests, *)
(* prices, caps, months and windows.  Then the usage importer: whatever    *)
(* the files hold, a call is booked once, and at its model's price.  Then  *)
(* the reporting periods: on any calendar they meet, and a fee is fair.    *)
(* Last the binary framing, whose sums and recursions are of the same      *)
(* kind: however a stream is cut, its messages are read whole.             *)
(***************************************************************************)
EXTENDS Drain, Ledger, Imports, Periods, EventStream, FiniteSetTheorems, SequenceTheorems, WellFoundedInduction, TLAPS

(* The requests whose guard is alive.                                      *)
Live == {r \in Requests : Guarded(r)}

(* The types, without the bound on the count: that follows from Exact.     *)
Typed ==
    /\ stage \in [Requests -> Stages]
    /\ task \in [Requests -> Tasks]
    /\ in_flight \in Nat
    /\ phase \in {"serving", "draining", "stopped", "exited"}
    /\ left \in 0..Budget
    /\ overrun \in BOOLEAN
    /\ late \subseteq Requests

Exact == in_flight = Cardinality(Live) \/ ~Up

(* A task is only left behind by a handler that is through.                *)
TaskAfterHandler ==
    \A r \in Requests : stage[r] \in {"none", "arriving", "handling"} => task[r] = "none"

(* Once the drain has resolved, only late requests hold a guard; tasks are *)
(* severed by the exit and by nothing else.                                *)
OnlyLateLive ==
    /\ Up => \A r \in Requests : task[r] # "severed"
    /\ phase = "exited" => \A r \in Requests : task[r] \notin Running
    /\ phase = "stopped" /\ ~overrun => \A r \in Requests \ late : ~Guarded(r)
    /\ phase = "exited" /\ ~overrun => \A r \in Requests \ late : task[r] # "severed"
    /\ phase \in {"serving", "draining"} => ~overrun

InFlightBounded == in_flight <= Cardinality(Requests)

IInv == Typed /\ Exact /\ TaskAfterHandler /\ OnlyLateLive /\ InFlightBounded

(* The guards alive are finitely many, so the count is a natural number no *)
(* larger than the number of requests.                                     *)
LEMMA LiveFinite ==
    /\ IsFiniteSet(Requests)
    /\ IsFiniteSet(Live)
    /\ Cardinality(Live) \in Nat
    /\ Cardinality(Requests) \in Nat
    /\ Cardinality(Live) <= Cardinality(Requests)
<1>1. Live \subseteq Requests BY DEF Live
<1> QED BY <1>1, DrainAssumption, FS_Subset, FS_CardinalityType

(* The same of the next state's guards.                                    *)
LEMMA LiveFiniteNext ==
    /\ IsFiniteSet(Live')
    /\ Cardinality(Live') \in Nat
    /\ Cardinality(Live') <= Cardinality(Requests)
<1>1. Live' \subseteq Requests BY DEF Live
<1> QED BY <1>1, DrainAssumption, FS_Subset, FS_CardinalityType

(* track, on a request without a guard, adds one to both sides.            *)
LEMMA CountsUp ==
    ASSUME NEW r \in Requests, ~Guarded(r), Live' = Live \cup {r}
    PROVE  Cardinality(Live') = Cardinality(Live) + 1
<1>1. r \notin Live BY DEF Live
<1> QED BY <1>1, LiveFinite, FS_AddElement

(* Dropping the guard of a request that has one takes one from both.       *)
LEMMA CountsDown ==
    ASSUME NEW r \in Requests, Guarded(r), Live' = Live \ {r}
    PROVE  Cardinality(Live') = Cardinality(Live) - 1
<1>1. r \in Live BY DEF Live
<1> QED BY <1>1, LiveFinite, FS_RemoveElement

(* With the count at zero there is no guard alive.                         *)
LEMMA ZeroIsNobody ==
    ASSUME Cardinality(Live) = 0 PROVE \A r \in Requests : ~Guarded(r)
<1>1. Live = {} BY LiveFinite, FS_EmptySet
<1> QED BY <1>1 DEF Live

(* No request, no guard, nothing counted.                                  *)
LEMMA InitEstablishes == Init => IInv
<1> SUFFICES ASSUME Init PROVE IInv OBVIOUS
<1>1. Live = {} BY DEF Init, Live, Guarded, Running
<1>2. Cardinality(Live) = 0 BY <1>1, FS_EmptySet
<1>3. overrun \in BOOLEAN BY DEF Init
<1> QED BY <1>2, <1>3, LiveFinite, DrainAssumption
    DEF Init, IInv, Typed, Exact, TaskAfterHandler, OnlyLateLive, InFlightBounded,
        Stages, Tasks, Open, Running, Up

(* Every action of a request keeps the invariant. The set of guards alive  *)
(* gains r, loses r or stays, and the count with it.                       *)
LEMMA RequestKeeps ==
    ASSUME IInv, NEW r \in Requests, Request(r)
    PROVE  IInv'
<1> USE DrainAssumption
<1>0. Up /\ Up' /\ in_flight = Cardinality(Live)
    BY DEF IInv, Exact, Request, Up, process, Accept, Refuse, Dispatch, Collected, Streamed,
           Failed, PumpEnds, Written, Delivered, HangUp
<1>q. ASSUME Typed', TaskAfterHandler', OnlyLateLive', in_flight' = Cardinality(Live')
      PROVE  IInv'
    BY <1>q, LiveFiniteNext DEF IInv, Exact, InFlightBounded
<1>1. CASE Accept(r)
  <2>1. Live' = Live
    BY <1>1 DEF IInv, Live, Accept, Typed, TaskAfterHandler, Stages, Tasks, Open, Running, Guarded, Goes, Spawns, process, track, drop_guard
  <2>2. in_flight' = Cardinality(Live')
    BY <1>0, <1>1, <2>1 DEF Accept, track, drop_guard
  <2>3. Typed' /\ TaskAfterHandler'
    BY <1>1, <2>2, LiveFiniteNext DEF IInv, Accept, Typed, TaskAfterHandler, OnlyLateLive, Stages, Tasks, Open, Running, Up, Guarded, process, Goes, Spawns, track, drop_guard
  <2>4. OnlyLateLive'
    BY <1>0, <1>1 DEF IInv, Accept, Typed, TaskAfterHandler, OnlyLateLive, Stages, Tasks, Open, Running, Up, Guarded, process, Goes, Spawns, track, drop_guard
  <2> QED BY <2>2, <2>3, <2>4, <1>q
<1>2. CASE Refuse(r)
  <2>1. Live' = Live
    BY <1>2 DEF IInv, Live, Refuse, Typed, TaskAfterHandler, Stages, Tasks, Open, Running, Guarded, Goes, Spawns, process, track, drop_guard
  <2>2. in_flight' = Cardinality(Live')
    BY <1>0, <1>2, <2>1 DEF Refuse, track, drop_guard
  <2>3. Typed' /\ TaskAfterHandler'
    BY <1>2, <2>2, LiveFiniteNext DEF IInv, Refuse, Typed, TaskAfterHandler, OnlyLateLive, Stages, Tasks, Open, Running, Up, Guarded, process, Goes, Spawns, track, drop_guard
  <2>4. OnlyLateLive'
    BY <1>0, <1>2 DEF IInv, Refuse, Typed, TaskAfterHandler, OnlyLateLive, Stages, Tasks, Open, Running, Up, Guarded, process, Goes, Spawns, track, drop_guard
  <2> QED BY <2>2, <2>3, <2>4, <1>q
<1>3. CASE Dispatch(r)
  <2>1. Live' = Live \cup {r} /\ ~Guarded(r)
    BY <1>3 DEF IInv, Live, Dispatch, Typed, TaskAfterHandler, Stages, Tasks, Open, Running, Guarded, Goes, Spawns, process, track, drop_guard
  <2>2. in_flight' = Cardinality(Live')
    BY <1>0, <1>3, <2>1, CountsUp DEF Dispatch, track, drop_guard
  <2>3. Typed' /\ TaskAfterHandler'
    BY <1>3, <2>2, LiveFiniteNext DEF IInv, Dispatch, Typed, TaskAfterHandler, OnlyLateLive, Stages, Tasks, Open, Running, Up, Guarded, process, Goes, Spawns, track, drop_guard
  <2>4. OnlyLateLive'
    BY <1>0, <1>3 DEF IInv, Dispatch, Typed, TaskAfterHandler, OnlyLateLive, Stages, Tasks, Open, Running, Up, Guarded, process, Goes, Spawns, track, drop_guard
  <2> QED BY <2>2, <2>3, <2>4, <1>q
<1>4. CASE Collected(r)
  <2>1. Live' = Live
    BY <1>4 DEF IInv, Live, Collected, Typed, TaskAfterHandler, Stages, Tasks, Open, Running, Guarded, Goes, Spawns, process, track, drop_guard
  <2>2. in_flight' = Cardinality(Live')
    BY <1>0, <1>4, <2>1 DEF Collected, track, drop_guard
  <2>3. Typed' /\ TaskAfterHandler'
    BY <1>4, <2>2, LiveFiniteNext DEF IInv, Collected, Typed, TaskAfterHandler, OnlyLateLive, Stages, Tasks, Open, Running, Up, Guarded, process, Goes, Spawns, track, drop_guard
  <2>4. OnlyLateLive'
    BY <1>0, <1>4 DEF IInv, Collected, Typed, TaskAfterHandler, OnlyLateLive, Stages, Tasks, Open, Running, Up, Guarded, process, Goes, Spawns, track, drop_guard
  <2> QED BY <2>2, <2>3, <2>4, <1>q
<1>5. CASE Streamed(r)
  <2>1. Live' = Live
    BY <1>5 DEF IInv, Live, Streamed, Typed, TaskAfterHandler, Stages, Tasks, Open, Running, Guarded, Goes, Spawns, process, track, drop_guard
  <2>2. in_flight' = Cardinality(Live')
    BY <1>0, <1>5, <2>1 DEF Streamed, track, drop_guard
  <2>3. Typed' /\ TaskAfterHandler'
    BY <1>5, <2>2, LiveFiniteNext DEF IInv, Streamed, Typed, TaskAfterHandler, OnlyLateLive, Stages, Tasks, Open, Running, Up, Guarded, process, Goes, Spawns, track, drop_guard
  <2>4. OnlyLateLive'
    BY <1>0, <1>5 DEF IInv, Streamed, Typed, TaskAfterHandler, OnlyLateLive, Stages, Tasks, Open, Running, Up, Guarded, process, Goes, Spawns, track, drop_guard
  <2> QED BY <2>2, <2>3, <2>4, <1>q
<1>6. CASE Failed(r)
  <2>2. in_flight' = Cardinality(Live')
    <3>a. CASE UNCHANGED task
      <4>1. Live' = Live \ {r} /\ Guarded(r) /\ in_flight' = in_flight - 1
        BY <1>6, <3>a DEF IInv, Live, Failed, Typed, TaskAfterHandler, Stages, Tasks, Open, Running, Guarded, Goes, Spawns, process, track, drop_guard
      <4> QED BY <1>0, <4>1, CountsDown
    <3>b. CASE ~UNCHANGED task
      <4>1. Live' = Live /\ in_flight' = in_flight
        BY <1>6, <3>b DEF IInv, Live, Failed, Typed, TaskAfterHandler, Stages, Tasks, Open, Running, Guarded, Goes, Spawns, process, track, drop_guard
      <4> QED BY <1>0, <4>1
    <3> QED BY <3>a, <3>b
  <2>3. Typed' /\ TaskAfterHandler'
    BY <1>6, <2>2, LiveFiniteNext DEF IInv, Failed, Typed, TaskAfterHandler, OnlyLateLive, Stages, Tasks, Open, Running, Up, Guarded, process, Goes, Spawns, track, drop_guard
  <2>4. OnlyLateLive'
    BY <1>0, <1>6 DEF IInv, Failed, Typed, TaskAfterHandler, OnlyLateLive, Stages, Tasks, Open, Running, Up, Guarded, process, Goes, Spawns, track, drop_guard
  <2> QED BY <2>2, <2>3, <2>4, <1>q
<1>7. CASE PumpEnds(r)
  <2>1. Live' = Live
    BY <1>7 DEF IInv, Live, PumpEnds, Typed, TaskAfterHandler, Stages, Tasks, Open, Running, Guarded, Goes, Spawns, process, track, drop_guard
  <2>2. in_flight' = Cardinality(Live')
    BY <1>0, <1>7, <2>1 DEF PumpEnds, track, drop_guard
  <2>3. Typed' /\ TaskAfterHandler'
    BY <1>7, <2>2, LiveFiniteNext DEF IInv, PumpEnds, Typed, TaskAfterHandler, OnlyLateLive, Stages, Tasks, Open, Running, Up, Guarded, process, Goes, Spawns, track, drop_guard
  <2>4. OnlyLateLive'
    BY <1>0, <1>7 DEF IInv, PumpEnds, Typed, TaskAfterHandler, OnlyLateLive, Stages, Tasks, Open, Running, Up, Guarded, process, Goes, Spawns, track, drop_guard
  <2> QED BY <2>2, <2>3, <2>4, <1>q
<1>8. CASE Written(r)
  <2>1. Live' = Live \ {r} /\ Guarded(r)
    BY <1>8 DEF IInv, Live, Written, Typed, TaskAfterHandler, Stages, Tasks, Open, Running, Guarded, Goes, Spawns, process, track, drop_guard
  <2>2. in_flight' = Cardinality(Live')
    BY <1>0, <1>8, <2>1, CountsDown DEF Written, track, drop_guard
  <2>3. Typed' /\ TaskAfterHandler'
    BY <1>8, <2>2, LiveFiniteNext DEF IInv, Written, Typed, TaskAfterHandler, OnlyLateLive, Stages, Tasks, Open, Running, Up, Guarded, process, Goes, Spawns, track, drop_guard
  <2>4. OnlyLateLive'
    BY <1>0, <1>8 DEF IInv, Written, Typed, TaskAfterHandler, OnlyLateLive, Stages, Tasks, Open, Running, Up, Guarded, process, Goes, Spawns, track, drop_guard
  <2> QED BY <2>2, <2>3, <2>4, <1>q
<1>9. CASE Delivered(r)
  <2>1. Live' = Live
    BY <1>9 DEF IInv, Live, Delivered, Typed, TaskAfterHandler, Stages, Tasks, Open, Running, Guarded, Goes, Spawns, process, track, drop_guard
  <2>2. in_flight' = Cardinality(Live')
    BY <1>0, <1>9, <2>1 DEF Delivered, track, drop_guard
  <2>3. Typed' /\ TaskAfterHandler'
    BY <1>9, <2>2, LiveFiniteNext DEF IInv, Delivered, Typed, TaskAfterHandler, OnlyLateLive, Stages, Tasks, Open, Running, Up, Guarded, process, Goes, Spawns, track, drop_guard
  <2>4. OnlyLateLive'
    BY <1>0, <1>9 DEF IInv, Delivered, Typed, TaskAfterHandler, OnlyLateLive, Stages, Tasks, Open, Running, Up, Guarded, process, Goes, Spawns, track, drop_guard
  <2> QED BY <2>2, <2>3, <2>4, <1>q
<1>10. CASE HangUp(r)
  <2>2. in_flight' = Cardinality(Live')
    <3>a. CASE stage[r] = "handling"
      <4>1. Live' = Live \ {r} /\ Guarded(r) /\ in_flight' = in_flight - 1
        BY <1>10, <3>a DEF IInv, Live, HangUp, Typed, TaskAfterHandler, Stages, Tasks, Open, Running, Guarded, Goes, Spawns, process, track, drop_guard
      <4> QED BY <1>0, <4>1, CountsDown
    <3>b. CASE stage[r] # "handling"
      <4>1. Live' = Live /\ in_flight' = in_flight
        BY <1>10, <3>b DEF IInv, Live, HangUp, Typed, TaskAfterHandler, Stages, Tasks, Open, Running, Guarded, Goes, Spawns, process, track, drop_guard
      <4> QED BY <1>0, <4>1
    <3> QED BY <3>a, <3>b
  <2>3. Typed' /\ TaskAfterHandler'
    BY <1>10, <2>2, LiveFiniteNext DEF IInv, HangUp, Typed, TaskAfterHandler, OnlyLateLive, Stages, Tasks, Open, Running, Up, Guarded, process, Goes, Spawns, track, drop_guard
  <2>4. OnlyLateLive'
    BY <1>0, <1>10 DEF IInv, HangUp, Typed, TaskAfterHandler, OnlyLateLive, Stages, Tasks, Open, Running, Up, Guarded, process, Goes, Spawns, track, drop_guard
  <2> QED BY <2>2, <2>3, <2>4, <1>q
<1> QED BY <1>1, <1>2, <1>3, <1>4, <1>5, <1>6, <1>7, <1>8, <1>9, <1>10 DEF Request

(* The process's own steps leave the guards alone until the exit.          *)
LEMMA ProcessKeeps ==
    ASSUME IInv, Sigterm \/ Poll \/ Exit \/ UNCHANGED vars
    PROVE  IInv'
<1> USE DrainAssumption DEF IInv, Typed, Exact, TaskAfterHandler, OnlyLateLive,
        InFlightBounded, Stages, Tasks, Open, Running, Up, Guarded
<1>1. CASE Sigterm
  BY <1>1 DEF Sigterm, Live
<1>2. CASE Poll
  <2>1. Live' = Live BY <1>2 DEF Poll, Live
  <2>2. in_flight = 0 => \A r \in Requests : ~Guarded(r)
    BY <1>2, ZeroIsNobody DEF Poll
  <2>b. overrun' \in BOOLEAN BY <1>2 DEF Poll
  <2>3. Typed' /\ TaskAfterHandler' /\ Exact' /\ InFlightBounded'
    BY <1>2, <2>1, <2>b DEF Poll
  <2>4. OnlyLateLive'
    BY <1>2, <2>2 DEF Poll
  <2> QED BY <2>3, <2>4
<1>3. CASE Exit
  BY <1>3 DEF Exit
<1>4. CASE UNCHANGED vars
  BY <1>4 DEF vars, Live
<1> QED BY <1>1, <1>2, <1>3, <1>4

(* The invariant holds of every reachable state.                           *)
THEOREM Inductive == Spec => []IInv
<1>1. IInv /\ [Next]_vars => IInv'
    BY RequestKeeps, ProcessKeeps DEF Next
<1> QED BY InitEstablishes, <1>1, PTL DEF Spec

(* The count never passes the number of requests, and never goes below     *)
(* zero where the code's unsigned counter would wrap.                      *)
THEOREM DrainTypeCorrect == Spec => []TypeOK
<1>1. IInv => TypeOK
    BY LiveFinite DEF IInv, Typed, TypeOK, InFlightBounded
<1> QED BY Inductive, <1>1, PTL

(* Every way a request ends gives its guard back exactly once.             *)
THEOREM CountExact == Spec => []CountIsExact
<1>1. IInv => CountIsExact
    BY DEF IInv, Exact, CountIsExact, Live
<1> QED BY Inductive, <1>1, PTL

(* A drain that kept its budget severs nobody it could count.              *)
THEOREM DrainWaitsForCounted == Spec => []DrainWaits
<1>1. IInv => DrainWaits
    BY DEF IInv, OnlyLateLive, DrainWaits, Guarded, Running, Up
<1> QED BY Inductive, <1>1, PTL

(* All of it, for any number of requests and any budget.                   *)
THEOREM DrainIsSafe == Spec => []DrainSafe
BY DrainTypeCorrect, CountExact, DrainWaitsForCounted, PTL DEF DrainSafe

-----------------------------------------------------------------------------
(***************************************************************************)
(* The ledger.  The library's sums are folds, defined by a recursion over  *)
(* sets; what they compute is proved first, from the least set on which it *)
(* would fail.                                                             *)
(***************************************************************************)

(* A nonempty set of natural numbers has a least one.                      *)
LEMMA LeastNatural ==
    ASSUME NEW T, T \subseteq Nat, T # {}
    PROVE  \E n \in T : \A m \in T : n <= m
<1> DEFINE R == {ss \in Nat \X Nat : ss[1] < ss[2]}
<1>1. IsWellFoundedOn(R, Nat)
  BY NatLessThanWellFounded DEF OpToRel
<1>2. PICK n \in T : \A m \in T : ~ (<<m, n>> \in R)
  BY <1>1, WFMin
<1>3. \A m \in T : ~ (m < n)
  BY <1>2
<1> QED BY <1>3

(* Induction over a finite set, the property given as a set of its subsets. *)
LEMMA SubsetInduction ==
    ASSUME NEW S, IsFiniteSet(S), NEW P, {} \in P,
           \A s \in SUBSET S : \A x \in S \ s : s \in P => s \cup {x} \in P
    PROVE  S \in P
<1> SUFFICES ASSUME S \notin P PROVE FALSE
  OBVIOUS
<1> DEFINE T == {n \in Nat : \E s \in SUBSET S : s \notin P /\ Cardinality(s) = n}
<1>1. Cardinality(S) \in T
  BY FS_CardinalityType
<1>2. PICK n \in T : \A m \in T : n <= m
  BY <1>1, LeastNatural
<1>3. PICK s \in SUBSET S : s \notin P /\ Cardinality(s) = n
  BY <1>2
<1>4. IsFiniteSet(s) /\ s # {}
  BY <1>3, FS_Subset
<1>5. PICK x : x \in s
  BY <1>4
<1>6. Cardinality(s \ {x}) = n - 1 /\ Cardinality(s \ {x}) \in Nat
  <2>1. IsFiniteSet(s \ {x}) /\ Cardinality(s \ {x}) = Cardinality(s) - 1
    BY <1>4, <1>5, FS_RemoveElement
  <2> QED BY <1>3, <2>1, FS_CardinalityType
<1>7. s \ {x} \in P
  <2> SUFFICES ASSUME s \ {x} \notin P PROVE FALSE
    OBVIOUS
  <2>1. n - 1 \in T
    BY <1>6
  <2> HIDE DEF T
  <2>2. n \in Nat
    BY DEF T
  <2> QED BY <1>2, <2>1, <2>2
<1>8. (s \ {x}) \cup {x} = s /\ x \in S \ (s \ {x}) /\ s \ {x} \in SUBSET S
  BY <1>3, <1>5
<1> QED BY <1>3, <1>7, <1>8

Pick(s) == CHOOSE x \in s : TRUE
SumStep(g, s, f) == IF s = {} THEN 0 ELSE f[Pick(s)] + g[s \ {Pick(s)}]
Iter(S, f) == CHOOSE g : g = [s \in SUBSET S |-> SumStep(g, s, f)]

(* The recursion behind the fold has a solution over a finite set.         *)
LEMMA IterExists ==
    ASSUME NEW S, IsFiniteSet(S), NEW f
    PROVE  \E g : g = [s \in SUBSET S |-> SumStep(g, s, f)]
<1> DEFINE Upto(n, g) == \A s \in SUBSET S : Cardinality(s) <= n => g[s] = SumStep(g, s, f)
           T == {n \in Nat : ~ \E g : Upto(n, g)}
<1>0. \A s \in SUBSET S : IsFiniteSet(s) /\ Cardinality(s) \in Nat /\ (s # {} => /\ Pick(s) \in s /\ Cardinality(s \ {Pick(s)}) = Cardinality(s) - 1
                 /\ s \ {Pick(s)} \in SUBSET S)
  BY FS_Subset, FS_CardinalityType, FS_RemoveElement DEF Pick
<1>1. \E g : Upto(0, g)
  <2>1. Upto(0, [s \in SUBSET S |-> 0])
    <3> SUFFICES ASSUME NEW s \in SUBSET S, Cardinality(s) <= 0 PROVE s = {}
      BY DEF SumStep
    <3>1. IsFiniteSet(s) /\ Cardinality(s) \in Nat
      BY <1>0, Zenon
    <3>2. Cardinality(s) = 0
      BY <3>1
    <3> QED BY <3>1, <3>2, FS_EmptySet
  <2> QED BY <2>1
<1>2. ASSUME NEW n \in Nat, NEW g, Upto(n, g) PROVE \E h : Upto(n + 1, h)
  <2> DEFINE h == [s \in SUBSET S |-> IF Cardinality(s) <= n THEN g[s] ELSE SumStep(g, s, f)]
  <2>1. ASSUME NEW s \in SUBSET S, Cardinality(s) <= n + 1 PROVE h[s] = SumStep(h, s, f)
    <3>1. h[s] = SumStep(g, s, f)
      BY <1>2
    <3>2. CASE s = {}
      BY <3>1, <3>2 DEF SumStep
    <3>3. CASE s # {}
      <4>1. Cardinality(s \ {Pick(s)}) <= n /\ s \ {Pick(s)} \in SUBSET S
        BY <1>0, <2>1, <3>3
      <4>2. h[s \ {Pick(s)}] = g[s \ {Pick(s)}]
        BY <4>1
      <4> QED BY <3>1, <3>3, <4>2 DEF SumStep
    <3> QED BY <3>2, <3>3
  <2> QED BY <2>1
<1>3. T = {}
  <2> SUFFICES ASSUME T # {} PROVE FALSE
    OBVIOUS
  <2>1. PICK n \in T : \A m \in T : n <= m
    BY LeastNatural
  <2>2. n # 0
    BY <1>1, <2>1
  <2>3. n - 1 \in Nat /\ n - 1 \notin T
    BY <2>1, <2>2
  <2>4. PICK g : Upto(n - 1, g)
    BY <2>3
  <2>5. (n - 1) + 1 = n
    BY <2>1
  <2> HIDE DEF Upto
  <2>6. \E h : Upto(n, h)
    BY <1>2, <2>3, <2>4, <2>5
  <2> QED BY <2>1, <2>6
<1>4. PICK g : Upto(Cardinality(S), g)
  BY <1>3, FS_CardinalityType
<1>5. \A s \in SUBSET S : g[s] = SumStep(g, s, f)
  <2> SUFFICES ASSUME NEW s \in SUBSET S PROVE Cardinality(s) <= Cardinality(S)
    BY <1>4
  <2> QED BY FS_Subset
<1> DEFINE h == [s \in SUBSET S |-> g[s]]
<1>6. \A s \in SUBSET S : SumStep(h, s, f) = g[s]
  <2> SUFFICES ASSUME NEW s \in SUBSET S PROVE SumStep(h, s, f) = SumStep(g, s, f)
    BY <1>5
  <2> QED BY <1>0 DEF SumStep
<1>7. h = [s \in SUBSET S |-> SumStep(h, s, f)]
  BY <1>6
<1> HIDE DEF h
<1> QED BY <1>7

(* A sum is that solution at the whole set.                                *)
LEMMA SumIsIter ==
    ASSUME NEW S, NEW f
    PROVE  SumOver(S, f) = Iter(S, f)[S]
  BY DEF SumOver, MapThenSumSet, MapThenFoldSet, Iter, SumStep, Pick

(* The solution obeys the recursion.                                       *)
LEMMA IterIs ==
    ASSUME NEW S, IsFiniteSet(S), NEW f, NEW s \in SUBSET S
    PROVE  Iter(S, f)[s] = SumStep(Iter(S, f), s, f)
<1> DEFINE g == Iter(S, f)
<1>1. g = [r \in SUBSET S |-> SumStep(g, r, f)]
  BY IterExists DEF Iter
<1> HIDE DEF g
<1>2. g[s] = SumStep(g, s, f)
  BY <1>1
<1> QED BY <1>2 DEF g

(* Which sets the fold is defined over does not matter.                    *)
LEMMA SumWithin ==
    ASSUME NEW S, IsFiniteSet(S), NEW f, NEW s \in SUBSET S
    PROVE  SumOver(s, f) = Iter(S, f)[s]
<1> DEFINE T == {n \in Nat : \E q \in SUBSET s : Iter(s, f)[q] # Iter(S, f)[q] /\ Cardinality(q) = n}
<1>1. IsFiniteSet(s)
  BY FS_Subset
<1>2. \A q \in SUBSET s : IsFiniteSet(q) /\ Cardinality(q) \in Nat /\ (q # {} => Pick(q) \in q)
  BY <1>1, FS_Subset, FS_CardinalityType DEF Pick
<1>3. \A q \in SUBSET s : Iter(s, f)[q] = SumStep(Iter(s, f), q, f) /\ Iter(S, f)[q] = SumStep(Iter(S, f), q, f)
  BY <1>1, IterIs
<1>4. ASSUME T # {} PROVE FALSE
  <2>1. PICK n \in T : \A m \in T : n <= m
    BY <1>4, LeastNatural
  <2>2. PICK q \in SUBSET s : Iter(s, f)[q] # Iter(S, f)[q] /\ Cardinality(q) = n
    BY <2>1
  <2>3. q # {} /\ Iter(s, f)[q \ {Pick(q)}] # Iter(S, f)[q \ {Pick(q)}]
    BY <1>3, <2>2 DEF SumStep
  <2>4. Cardinality(q \ {Pick(q)}) = n - 1 /\ Cardinality(q \ {Pick(q)}) \in Nat /\ q \ {Pick(q)} \in SUBSET s
    BY <1>2, <2>2, <2>3, FS_RemoveElement
  <2>5. n - 1 \in T /\ n \in Nat
    BY <2>1, <2>3, <2>4
  <2> HIDE DEF T
  <2> QED BY <2>1, <2>5
<1>5. Iter(s, f)[s] = Iter(S, f)[s]
  BY <1>2, <1>4
<1> QED BY <1>5, SumIsIter

(* Nothing adds up to nothing.                                             *)
LEMMA SumOfNone == ASSUME NEW f PROVE SumOver({}, f) = 0
<1>1. IsFiniteSet({})
  BY FS_EmptySet
<1>2. Iter({}, f)[{}] = SumStep(Iter({}, f), {}, f)
  BY <1>1, IterIs
<1> QED BY <1>2, SumIsIter DEF SumStep

(* A sum takes out the element the fold chooses, and goes on.              *)
LEMMA SumPicks ==
    ASSUME NEW S, IsFiniteSet(S), NEW f, S # {}
    PROVE  Pick(S) \in S /\ SumOver(S, f) = f[Pick(S)] + SumOver(S \ {Pick(S)}, f)
<1>1. Iter(S, f)[S] = f[Pick(S)] + Iter(S, f)[S \ {Pick(S)}]
  BY IterIs DEF SumStep
<1>2. SumOver(S, f) = Iter(S, f)[S] /\ SumOver(S \ {Pick(S)}, f) = Iter(S, f)[S \ {Pick(S)}]
  BY SumIsIter, SumWithin
<1> QED BY <1>1, <1>2 DEF Pick

(* f adds whole numbers over S.                                            *)
Integral(S, f) == IsFiniteSet(S) /\ \A x \in S : f[x] \in Int

(* A sum of whole numbers is one.                                          *)
LEMMA SumWhole ==
    ASSUME NEW S, NEW f, Integral(S, f)
    PROVE  SumOver(S, f) \in Int
<1> DEFINE T == {n \in Nat : \E s \in SUBSET S : SumOver(s, f) \notin Int /\ Cardinality(s) = n}
<1>1. \A s \in SUBSET S : IsFiniteSet(s) /\ Cardinality(s) \in Nat
  BY FS_Subset, FS_CardinalityType DEF Integral
<1>2. ASSUME T # {} PROVE FALSE
  <2>1. PICK n \in T : \A m \in T : n <= m
    BY <1>2, LeastNatural
  <2>2. PICK s \in SUBSET S : SumOver(s, f) \notin Int /\ Cardinality(s) = n
    BY <2>1
  <2>3. s # {}
    BY <2>2, SumOfNone
  <2>4. Pick(s) \in s /\ SumOver(s, f) = f[Pick(s)] + SumOver(s \ {Pick(s)}, f)
    BY <1>1, <2>3, SumPicks
  <2>5. Cardinality(s \ {Pick(s)}) = n - 1 /\ Cardinality(s \ {Pick(s)}) \in Nat /\ s \ {Pick(s)} \in SUBSET S
    BY <1>1, <2>2, <2>4, FS_RemoveElement
  <2>6. SumOver(s \ {Pick(s)}, f) \notin Int
    BY <2>2, <2>4 DEF Integral
  <2>7. n - 1 \in T /\ n \in Nat
    BY <2>1, <2>5, <2>6
  <2> HIDE DEF T
  <2> QED BY <2>1, <2>7
<1> QED BY <1>1, <1>2

(* An element may be taken out of a sum wherever the fold would take it.   *)
LEMMA SumAdds ==
    ASSUME NEW S, NEW f, Integral(S, f), NEW y \in S
    PROVE  SumOver(S, f) = SumOver(S \ {y}, f) + f[y]
<1> DEFINE Odd(s) == \E x \in s : SumOver(s, f) # SumOver(s \ {x}, f) + f[x]
           T == {n \in Nat : \E s \in SUBSET S : Odd(s) /\ Cardinality(s) = n}
<1>1. \A s \in SUBSET S : IsFiniteSet(s) /\ Cardinality(s) \in Nat /\ SumOver(s, f) \in Int
  BY FS_Subset, FS_CardinalityType, SumWhole DEF Integral
<1>2. ASSUME T # {} PROVE FALSE
  <2>1. PICK n \in T : \A m \in T : n <= m
    BY <1>2, LeastNatural
  <2>2. PICK s \in SUBSET S : Odd(s) /\ Cardinality(s) = n
    BY <2>1
  <2>3. PICK x \in s : SumOver(s, f) # SumOver(s \ {x}, f) + f[x]
    BY <2>2
  <2>4. PICK p : p = Pick(s)
    OBVIOUS
  <2>5. p \in s /\ SumOver(s, f) = f[p] + SumOver(s \ {p}, f)
    BY <1>1, <2>3, <2>4, SumPicks
  <2>6. p # x
    <3>1. SumOver(s \ {p}, f) \in Int /\ f[p] \in Int
      BY <1>1, <2>5 DEF Integral
    <3>2. f[p] + SumOver(s \ {p}, f) = SumOver(s \ {p}, f) + f[p]
      BY <3>1
    <3> QED BY <2>3, <2>5, <3>2
  <2>7. ASSUME NEW e \in s PROVE ~ Odd(s \ {e}) /\ s \ {e} \in SUBSET S
    <3>1. Cardinality(s \ {e}) = n - 1 /\ Cardinality(s \ {e}) \in Nat /\ s \ {e} \in SUBSET S
      BY <1>1, <2>2, FS_RemoveElement
    <3>2. n - 1 \notin T
      <4> HIDE DEF T
      <4>1. n \in Nat
        BY DEF T
      <4> QED BY <2>1, <4>1
    <3> HIDE DEF Odd
    <3> QED BY <3>1, <3>2
  <2>8. SumOver(s \ {p}, f) = SumOver((s \ {p}) \ {x}, f) + f[x]
    BY <2>5, <2>6, <2>7
  <2>9. SumOver(s \ {x}, f) = SumOver((s \ {x}) \ {p}, f) + f[p]
    BY <2>5, <2>6, <2>7
  <2>10. (s \ {p}) \ {x} = (s \ {x}) \ {p} /\ (s \ {x}) \ {p} \in SUBSET S /\ s \ {p} \in SUBSET S /\ s \ {x} \in SUBSET S
    BY <2>2
  <2>11. PICK a, b, c, d, u, v : /\ a = SumOver(s, f) /\ b = SumOver(s \ {p}, f) /\ c = SumOver(s \ {x}, f)
                                 /\ d = SumOver((s \ {x}) \ {p}, f) /\ u = f[p] /\ v = f[x]
    OBVIOUS
  <2>12. a \in Int /\ b \in Int /\ c \in Int /\ d \in Int /\ u \in Int /\ v \in Int
    BY <1>1, <2>5, <2>10, <2>11 DEF Integral
  <2>13. a = u + b /\ b = d + v /\ c = d + u /\ a # c + v
    BY <2>3, <2>5, <2>8, <2>9, <2>10, <2>11
  <2> QED BY <2>12, <2>13
<1>3. ~ Odd(S)
  BY <1>1, <1>2
<1> QED BY <1>3

(* Sums over sets that do not meet add up.                                 *)
LEMMA SumSplits ==
    ASSUME NEW S, NEW f, Integral(S, f), NEW A \in SUBSET S
    PROVE  /\ SumOver(A, f) \in Int /\ SumOver(S \ A, f) \in Int
           /\ SumOver(S, f) = SumOver(A, f) + SumOver(S \ A, f)
<1>0. \A s \in SUBSET S : IsFiniteSet(s) /\ Integral(s, f) /\ SumOver(s, f) \in Int
  BY FS_Subset, SumWhole DEF Integral
<1> DEFINE P == {s \in SUBSET A : SumOver(S, f) = SumOver(s, f) + SumOver(S \ s, f)}
<1>1. {} \in P
  <2>1. S \ {} = S /\ SumOver(S, f) \in Int
    BY <1>0
  <2> QED BY <2>1, SumOfNone
<1>2. ASSUME NEW s \in SUBSET A, NEW x \in A \ s, s \in P PROVE s \cup {x} \in P
  <2>1. SumOver(S \ s, f) = SumOver((S \ s) \ {x}, f) + f[x]
    BY <1>0, SumAdds
  <2>2. SumOver(s \cup {x}, f) = SumOver((s \cup {x}) \ {x}, f) + f[x]
    BY <1>0, SumAdds
  <2>3. (s \cup {x}) \ {x} = s /\ (S \ s) \ {x} = S \ (s \cup {x})
    OBVIOUS
  <2>4. PICK a, b, c, d, e, v : /\ a = SumOver(S, f) /\ b = SumOver(s, f) /\ c = SumOver(S \ s, f)
                                /\ d = SumOver(S \ (s \cup {x}), f) /\ e = SumOver(s \cup {x}, f) /\ v = f[x]
    OBVIOUS
  <2>5. a \in Int /\ b \in Int /\ c \in Int /\ d \in Int /\ e \in Int /\ v \in Int
    BY <1>0, <2>4 DEF Integral
  <2>6. a = b + c /\ c = d + v /\ e = b + v
    BY <1>2, <2>1, <2>2, <2>3, <2>4
  <2>7. a = e + d
    BY <2>5, <2>6
  <2> QED BY <2>4, <2>7
<1>3. A \in P
  <2> HIDE DEF P
  <2> QED BY <1>0, <1>1, <1>2, SubsetInduction
<1> QED BY <1>0, <1>3

(* f adds amounts over S.                                                  *)
Amounts(S, f) == IsFiniteSet(S) /\ \A x \in S : f[x] \in Nat

(* A sum of amounts is an amount, and part of it is no more than all.      *)
LEMMA SumGrows ==
    ASSUME NEW S, NEW f, Amounts(S, f), NEW A \in SUBSET S
    PROVE  Amounts(A, f) /\ SumOver(A, f) \in Nat /\ SumOver(A, f) <= SumOver(S, f)
<1>0. Integral(S, f) /\ \A s \in SUBSET S : Amounts(s, f) /\ Integral(s, f)
  BY FS_Subset DEF Integral, Amounts
<1>1. ASSUME NEW T \in SUBSET S PROVE SumOver(T, f) \in Nat
  <2> DEFINE P == {s \in SUBSET T : SumOver(s, f) \in Nat}
  <2>1. {} \in P
    BY SumOfNone
  <2>2. ASSUME NEW s \in SUBSET T, NEW x \in T \ s, s \in P PROVE s \cup {x} \in P
    <3>1. s \cup {x} \in SUBSET S
      OBVIOUS
    <3>2. SumOver(s \cup {x}, f) = SumOver((s \cup {x}) \ {x}, f) + f[x]
      BY <1>0, <3>1, SumAdds
    <3>3. (s \cup {x}) \ {x} = s /\ f[x] \in Nat /\ SumOver(s, f) \in Nat
      BY <2>2 DEF Amounts
    <3>4. SumOver(s \cup {x}, f) \in Nat
      BY <3>2, <3>3
    <3> QED BY <3>4
  <2>3. IsFiniteSet(T)
    BY <1>0 DEF Amounts
  <2>4. T \in P
    <3> HIDE DEF P
    <3> QED BY <2>1, <2>2, <2>3, SubsetInduction
  <2> QED BY <2>4
<1>2. SumOver(S, f) = SumOver(A, f) + SumOver(S \ A, f)
  BY <1>0, SumSplits
<1>3. SumOver(A, f) \in Nat /\ SumOver(S \ A, f) \in Nat
  BY <1>1
<1> QED BY <1>0, <1>2, <1>3

(* Only the values on the set matter.                                      *)
LEMMA SumAlike ==
    ASSUME NEW S, NEW f, NEW g, Integral(S, f), \A x \in S : f[x] = g[x]
    PROVE  SumOver(S, f) = SumOver(S, g)
<1>0. \A s \in SUBSET S : Integral(s, f) /\ Integral(s, g)
  BY FS_Subset DEF Integral
<1> DEFINE P == {s \in SUBSET S : SumOver(s, f) = SumOver(s, g)}
<1>1. {} \in P
  BY SumOfNone
<1>2. ASSUME NEW s \in SUBSET S, NEW x \in S \ s, s \in P PROVE s \cup {x} \in P
  <2>1. SumOver(s \cup {x}, f) = SumOver((s \cup {x}) \ {x}, f) + f[x] /\ SumOver(s \cup {x}, g) = SumOver((s \cup {x}) \ {x}, g) + g[x]
    BY <1>0, SumAdds
  <2>2. (s \cup {x}) \ {x} = s
    OBVIOUS
  <2> QED BY <1>2, <2>1, <2>2
<1>3. S \in P
  <2> HIDE DEF P
  <2> QED BY <1>1, <1>2, SubsetInduction DEF Integral
<1> QED BY <1>3

(* What is summed group by group is the sum.                               *)
Keys(S, key) == {key[i] : i \in S}
Group(S, key, k) == {i \in S : key[i] = k}

LEMMA SumByGroup ==
    ASSUME NEW S, NEW f, Integral(S, f), NEW key, NEW g, \A k \in Keys(S, key) : g[k] = SumOver(Group(S, key, k), f)
    PROVE  SumOver(Keys(S, key), g) = SumOver(S, f)
<1> USE DEF Group
<1> DEFINE K == Keys(S, key)
           In(s) == {i \in S : key[i] \in s}
           P == {s \in SUBSET K : SumOver(s, g) = SumOver(In(s), f)}
<1>0. IsFiniteSet(K)
  <2> DEFINE image == [i \in S |-> key[i]]
  <2>1. image \in Surjection(S, K)
    BY DEF Surjection, Keys
  <2> HIDE DEF K, image
  <2> QED BY <2>1, FS_Surjection DEF Integral
<1>1. \A s \in SUBSET S : IsFiniteSet(s) /\ Integral(s, f) /\ SumOver(s, f) \in Int
  BY FS_Subset, SumWhole DEF Integral
<1>2. Integral(K, g)
  BY <1>0, <1>1 DEF Integral
<1>3. {} \in P
  <2>1. In({}) = {}
    OBVIOUS
  <2> QED BY <2>1, SumOfNone
<1>4. ASSUME NEW s \in SUBSET K, NEW x \in K \ s, s \in P PROVE s \cup {x} \in P
  <2>0. Integral(s \cup {x}, g)
    BY <1>0, <1>2, FS_Subset DEF Integral
  <2>1. SumOver(s \cup {x}, g) = SumOver((s \cup {x}) \ {x}, g) + g[x]
    BY <2>0, SumAdds
  <2>2. (s \cup {x}) \ {x} = s /\ In(s) \in SUBSET In(s \cup {x}) /\ In(s \cup {x}) \ In(s) = {i \in S : key[i] = x}
    OBVIOUS
  <2>3. SumOver(In(s \cup {x}), f) = SumOver(In(s), f) + SumOver(In(s \cup {x}) \ In(s), f)
    BY <1>1, <2>2, SumSplits
  <2> QED BY <1>4, <2>1, <2>2, <2>3
<1>5. K \in P
  <2> HIDE DEF P
  <2> QED BY <1>0, <1>3, <1>4, SubsetInduction
<1>6. In(K) = S
  BY DEF Keys
<1> QED BY <1>5, <1>6

(* Adding one for each counts them.                                        *)
LEMMA SumCounts ==
    ASSUME NEW S, IsFiniteSet(S), NEW f, \A x \in S : f[x] = 1
    PROVE  SumOver(S, f) = Cardinality(S)
<1>0. \A s \in SUBSET S : IsFiniteSet(s) /\ Integral(s, f)
  BY FS_Subset DEF Integral
<1> DEFINE P == {s \in SUBSET S : SumOver(s, f) = Cardinality(s)}
<1>1. {} \in P
  BY SumOfNone, FS_EmptySet
<1>2. ASSUME NEW s \in SUBSET S, NEW x \in S \ s, s \in P PROVE s \cup {x} \in P
  <2>1. SumOver(s \cup {x}, f) = SumOver((s \cup {x}) \ {x}, f) + f[x]
    BY <1>0, SumAdds
  <2>2. (s \cup {x}) \ {x} = s /\ f[x] = 1
    OBVIOUS
  <2>3. Cardinality(s \cup {x}) = Cardinality(s) + 1
    BY <1>0, FS_AddElement
  <2> QED BY <1>2, <2>1, <2>2, <2>3
<1>3. S \in P
  <2> HIDE DEF P
  <2> QED BY <1>1, <1>2, SubsetInduction
<1> QED BY <1>3

(* A finite nonempty set of natural numbers has a greatest one.            *)
LEMMA GreatestOf ==
    ASSUME NEW S, IsFiniteSet(S), S # {}, S \subseteq Nat
    PROVE  Max(S) \in S /\ \A x \in S : x <= Max(S)
<1> DEFINE P == {s \in SUBSET S : s = {} \/ \E x \in s : \A y \in s : y <= x}
<1>1. {} \in P
  OBVIOUS
<1>2. ASSUME NEW s \in SUBSET S, NEW z \in S \ s, s \in P PROVE s \cup {z} \in P
  <2>1. CASE s = {}
    BY <2>1
  <2>2. CASE s # {}
    <3>1. PICK x \in s : \A y \in s : y <= x
      BY <1>2, <2>2
    <3>2. x \in Nat /\ z \in Nat /\ s \subseteq Nat
      OBVIOUS
    <3>3. CASE z <= x
      BY <3>1, <3>2, <3>3
    <3>4. CASE ~ (z <= x)
      <4>1. \A y \in s : y <= z
        BY <3>1, <3>2, <3>4
      <4> QED BY <3>2, <4>1
    <3> QED BY <3>3, <3>4
  <2> QED BY <2>1, <2>2
<1>3. S \in P
  <2> HIDE DEF P
  <2> QED BY <1>1, <1>2, SubsetInduction
<1>4. PICK x \in S : \A y \in S : x >= y
  BY <1>3
<1>5. Max(S) \in S /\ \A y \in S : Max(S) >= y
  BY <1>4 DEF Max
<1> QED BY <1>5

-----------------------------------------------------------------------------
(* The calendar.                                                           *)
LEMMA Months ==
    ASSUME NEW t \in Nat, NEW u \in Nat
    PROVE  /\ MonthOf(t) \in Nat /\ MonthStart(t) \in Nat /\ MonthStart(t) <= t
           /\ t <= u => MonthOf(t) <= MonthOf(u)
           /\ u >= MonthStart(t) <=> MonthOf(u) >= MonthOf(t)
<1>1. PICK M \in Nat \ {0} : M = MonthLength
  BY LedgerConstants
<1>2. ASSUME NEW x \in Nat PROVE \E q \in Nat : q = MonthOf(x) /\ M * q <= x /\ x < M * q + M
  <2>0. M \in Nat /\ M > 0
    OBVIOUS
  <2>1. x \div M \in Nat
    BY <2>0
  <2>2. M * (x \div M) <= x
    BY <2>0
  <2>3. x < M * (x \div M) + M
    BY <2>0
  <2> QED BY <1>1, <2>1, <2>2, <2>3 DEF MonthOf
<1>3. PICK a \in Nat : a = MonthOf(t) /\ M * a <= t /\ t < M * a + M
  BY <1>2
<1>4. PICK b \in Nat : b = MonthOf(u) /\ M * b <= u /\ u < M * b + M
  BY <1>2
<1>5. ASSUME NEW c \in Nat, NEW d \in Nat, c < d PROVE M * c + M <= M * d
  <2>1. PICK e \in Nat : d = c + 1 + e
    <3>1. d - (c + 1) \in Nat /\ d = c + 1 + (d - (c + 1))
      BY <1>5
    <3> QED BY <3>1
  <2>2. M * d = M * c + M + M * e /\ M * e \in Nat /\ M * c \in Nat
    BY <2>1
  <2> QED BY <2>2
<1>6. M * a \in Nat /\ M * b \in Nat /\ MonthStart(t) = M * a
  BY <1>1, <1>3 DEF MonthStart
<1>7. t <= u => a <= b
  <2> SUFFICES ASSUME t <= u, b < a PROVE FALSE
    OBVIOUS
  <2> QED BY <1>3, <1>4, <1>5, <1>6
<1>8. u >= M * a <=> b >= a
  <2>1. ASSUME b < a PROVE u < M * a
    BY <1>4, <1>5, <1>6, <2>1
  <2>2. ASSUME a <= b PROVE M * a <= M * b
    <3>1. CASE a = b
      BY <3>1, <1>6
    <3>2. CASE a < b
      BY <3>2, <1>5, <1>6
    <3> QED BY <2>2, <3>1, <3>2
  <2> QED BY <1>4, <1>6, <2>1, <2>2
<1> QED BY <1>3, <1>4, <1>6, <1>7, <1>8

-----------------------------------------------------------------------------
(* The state.                                                              *)
Writes(by) == {UsageWrite(call, by) : call \in Calls}
Rows == [cost : Nat, list : Nat, served : {call.served : call \in Calls}, model : {call.model : call \in Calls},
         by : {"gateway", "previous"}, at : Nat, done : Nat]

WorkOK(w) ==
    /\ work[w].pc \in {"idle", "planning", "serving", "writing"}
    /\ work[w].pc = "writing" => work[w].row \in Writes("gateway") /\ work[w].at \in Nat /\ work[w].at <= now
PassOK ==
    /\ pass.pc \in {"idle", "listed", "begun", "locked", "summed"}
    /\ pass.pc = "listed" => pass.left # <<>>
    /\ pass.pc # "idle" => pass.left \in Seq(Monthly)
    /\ pass.pc \in {"begun", "locked", "summed"} => pass.row \in Monthly /\ pass.at \in Nat /\ pass.at <= now
    /\ pass.pc = "summed" => pass.sum \in Nat
LedgerTypeOK ==
    /\ now \in Nat
    /\ rows \in Seq(Rows) /\ \A i \in DOMAIN rows : rows[i].at <= rows[i].done /\ rows[i].done <= now
    /\ counter \in [Meters -> [spent : Nat, month : Nat \cup {NoMonth}]]
    /\ \A m \in Monthly : counter[m].month <= MonthOf(now)
    /\ DOMAIN work = Workers /\ \A w \in Workers : WorkOK(w)
    /\ PassOK

GatewaySince(k) == {i \in ByGateway(DOMAIN rows) : MonthOf(rows[i].at) >= k}
DoneSince(k) == {i \in DOMAIN rows : MonthOf(rows[i].done) >= k}

(* The monthly counters: no row of this release is of a later month, those *)
(* of the counter's month are in it, and nothing is in it that was written *)
(* before that month.  A pass's sum will do for the month it was taken in. *)
KeyTracks == counter["key"].spent = SumOver(DOMAIN rows, Cost)
MeterTracks(m) ==
    /\ \A i \in ByGateway(DOMAIN rows) : MonthOf(rows[i].at) <= counter[m].month
    /\ SumOver(GatewaySince(counter[m].month), Cost) <= counter[m].spent
    /\ counter[m].spent <= SumOver(DoneSince(counter[m].month), Cost)
SumWillDo ==
    pass.pc = "summed" => /\ SumOver(GatewaySince(MonthOf(pass.at)), Cost) <= pass.sum
                          /\ pass.sum <= SumOver(DoneSince(MonthOf(pass.at)), Cost)
Tracks == KeyTracks /\ SumWillDo /\ \A m \in Monthly : MeterTracks(m)

(* The requests that may still write into a month of a meter, and what has *)
(* been written.                                                           *)
Owing(m, k) ==
    {w \in Workers : \/ /\ work[w].pc = "planning" /\ m = "route" /\ ~ work[w].full /\ k >= MonthOf(now)
                     \/ /\ work[w].pc = "serving" /\ (m = "key" \/ k >= MonthOf(now))
                     \/ /\ work[w].pc = "writing" /\ (m = "key" \/ MonthOf(work[w].at) = k)}
Paid(m, k) == {i \in ByGateway(DOMAIN rows) : m = "key" \/ MonthOf(rows[i].at) = k}
RoomFor(m, k) ==
    SumOver(Paid(m, k), Cost) + Cardinality(Owing(m, k)) * Dearest <= Wall(m) - 1 + Cardinality(Workers) * Dearest
RoomLeft == \A m \in Meters : Limit[m] > 0 => \A k \in Nat : RoomFor(m, k)

LedgerInv == LedgerTypeOK /\ Tracks /\ RoomLeft

(* What a row to be written becomes in the ledger.                         *)
LEMMA WritesAre ==
    ASSUME NEW by \in {"gateway", "previous"}, NEW row \in Writes(by), NEW t \in Nat, now \in Nat
    PROVE  Stamped(row, t) \in Rows /\ row.cost \in Nat /\ row.by = by
           /\ Stamped(row, t).cost = row.cost /\ Stamped(row, t).by = by /\ Stamped(row, t).at = t /\ Stamped(row, t).done = now
<1>1. PICK call \in Calls : row = UsageWrite(call, by)
  BY DEF Writes
<1>2. call.price \in Nat
  BY LedgerConstants
<1> QED BY <1>1, <1>2 DEF UsageWrite, Stamped, Rows

(* No call costs more than the dearest.                                    *)
LEMMA DearestIs ==
    Dearest \in Nat /\ \A row \in Writes("gateway") : row.cost \in Nat /\ row.cost <= Dearest
<1> DEFINE C == {UsageWrite(call, "gateway").cost : call \in Calls}
<1>1. C \subseteq Nat /\ C # {}
  BY LedgerConstants DEF UsageWrite
<1>2. IsFiniteSet(C)
  <2> DEFINE image == [call \in Calls |-> UsageWrite(call, "gateway").cost]
  <2>1. image \in Surjection(Calls, C)
    BY DEF Surjection
  <2> HIDE DEF C, image
  <2> QED BY <2>1, FS_Surjection, LedgerConstants
<1>3. Dearest = Max(C)
  BY DEF Dearest
<1>4. \A row \in Writes("gateway") : row.cost \in C
  BY DEF Writes
<1> HIDE DEF C
<1> QED BY <1>1, <1>2, <1>3, <1>4, GreatestOf

(* The rows are finitely many, and their costs are amounts.                *)
LEMMA RowsAreSummable ==
    ASSUME LedgerTypeOK
    PROVE  /\ IsFiniteSet(DOMAIN rows) /\ Amounts(DOMAIN rows, Cost)
           /\ \A X \in SUBSET DOMAIN rows : IsFiniteSet(X) /\ Integral(X, Cost) /\ Amounts(X, Cost) /\ SumOver(X, Cost) \in Nat
           /\ \A X \in SUBSET DOMAIN rows : \A Y \in SUBSET X : SumOver(Y, Cost) <= SumOver(X, Cost)
<1>1. DOMAIN rows = 1 .. Len(rows) /\ Len(rows) \in Nat
  BY DEF LedgerTypeOK
<1>2. IsFiniteSet(DOMAIN rows)
  BY <1>1, FS_Interval
<1>3. \A i \in DOMAIN rows : Cost[i] \in Nat
  <2>1. \A i \in DOMAIN rows : rows[i] \in Rows
    BY <1>1 DEF LedgerTypeOK
  <2> QED BY <2>1 DEF Rows, Cost
<1>4. ASSUME NEW X \in SUBSET DOMAIN rows PROVE IsFiniteSet(X) /\ Amounts(X, Cost) /\ Integral(X, Cost)
  BY <1>2, <1>3, FS_Subset DEF Amounts, Integral
<1>5. ASSUME NEW X \in SUBSET DOMAIN rows, NEW Y \in SUBSET X PROVE SumOver(Y, Cost) \in Nat /\ SumOver(Y, Cost) <= SumOver(X, Cost)
  BY <1>4, SumGrows
<1> QED BY <1>2, <1>4, <1>5

(* An append adds one index and its cost, and moves no other row.          *)
LEMMA RowAppended ==
    ASSUME LedgerTypeOK, NEW r \in Rows, rows' = Append(rows, r)
    PROVE  \E n \in Nat : /\ DOMAIN rows' = DOMAIN rows \cup {n} /\ n \notin DOMAIN rows /\ rows'[n] = r
                          /\ \A i \in DOMAIN rows : rows'[i] = rows[i]
                          /\ rows' \in Seq(Rows)
                          /\ \A X \in SUBSET DOMAIN rows : /\ SumOver(X, Cost') = SumOver(X, Cost)
                                                           /\ SumOver(X \cup {n}, Cost') = SumOver(X, Cost) + r.cost
<1>1. PICK n \in Nat : n = Len(rows) + 1
  BY DEF LedgerTypeOK
<1>2. /\ DOMAIN rows' = DOMAIN rows \cup {n} /\ n \notin DOMAIN rows /\ rows'[n] = r
      /\ \A i \in DOMAIN rows : rows'[i] = rows[i]
      /\ rows' \in Seq(Rows)
  BY <1>1 DEF LedgerTypeOK
<1>3. ASSUME NEW X \in SUBSET DOMAIN rows
      PROVE  SumOver(X, Cost') = SumOver(X, Cost) /\ SumOver(X \cup {n}, Cost') = SumOver(X, Cost) + r.cost
  <2>1. \A i \in X : Cost[i] = Cost'[i]
    BY <1>2 DEF Cost
  <2>2. IsFiniteSet(X) /\ Integral(X, Cost)
    BY RowsAreSummable
  <2>3. SumOver(X, Cost) = SumOver(X, Cost')
    BY <2>1, <2>2, SumAlike
  <2>4. Cost'[n] = r.cost /\ r.cost \in Nat
    BY <1>2 DEF Cost, Rows
  <2>5. Integral(X \cup {n}, Cost')
    BY <2>1, <2>2, <2>4, FS_AddElement DEF Integral
  <2>6. SumOver(X \cup {n}, Cost') = SumOver((X \cup {n}) \ {n}, Cost') + Cost'[n]
    BY <2>5, SumAdds
  <2>7. (X \cup {n}) \ {n} = X
    BY <1>2
  <2> QED BY <2>3, <2>4, <2>6, <2>7
<1> QED BY <1>2, <1>3

-----------------------------------------------------------------------------
(* Types.                                                                  *)
LEMMA LedgerInitTypes == LedgerInit => LedgerTypeOK
<1> SUFFICES ASSUME LedgerInit PROVE LedgerTypeOK
  OBVIOUS
<1>1. rows \in Seq(Rows) /\ DOMAIN rows = {} /\ now \in Nat /\ NoMonth \in Int /\ NoMonth < 0
  BY DEF LedgerInit, NoMonth
<1>2. MonthOf(now) \in Nat
  BY <1>1, Months
<1>3. counter \in [Meters -> [spent : Nat, month : Nat \cup {NoMonth}]] /\ \A m \in Monthly : counter[m].month = NoMonth
  BY DEF LedgerInit, Meters, Monthly
<1> QED BY <1>1, <1>2, <1>3 DEF LedgerInit, LedgerTypeOK, WorkOK, PassOK

(* A request that moves on leaves the others where they are.               *)
LEMMA WorkTypes ==
    ASSUME LedgerTypeOK, NEW w \in Workers, NEW s, work' = [work EXCEPT ![w] = s], now' = now,
           /\ s.pc \in {"idle", "planning", "serving", "writing"}
           /\ s.pc = "writing" => s.row \in Writes("gateway") /\ s.at \in Nat /\ s.at <= now
    PROVE  DOMAIN work' = Workers /\ \A x \in Workers : WorkOK(x)'
  BY DEF LedgerTypeOK, WorkOK, Writes, UsageWrite

(* A written row has a clock no later than its commit.                     *)
LEMMA RecordTypes ==
    ASSUME LedgerTypeOK, NEW by \in {"gateway", "previous"}, NEW row \in Writes(by), NEW t \in Nat, t <= now, now' = now,
           Append1(row, t)
    PROVE  rows' \in Seq(Rows) /\ \A i \in DOMAIN rows' : rows'[i].at <= rows'[i].done /\ rows'[i].done <= now'
<1>0. now \in Nat
  BY DEF LedgerTypeOK
<1>1. PICK r \in Rows : r = Stamped(row, t) /\ r.at = t /\ r.done = now /\ rows' = Append(rows, r)
  BY <1>0, WritesAre DEF Append1
<1>2. PICK n \in Nat : /\ DOMAIN rows' = DOMAIN rows \cup {n} /\ rows'[n] = r
                       /\ \A i \in DOMAIN rows : rows'[i] = rows[i]
                       /\ rows' \in Seq(Rows)
  BY <1>1, RowAppended
<1>3. ASSUME NEW i \in DOMAIN rows' PROVE rows'[i].at <= rows'[i].done /\ rows'[i].done <= now'
  <2>1. CASE i \in DOMAIN rows
    BY <1>2, <2>1 DEF LedgerTypeOK
  <2>2. CASE i = n
    BY <1>0, <1>1, <1>2, <2>2
  <2> QED BY <1>2, <2>1, <2>2
<1> QED BY <1>2, <1>3

(* A debit leaves a month no later than now.                               *)
LEMMA DebitedTypes ==
    ASSUME now \in Nat, NEW c \in [spent : Nat, month : Nat \cup {NoMonth}], c.month <= MonthOf(now),
           NEW t \in Nat, t <= now, NEW cost \in Nat
    PROVE  Debited(c, t, cost) \in [spent : Nat, month : Nat \cup {NoMonth}] /\ Debited(c, t, cost).month <= MonthOf(now)
           /\ MonthOf(t) <= Debited(c, t, cost).month
<1>1. MonthOf(t) \in Nat /\ MonthOf(now) \in Nat /\ MonthOf(t) <= MonthOf(now)
  BY Months
<1> QED BY <1>1 DEF Debited, NoMonth

(* Every step keeps the types.                                             *)
LEMMA LedgerTypes ==
    ASSUME LedgerTypeOK, [LedgerNext]_ledgerVars
    PROVE  LedgerTypeOK'
<1>0. now \in Nat /\ MonthOf(now) \in Nat
  BY Months DEF LedgerTypeOK
<1>1. CASE Tick
  <2>1. now' \in Nat /\ now <= now' /\ MonthOf(now') \in Nat /\ MonthOf(now) <= MonthOf(now')
    <3>1. now' \in Nat /\ now <= now'
      BY <1>0, <1>1 DEF Tick
    <3> QED BY <1>0, <3>1, Months
  <2>2. UNCHANGED <<rows, counter, work, pass>>
    BY <1>1 DEF Tick
  <2>3. \A i \in DOMAIN rows : rows[i].done \in Nat /\ rows[i].at \in Nat
    <3>1. \A i \in DOMAIN rows : rows[i] \in Rows
      BY DEF LedgerTypeOK
    <3> QED BY <3>1 DEF Rows
  <2>4. \A i \in DOMAIN rows' : rows'[i].at <= rows'[i].done /\ rows'[i].done <= now'
    BY <1>0, <2>1, <2>2, <2>3 DEF LedgerTypeOK
  <2>5. \A m \in Monthly : counter'[m].month <= MonthOf(now')
    <3> SUFFICES ASSUME NEW m \in Monthly PROVE counter[m].month <= MonthOf(now')
      BY <2>2
    <3>1. counter[m].month \in Int /\ counter[m].month <= MonthOf(now)
      BY DEF LedgerTypeOK, Monthly, Meters, NoMonth
    <3> QED BY <1>0, <2>1, <3>1
  <2>6. \A w \in Workers : WorkOK(w)'
    BY <1>0, <2>1, <2>2 DEF LedgerTypeOK, WorkOK, Writes, UsageWrite
  <2>7. PassOK'
    BY <1>0, <2>1, <2>2 DEF LedgerTypeOK, PassOK, Monthly
  <2>8. rows' \in Seq(Rows) /\ counter' \in [Meters -> [spent : Nat, month : Nat \cup {NoMonth}]] /\ DOMAIN work' = Workers
    BY <2>2 DEF LedgerTypeOK
  <2>9. MonthOf(now)' = MonthOf(now')
    BY DEF MonthOf
  <2> QED BY <2>1, <2>4, <2>5, <2>6, <2>7, <2>8, <2>9 DEF LedgerTypeOK
<1>2. ASSUME NEW w \in Workers, ReadRoute(w) \/ Decide(w) \/ Begin(w) \/ RecordFails(w) PROVE LedgerTypeOK'
  <2>1. UNCHANGED <<now, rows, counter, pass>>
    BY <1>2 DEF ReadRoute, Decide, Begin, RecordFails
  <2>2. PICK s : /\ work' = [work EXCEPT ![w] = s]
                 /\ s.pc \in {"idle", "planning", "serving", "writing"}
                 /\ s.pc = "writing" => s.row \in Writes("gateway") /\ s.at \in Nat /\ s.at <= now
    <3>1. CASE Begin(w)
      <4>1. PICK call \in Calls : work' = [work EXCEPT ![w] = [pc |-> "writing", at |-> now, row |-> UsageWrite(call, "gateway")]]
        BY <3>1 DEF Begin
      <4>2. UsageWrite(call, "gateway") \in Writes("gateway") /\ now <= now
        BY <1>0 DEF Writes
      <4>3. PICK s : s = [pc |-> "writing", at |-> now, row |-> UsageWrite(call, "gateway")]
        OBVIOUS
      <4>4. s.pc = "writing" /\ s.at = now /\ s.row = UsageWrite(call, "gateway") /\ work' = [work EXCEPT ![w] = s]
        BY <4>1, <4>3
      <4> QED BY <1>0, <4>2, <4>4
    <3>2. CASE ReadRoute(w) \/ Decide(w) \/ RecordFails(w)
      <4>1. PICK s : work' = [work EXCEPT ![w] = s] /\ s.pc \in {"idle", "planning", "serving"}
        <5>1. CASE ReadRoute(w)
          <6>1. PICK s : s = [pc |-> "planning", full |-> Pressure("route", Spend("route")) = "exhausted"]
            OBVIOUS
          <6>2. work' = [work EXCEPT ![w] = s] /\ s.pc = "planning"
            BY <5>1, <6>1 DEF ReadRoute
          <6> QED BY <6>2
        <5>2. CASE Decide(w)
          <6>1. PICK pc \in {"idle", "serving"} : work' = [work EXCEPT ![w] = [pc |-> pc]]
            BY <5>2 DEF Decide
          <6>2. PICK s : s = [pc |-> pc]
            OBVIOUS
          <6>3. work' = [work EXCEPT ![w] = s] /\ s.pc = pc
            BY <6>1, <6>2
          <6> QED BY <6>3
        <5>3. CASE RecordFails(w)
          <6>1. PICK s : s = [pc |-> "idle"]
            OBVIOUS
          <6>2. work' = [work EXCEPT ![w] = s] /\ s.pc = "idle"
            BY <5>3, <6>1 DEF RecordFails
          <6> QED BY <6>2
        <5> QED BY <3>2, <5>1, <5>2, <5>3
      <4> QED BY <4>1
    <3> QED BY <1>2, <3>1, <3>2
  <2>3. DOMAIN work' = Workers /\ \A x \in Workers : WorkOK(x)'
    BY <2>1, <2>2, WorkTypes
  <2>4. MonthOf(now)' = MonthOf(now) /\ PassOK'
    BY <2>1 DEF MonthOf, PassOK, LedgerTypeOK, Monthly
  <2> QED BY <2>1, <2>3, <2>4 DEF LedgerTypeOK, Rows
<1>3. ASSUME NEW w \in Workers, RecordUsage(w) PROVE LedgerTypeOK'
  <2>1. UNCHANGED <<now, pass>> /\ work[w].pc = "writing" /\ Append1(work[w].row, work[w].at)
    BY <1>3 DEF RecordUsage
  <2>2. PICK row \in Writes("gateway") : row = work[w].row
    BY <2>1 DEF LedgerTypeOK, WorkOK
  <2>3. PICK t \in Nat : t = work[w].at /\ t <= now
    BY <2>1 DEF LedgerTypeOK, WorkOK
  <2>4. rows' \in Seq(Rows) /\ \A i \in DOMAIN rows' : rows'[i].at <= rows'[i].done /\ rows'[i].done <= now'
    BY <2>1, <2>2, <2>3, RecordTypes
  <2>5. row.cost \in Nat
    BY DearestIs
  <2>6. ASSUME NEW m \in Meters
        PROVE  /\ counter'[m] \in [spent : Nat, month : Nat \cup {NoMonth}]
               /\ m \in Monthly => counter'[m].month <= MonthOf(now)
    <3>1. counter[m] \in [spent : Nat, month : Nat \cup {NoMonth}] /\ (m \in Monthly => counter[m].month <= MonthOf(now))
      BY DEF LedgerTypeOK
    <3>2. CASE m = "key"
      <4>1. counter'[m] = [counter[m] EXCEPT !.spent = @ + row.cost]
        BY <1>3, <2>2, <3>2 DEF RecordUsage
      <4> QED BY <2>5, <3>1, <3>2, <4>1 DEF Monthly
    <3>3. CASE m # "key"
      <4>1. counter'[m] = Debited(counter[m], t, row.cost) /\ m \in Monthly
        BY <1>3, <2>2, <2>3, <3>3 DEF RecordUsage, Meters, Monthly
      <4>2. PICK c \in [spent : Nat, month : Nat \cup {NoMonth}] : c = counter[m] /\ c.month <= MonthOf(now)
        BY <3>1, <4>1
      <4>3. Debited(c, t, row.cost) \in [spent : Nat, month : Nat \cup {NoMonth}] /\ Debited(c, t, row.cost).month <= MonthOf(now)
        BY <1>0, <2>3, <2>5, <4>2, DebitedTypes
      <4> QED BY <4>1, <4>2, <4>3
    <3> QED BY <3>2, <3>3
  <2>7. counter' \in [Meters -> [spent : Nat, month : Nat \cup {NoMonth}]]
    <3>1. DOMAIN counter' = Meters /\ counter' = [m \in Meters |-> counter'[m]]
      BY <1>3 DEF RecordUsage
    <3> QED BY <2>6, <3>1
  <2>8. DOMAIN work' = Workers /\ \A x \in Workers : WorkOK(x)'
    <3>1. work' = [work EXCEPT ![w] = [pc |-> "idle"]]
      BY <1>3 DEF RecordUsage
    <3> QED BY <2>1, <3>1, WorkTypes
  <2>9. MonthOf(now)' = MonthOf(now) /\ PassOK' /\ Monthly \subseteq Meters
    BY <2>1 DEF MonthOf, PassOK, LedgerTypeOK, Monthly, Meters
  <2> QED BY <1>0, <2>1, <2>4, <2>6, <2>7, <2>8, <2>9 DEF LedgerTypeOK
<1>4. CASE PreviousRelease
  <2>1. PICK call \in Calls : /\ Append1(UsageWrite(call, "previous"), now) /\ UNCHANGED <<now, work, pass>>
                              /\ counter' = [counter EXCEPT !["key"].spent = @ + UsageWrite(call, "previous").cost]
    BY <1>4 DEF PreviousRelease
  <2>2. PICK row \in Writes("previous") : row = UsageWrite(call, "previous") /\ row.cost \in Nat
    BY <1>0, WritesAre DEF Writes
  <2>3. rows' \in Seq(Rows) /\ \A i \in DOMAIN rows' : rows'[i].at <= rows'[i].done /\ rows'[i].done <= now'
    BY <1>0, <2>1, <2>2, RecordTypes
  <2>4. counter' \in [Meters -> [spent : Nat, month : Nat \cup {NoMonth}]] /\ \A m \in Monthly : counter'[m] = counter[m]
    BY <2>1, <2>2 DEF LedgerTypeOK, Meters, Monthly
  <2>5. MonthOf(now)' = MonthOf(now) /\ PassOK' /\ \A x \in Workers : WorkOK(x)'
    BY <2>1 DEF MonthOf, PassOK, LedgerTypeOK, Monthly, WorkOK, Writes, UsageWrite
  <2> QED BY <2>1, <2>3, <2>4, <2>5 DEF LedgerTypeOK
<1>5. CASE Reconcile \/ ReconcileFails
  <2>1. UNCHANGED <<now, rows, work>>
    BY <1>5 DEF Reconcile, ReconcileStarts, ReconcileBegins, ReconcileLocks, ReconcileSums, ReconcileRewrites, ReconcileFails
  <2>2. MonthOf(now)' = MonthOf(now) /\ \A x \in Workers : WorkOK(x)'
    BY <2>1 DEF MonthOf, LedgerTypeOK, WorkOK, Writes, UsageWrite
  <2>3. CASE ReconcileStarts \/ ReconcileBegins \/ ReconcileLocks \/ ReconcileFails
    <3>1. counter' = counter
      BY <2>3 DEF ReconcileStarts, ReconcileBegins, ReconcileLocks, ReconcileFails
    <3>2. PassOK'
      <4>1. CASE ReconcileStarts
        <5>1. Budgeted \in Seq(Monthly)
          <6> DEFINE listed(m) == IF Limit[m] # NoLimit THEN <<m>> ELSE <<>>
          <6>1. listed("principal") \in Seq(Monthly) /\ listed("route") \in Seq(Monthly)
            <7>1. ASSUME NEW m \in Monthly PROVE <<m>> \in Seq(Monthly) /\ <<>> \in Seq(Monthly)
              OBVIOUS
            <7>2. "principal" \in Monthly /\ "route" \in Monthly
              BY DEF Monthly
            <7> QED BY <7>1, <7>2
          <6>2. Budgeted = listed("principal") \o listed("route")
            BY DEF Budgeted
          <6> HIDE DEF listed
          <6> QED BY <6>1, <6>2
        <5> QED BY <4>1, <5>1 DEF ReconcileStarts, PassOK
      <4>2. CASE ReconcileBegins
        <5>1. pass.left \in Seq(Monthly) /\ pass.left # <<>>
          BY <4>2 DEF ReconcileBegins, LedgerTypeOK, PassOK
        <5>2. Head(pass.left) \in Monthly /\ Tail(pass.left) \in Seq(Monthly)
          BY <5>1
        <5> QED BY <1>0, <4>2, <5>2 DEF ReconcileBegins, PassOK
      <4>3. CASE ReconcileLocks
        BY <2>1, <4>3 DEF ReconcileLocks, LedgerTypeOK, PassOK, Monthly
      <4>4. CASE ReconcileFails
        BY <4>4 DEF ReconcileFails, PassOK
      <4> QED BY <2>3, <4>1, <4>2, <4>3, <4>4
    <3> QED BY <2>1, <2>2, <3>1, <3>2 DEF LedgerTypeOK, Rows
  <2>4. CASE ReconcileSums
    <3>1. counter' = counter
      BY <2>4 DEF ReconcileSums
    <3>2. MonthSum(pass.at) \in Nat
      BY RowsAreSummable DEF MonthSum, Since
    <3>3. PassOK'
      BY <2>1, <2>4, <3>2 DEF ReconcileSums, LedgerTypeOK, PassOK, Monthly
    <3> QED BY <2>1, <2>2, <3>1, <3>3 DEF LedgerTypeOK, Rows
  <2>5. CASE ReconcileRewrites
    <3>1. pass.at \in Nat /\ pass.at <= now /\ pass.row \in Monthly /\ pass.sum \in Nat /\ pass.left \in Seq(Monthly)
      BY <2>5 DEF ReconcileRewrites, LedgerTypeOK, PassOK
    <3>2. MonthOf(pass.at) \in Nat /\ MonthOf(pass.at) <= MonthOf(now)
      BY <1>0, <3>1, Months
    <3>3. counter' \in [Meters -> [spent : Nat, month : Nat \cup {NoMonth}]] /\ \A m \in Monthly : counter'[m].month <= MonthOf(now)
      BY <2>5, <3>1, <3>2 DEF ReconcileRewrites, LedgerTypeOK, Monthly, Meters
    <3>4. PassOK'
      BY <2>5, <3>1 DEF ReconcileRewrites, PassOK
    <3> QED BY <2>1, <2>2, <3>3, <3>4 DEF LedgerTypeOK, Rows
  <2> QED BY <1>5, <2>3, <2>4, <2>5 DEF Reconcile
<1>6. CASE UNCHANGED ledgerVars
  BY <1>6 DEF ledgerVars, LedgerTypeOK, WorkOK, PassOK, Writes, UsageWrite, Monthly, MonthOf, Rows
<1> QED BY <1>1, <1>2, <1>3, <1>4, <1>5, <1>6 DEF LedgerNext

-----------------------------------------------------------------------------
(* The counters.                                                           *)
LEMMA SumsAppended ==
    ASSUME LedgerTypeOK, NEW r \in Rows, rows' = Append(rows, r)
    PROVE  /\ SumOver((DOMAIN rows)', Cost') = SumOver(DOMAIN rows, Cost) + r.cost
           /\ \A k \in Int :
                 /\ SumOver(GatewaySince(k)', Cost')
                       = IF r.by = "gateway" /\ MonthOf(r.at) >= k THEN SumOver(GatewaySince(k), Cost) + r.cost ELSE SumOver(GatewaySince(k), Cost)
                 /\ SumOver(DoneSince(k)', Cost')
                       = IF MonthOf(r.done) >= k THEN SumOver(DoneSince(k), Cost) + r.cost ELSE SumOver(DoneSince(k), Cost)
<1>1. PICK n \in Nat : /\ DOMAIN rows' = DOMAIN rows \cup {n} /\ n \notin DOMAIN rows /\ rows'[n] = r
                       /\ \A i \in DOMAIN rows : rows'[i] = rows[i]
                       /\ \A X \in SUBSET DOMAIN rows : /\ SumOver(X, Cost') = SumOver(X, Cost)
                                                        /\ SumOver(X \cup {n}, Cost') = SumOver(X, Cost) + r.cost
  BY RowAppended
<1>2. SumOver((DOMAIN rows)', Cost') = SumOver(DOMAIN rows, Cost) + r.cost
  BY <1>1
<1>3. ASSUME NEW k \in Int
      PROVE  /\ SumOver(GatewaySince(k)', Cost')
                   = IF r.by = "gateway" /\ MonthOf(r.at) >= k THEN SumOver(GatewaySince(k), Cost) + r.cost ELSE SumOver(GatewaySince(k), Cost)
             /\ SumOver(DoneSince(k)', Cost')
                   = IF MonthOf(r.done) >= k THEN SumOver(DoneSince(k), Cost) + r.cost ELSE SumOver(DoneSince(k), Cost)
  <2>1. GatewaySince(k) \in SUBSET DOMAIN rows /\ DoneSince(k) \in SUBSET DOMAIN rows
    BY DEF GatewaySince, DoneSince, ByGateway
  <2>2. GatewaySince(k)' = IF r.by = "gateway" /\ MonthOf(r.at) >= k THEN GatewaySince(k) \cup {n} ELSE GatewaySince(k)
    BY <1>1 DEF GatewaySince, ByGateway, MonthOf
  <2>3. DoneSince(k)' = IF MonthOf(r.done) >= k THEN DoneSince(k) \cup {n} ELSE DoneSince(k)
    BY <1>1 DEF DoneSince, MonthOf
  <2> QED BY <1>1, <2>1, <2>2, <2>3
<1> QED BY <1>2, <1>3

(* What has been paid into a month grows by a row of this release in it.   *)
LEMMA PaidAppended ==
    ASSUME LedgerTypeOK, NEW r \in Rows, rows' = Append(rows, r), NEW m \in Meters, NEW k \in Nat
    PROVE  SumOver(Paid(m, k)', Cost')
              = IF r.by = "gateway" /\ (m = "key" \/ MonthOf(r.at) = k) THEN SumOver(Paid(m, k), Cost) + r.cost ELSE SumOver(Paid(m, k), Cost)
<1>1. PICK n \in Nat : /\ DOMAIN rows' = DOMAIN rows \cup {n} /\ n \notin DOMAIN rows /\ rows'[n] = r
                       /\ \A i \in DOMAIN rows : rows'[i] = rows[i]
                       /\ \A X \in SUBSET DOMAIN rows : /\ SumOver(X, Cost') = SumOver(X, Cost)
                                                        /\ SumOver(X \cup {n}, Cost') = SumOver(X, Cost) + r.cost
  BY RowAppended
<1>2. Paid(m, k) \in SUBSET DOMAIN rows
  BY DEF Paid, ByGateway
<1>3. Paid(m, k)' = IF r.by = "gateway" /\ (m = "key" \/ MonthOf(r.at) = k) THEN Paid(m, k) \cup {n} ELSE Paid(m, k)
  BY <1>1 DEF Paid, ByGateway, MonthOf
<1> QED BY <1>1, <1>2, <1>3

(* The sums the invariant speaks of are amounts.                           *)
LEMMA SumsAreAmounts ==
    ASSUME LedgerTypeOK, NEW k \in Int
    PROVE  /\ SumOver(DOMAIN rows, Cost) \in Nat /\ SumOver(GatewaySince(k), Cost) \in Nat /\ SumOver(DoneSince(k), Cost) \in Nat
           /\ \A m \in Meters : SumOver(Paid(m, k), Cost) \in Nat
<1>1. /\ GatewaySince(k) \in SUBSET DOMAIN rows /\ DoneSince(k) \in SUBSET DOMAIN rows
      /\ \A m \in Meters : Paid(m, k) \in SUBSET DOMAIN rows
  BY DEF GatewaySince, DoneSince, Paid, ByGateway
<1> QED BY <1>1, RowsAreSummable

(* The months a row was begun and committed in.                            *)
LEMMA RowsMonths ==
    ASSUME LedgerTypeOK, NEW i \in DOMAIN rows
    PROVE  /\ rows[i].at \in Nat /\ rows[i].done \in Nat /\ rows[i].at <= now
           /\ MonthOf(rows[i].at) \in Nat /\ MonthOf(rows[i].done) \in Nat
           /\ MonthOf(rows[i].at) <= MonthOf(rows[i].done) /\ MonthOf(rows[i].at) <= MonthOf(now)
<1>1. rows[i] \in Rows /\ rows[i].at <= rows[i].done /\ rows[i].done <= now /\ now \in Nat
  BY DEF LedgerTypeOK
<1>2. rows[i].at \in Nat /\ rows[i].done \in Nat /\ rows[i].at <= now
  BY <1>1 DEF Rows
<1> QED BY <1>1, <1>2, Months

(* A row written with its debits keeps the counters on the ledger; one of  *)
(* the previous release moves the key's alone.                             *)
LEMMA TracksAppended ==
    ASSUME LedgerTypeOK, Tracks, NEW r \in Rows, rows' = Append(rows, r), r.done = now, r.at <= now, pass' = pass,
           counter' \in [Meters -> [spent : Nat, month : Nat \cup {NoMonth}]],
           counter'["key"].spent = counter["key"].spent + r.cost,
           \/ r.by = "previous" /\ \A m \in Monthly : counter'[m] = counter[m]
           \/ r.by = "gateway" /\ pass.pc # "summed" /\ \A m \in Monthly : counter'[m] = Debited(counter[m], r.at, r.cost)
    PROVE  Tracks'
<1>0. r.at \in Nat /\ r.cost \in Nat /\ now \in Nat /\ MonthOf(now) \in Nat /\ MonthOf(r.at) \in Nat
      /\ MonthOf(r.done) = MonthOf(now) /\ MonthOf(r.at) <= MonthOf(now)
  <2>1. r.at \in Nat /\ r.cost \in Nat /\ now \in Nat
    BY DEF Rows, LedgerTypeOK
  <2> QED BY <2>1, Months
<1>1. KeyTracks'
  BY SumsAppended DEF Tracks, KeyTracks
<1>2. ASSUME NEW m \in Monthly PROVE MeterTracks(m)'
  <2>1. PICK M \in Int : M = counter[m].month /\ M <= MonthOf(now)
    BY DEF LedgerTypeOK, Monthly, Meters, NoMonth
  <2>2. PICK N \in Int : N = counter'[m].month
    BY DEF Monthly, Meters, NoMonth
  <2>3. counter[m].spent \in Nat /\ counter'[m].spent \in Nat
    BY DEF LedgerTypeOK, Monthly, Meters
  <2>4. /\ \A i \in ByGateway(DOMAIN rows) : MonthOf(rows[i].at) <= M
        /\ SumOver(GatewaySince(M), Cost) <= counter[m].spent /\ counter[m].spent <= SumOver(DoneSince(M), Cost)
    BY <2>1 DEF Tracks, MeterTracks
  <2>5. PICK n \in Nat : /\ DOMAIN rows' = DOMAIN rows \cup {n} /\ rows'[n] = r /\ \A i \in DOMAIN rows : rows'[i] = rows[i]
    BY RowAppended
  <2>6. ByGateway(DOMAIN rows)' = ByGateway(DOMAIN rows) \cup (IF r.by = "gateway" THEN {n} ELSE {})
        /\ \A i \in ByGateway(DOMAIN rows) : rows'[i] = rows[i]
    BY <2>5 DEF ByGateway
  <2>7. /\ SumOver(GatewaySince(M), Cost) \in Nat /\ SumOver(DoneSince(M), Cost) \in Nat
        /\ SumOver(GatewaySince(N), Cost) \in Nat /\ SumOver(DoneSince(N), Cost) \in Nat
    BY SumsAreAmounts
  <2>8. /\ SumOver(GatewaySince(N)', Cost')
              = IF r.by = "gateway" /\ MonthOf(r.at) >= N THEN SumOver(GatewaySince(N), Cost) + r.cost ELSE SumOver(GatewaySince(N), Cost)
        /\ SumOver(DoneSince(N)', Cost') = IF MonthOf(now) >= N THEN SumOver(DoneSince(N), Cost) + r.cost ELSE SumOver(DoneSince(N), Cost)
    BY <1>0, SumsAppended
  <2>9. \A i \in ByGateway(DOMAIN rows) : MonthOf(rows[i].at) \in Nat
    BY RowsMonths DEF ByGateway
  <2>10. CASE r.by = "previous" \/ M >= MonthOf(r.at)
    <3>1. N = M /\ counter'[m].spent = IF r.by = "previous" THEN counter[m].spent ELSE counter[m].spent + r.cost
      <4>1. CASE r.by = "previous"
        BY <2>1, <2>2, <4>1
      <4>2. CASE r.by = "gateway"
        <5>1. counter'[m] = Debited(counter[m], r.at, r.cost) /\ counter[m].month >= MonthOf(r.at)
          BY <2>1, <2>10, <4>2
        <5>2. counter'[m].month = counter[m].month /\ counter'[m].spent = counter[m].spent + r.cost
          BY <5>1 DEF Debited
        <5> QED BY <2>1, <2>2, <4>2, <5>2
      <4> QED BY <4>1, <4>2
    <3>2. \A i \in ByGateway(DOMAIN rows)' : MonthOf(rows'[i].at) <= N
      BY <1>0, <2>4, <2>5, <2>6, <2>10, <3>1
    <3>3. SumOver(GatewaySince(N)', Cost') <= counter'[m].spent /\ counter'[m].spent <= SumOver(DoneSince(N)', Cost')
      BY <1>0, <2>1, <2>3, <2>4, <2>7, <2>8, <3>1
    <3> QED BY <2>2, <3>2, <3>3 DEF MeterTracks, ByGateway, MonthOf, GatewaySince, DoneSince
  <2>11. CASE r.by = "gateway" /\ ~ (M >= MonthOf(r.at))
    <3>1. N = MonthOf(r.at) /\ counter'[m].spent = r.cost
      <4>1. counter'[m] = Debited(counter[m], r.at, r.cost) /\ ~ (counter[m].month >= MonthOf(r.at))
        BY <2>1, <2>11
      <4>2. counter'[m].month = MonthOf(r.at) /\ counter'[m].spent = r.cost
        BY <4>1 DEF Debited
      <4> QED BY <2>2, <4>2
    <3>2. GatewaySince(N) = {}
      BY <1>0, <2>1, <2>4, <2>9, <2>11, <3>1 DEF GatewaySince
    <3>3. \A i \in ByGateway(DOMAIN rows)' : MonthOf(rows'[i].at) <= N
      <4> SUFFICES ASSUME NEW i \in ByGateway(DOMAIN rows)' PROVE MonthOf(rows'[i].at) <= N
        OBVIOUS
      <4>1. CASE i \in ByGateway(DOMAIN rows)
        <5>1. MonthOf(rows[i].at) <= M /\ rows'[i] = rows[i] /\ MonthOf(rows[i].at) \in Nat
          BY <2>4, <2>6, <2>9, <4>1
        <5>2. M < N
          BY <1>0, <2>1, <2>11, <3>1
        <5> QED BY <2>1, <2>2, <5>1, <5>2
      <4>2. CASE i = n
        BY <1>0, <2>5, <3>1, <4>2
      <4> QED BY <2>6, <4>1, <4>2
    <3>4. SumOver(GatewaySince(N), Cost) = 0
      BY <3>2, SumOfNone
    <3>5. SumOver(GatewaySince(N)', Cost') <= counter'[m].spent /\ counter'[m].spent <= SumOver(DoneSince(N)', Cost')
      BY <1>0, <2>3, <2>7, <2>8, <2>11, <3>1, <3>4
    <3> QED BY <2>2, <3>3, <3>5 DEF MeterTracks, ByGateway, MonthOf, GatewaySince, DoneSince
  <2> QED BY <2>10, <2>11
<1>3. SumWillDo'
  <2> SUFFICES ASSUME pass.pc = "summed" PROVE SumWillDo'
    BY DEF SumWillDo
  <2>0. pass.at \in Nat
    BY DEF LedgerTypeOK, PassOK
  <2>1. PICK k \in Int : k = MonthOf(pass.at)
    BY <2>0, Months
  <2>2. pass.sum \in Nat /\ r.by # "gateway"
    BY DEF LedgerTypeOK, PassOK
  <2>3. SumOver(GatewaySince(k), Cost) <= pass.sum /\ pass.sum <= SumOver(DoneSince(k), Cost)
    BY <2>1 DEF Tracks, SumWillDo
  <2>4. SumOver(GatewaySince(k), Cost) \in Nat /\ SumOver(DoneSince(k), Cost) \in Nat
    BY SumsAreAmounts
  <2>5. SumOver(GatewaySince(k)', Cost') = SumOver(GatewaySince(k), Cost)
        /\ SumOver(DoneSince(k)', Cost') = IF MonthOf(now) >= k THEN SumOver(DoneSince(k), Cost) + r.cost ELSE SumOver(DoneSince(k), Cost)
    BY <1>0, <2>2, SumsAppended
  <2>6. SumOver(GatewaySince(k)', Cost') <= pass.sum /\ pass.sum <= SumOver(DoneSince(k)', Cost')
    BY <1>0, <2>2, <2>3, <2>4, <2>5
  <2> QED BY <2>1, <2>6 DEF SumWillDo, GatewaySince, DoneSince, ByGateway, MonthOf
<1> QED BY <1>1, <1>2, <1>3 DEF Tracks

(* Every step keeps the counters on the ledger.                            *)
LEMMA LedgerTracks ==
    ASSUME LedgerTypeOK, Tracks, [LedgerNext]_ledgerVars
    PROVE  Tracks'
<1>0. now \in Nat /\ MonthOf(now) \in Nat /\ LedgerTypeOK'
  BY Months, LedgerTypes DEF LedgerTypeOK
<1>1. ASSUME UNCHANGED <<rows, counter>>, pass'.pc # "summed" \/ pass' = pass PROVE Tracks'
  <2>1. KeyTracks' /\ SumWillDo'
    BY <1>1 DEF Tracks, KeyTracks, SumWillDo, Cost, GatewaySince, DoneSince, ByGateway, MonthOf
  <2>2. ASSUME NEW m \in Monthly PROVE MeterTracks(m)'
    BY <1>1 DEF Tracks, MeterTracks, Cost, GatewaySince, DoneSince, ByGateway, MonthOf
  <2> QED BY <2>1, <2>2 DEF Tracks
<1>2. CASE Tick
  BY <1>1, <1>2 DEF Tick
<1>3. ASSUME NEW w \in Workers, ReadRoute(w) \/ Decide(w) \/ Begin(w) \/ RecordFails(w) PROVE Tracks'
  BY <1>1, <1>3 DEF ReadRoute, Decide, Begin, RecordFails
<1>4. ASSUME NEW w \in Workers, RecordUsage(w) PROVE Tracks'
  <2>1. pass' = pass /\ work[w].pc = "writing" /\ Append1(work[w].row, work[w].at) /\ pass.pc # "summed"
    BY <1>4 DEF RecordUsage, Holding
  <2>2. PICK row \in Writes("gateway") : row = work[w].row
    BY <2>1 DEF LedgerTypeOK, WorkOK
  <2>3. PICK t \in Nat : t = work[w].at /\ t <= now
    BY <2>1 DEF LedgerTypeOK, WorkOK
  <2>4. PICK r \in Rows : /\ r = Stamped(row, t) /\ r.at = t /\ r.done = now /\ r.cost = row.cost /\ r.by = "gateway"
                          /\ rows' = Append(rows, r)
    BY <1>0, <2>1, <2>2, <2>3, WritesAre DEF Append1
  <2>5. counter'["key"].spent = counter["key"].spent + r.cost
    <3>1. counter'["key"] = [counter["key"] EXCEPT !.spent = @ + row.cost] /\ counter["key"] \in [spent : Nat, month : Nat \cup {NoMonth}]
      BY <1>4, <2>2 DEF RecordUsage, Meters, LedgerTypeOK
    <3> QED BY <2>4, <3>1
  <2>6. \A m \in Monthly : counter'[m] = Debited(counter[m], r.at, r.cost)
    BY <1>4, <2>2, <2>3, <2>4 DEF RecordUsage, Meters, Monthly
  <2>7. counter' \in [Meters -> [spent : Nat, month : Nat \cup {NoMonth}]]
    BY <1>0 DEF LedgerTypeOK
  <2> QED BY <2>1, <2>3, <2>4, <2>5, <2>6, <2>7, TracksAppended
<1>5. CASE PreviousRelease
  <2>1. PICK call \in Calls : /\ Append1(UsageWrite(call, "previous"), now) /\ UNCHANGED <<now, work, pass>>
                              /\ counter' = [counter EXCEPT !["key"].spent = @ + UsageWrite(call, "previous").cost]
    BY <1>5 DEF PreviousRelease
  <2>2. PICK row \in Writes("previous") : row = UsageWrite(call, "previous")
    BY DEF Writes
  <2>3. PICK r \in Rows : /\ r = Stamped(row, now) /\ r.at = now /\ r.done = now /\ r.cost = row.cost /\ r.by = "previous"
                          /\ rows' = Append(rows, r)
    BY <1>0, <2>1, <2>2, WritesAre DEF Append1
  <2>4. counter'["key"].spent = counter["key"].spent + r.cost /\ \A m \in Monthly : counter'[m] = counter[m]
    BY <2>1, <2>2, <2>3 DEF LedgerTypeOK, Meters, Monthly
  <2>5. counter' \in [Meters -> [spent : Nat, month : Nat \cup {NoMonth}]] /\ now <= now
    BY <1>0 DEF LedgerTypeOK
  <2> QED BY <2>1, <2>3, <2>4, <2>5, TracksAppended
<1>6. CASE ReconcileStarts \/ ReconcileBegins \/ ReconcileLocks \/ ReconcileFails
  <2>1. UNCHANGED <<rows, counter>> /\ pass'.pc # "summed"
    BY <1>6 DEF ReconcileStarts, ReconcileBegins, ReconcileLocks, ReconcileFails
  <2> QED BY <1>1, <2>1
<1>7. CASE ReconcileSums
  <2>1. UNCHANGED <<rows, counter>> /\ pass'.at = pass.at /\ pass'.sum = MonthSum(pass.at) /\ pass.at \in Nat
    BY <1>7 DEF ReconcileSums, LedgerTypeOK, PassOK
  <2>2. PICK k \in Nat : k = MonthOf(pass.at)
    BY <2>1, Months
  <2>3. Since(MonthStart(pass.at)) = {i \in DOMAIN rows : MonthOf(rows[i].at) >= k}
    <3>1. \A i \in DOMAIN rows : rows[i].at >= MonthStart(pass.at) <=> MonthOf(rows[i].at) >= k
      BY <2>1, <2>2, Months, RowsMonths
    <3> QED BY <3>1 DEF Since
  <2>4. GatewaySince(k) \in SUBSET Since(MonthStart(pass.at)) /\ Since(MonthStart(pass.at)) \in SUBSET DoneSince(k)
        /\ DoneSince(k) \in SUBSET DOMAIN rows
    <3>1. GatewaySince(k) \in SUBSET Since(MonthStart(pass.at))
      BY <2>3 DEF GatewaySince, ByGateway
    <3>2. \A i \in DOMAIN rows : MonthOf(rows[i].at) >= k => MonthOf(rows[i].done) >= k
      BY RowsMonths
    <3> QED BY <2>3, <3>1, <3>2 DEF DoneSince
  <2>5. SumOver(GatewaySince(k), Cost) <= MonthSum(pass.at) /\ MonthSum(pass.at) <= SumOver(DoneSince(k), Cost)
    BY <2>4, RowsAreSummable DEF MonthSum
  <2>6. SumWillDo'
    BY <2>1, <2>2, <2>5 DEF SumWillDo, Cost, GatewaySince, DoneSince, ByGateway, MonthOf
  <2>7. KeyTracks' /\ \A m \in Monthly : MeterTracks(m)'
    BY <2>1 DEF Tracks, KeyTracks, MeterTracks, Cost, GatewaySince, DoneSince, ByGateway, MonthOf
  <2> QED BY <2>6, <2>7 DEF Tracks
<1>8. CASE ReconcileRewrites
  <2>1. pass.at \in Nat /\ pass.row \in Monthly /\ pass.sum \in Nat /\ rows' = rows
    BY <1>8 DEF ReconcileRewrites, LedgerTypeOK, PassOK
  <2>2. PICK k \in Nat : k = MonthOf(pass.at)
    BY <2>1, Months
  <2>3. CASE counter[pass.row].month > MonthOf(pass.at)
    BY <1>1, <1>8, <2>1, <2>3 DEF ReconcileRewrites
  <2>4. CASE ~ (counter[pass.row].month > MonthOf(pass.at))
    <3>1. counter' = [counter EXCEPT ![pass.row] = [spent |-> pass.sum, month |-> k]] /\ pass'.pc # "summed"
      BY <1>8, <2>2, <2>4 DEF ReconcileRewrites
    <3>2. SumOver(GatewaySince(k), Cost) <= pass.sum /\ pass.sum <= SumOver(DoneSince(k), Cost)
      BY <1>8, <2>2 DEF ReconcileRewrites, Tracks, SumWillDo
    <3>3. \A i \in ByGateway(DOMAIN rows) : MonthOf(rows[i].at) <= k
      <4> SUFFICES ASSUME NEW i \in ByGateway(DOMAIN rows) PROVE MonthOf(rows[i].at) <= k
        OBVIOUS
      <4>1. PICK M \in Int : M = counter[pass.row].month
        BY <2>1 DEF LedgerTypeOK, Monthly, Meters, NoMonth
      <4>2. MonthOf(rows[i].at) <= M /\ MonthOf(rows[i].at) \in Nat
        BY <2>1, <4>1, RowsMonths DEF Tracks, MeterTracks, ByGateway
      <4> QED BY <2>2, <2>4, <4>1, <4>2
    <3>4. ASSUME NEW m \in Monthly PROVE MeterTracks(m)'
      <4>1. CASE m = pass.row
        <5>1. counter'[m].spent = pass.sum /\ counter'[m].month = k
          BY <2>1, <3>1, <4>1 DEF LedgerTypeOK, Monthly, Meters
        <5> QED BY <2>1, <3>2, <3>3, <5>1 DEF MeterTracks, Cost, GatewaySince, DoneSince, ByGateway, MonthOf
      <4>2. CASE m # pass.row
        <5>1. counter'[m] = counter[m]
          BY <3>1, <4>2
        <5> QED BY <2>1, <5>1 DEF Tracks, MeterTracks, Cost, GatewaySince, DoneSince, ByGateway, MonthOf
      <4> QED BY <4>1, <4>2
    <3>5. KeyTracks' /\ SumWillDo'
      <4>1. counter'["key"] = counter["key"]
        BY <2>1, <3>1 DEF Monthly
      <4> QED BY <2>1, <3>1, <4>1 DEF Tracks, KeyTracks, SumWillDo, Cost
    <3> QED BY <3>4, <3>5 DEF Tracks
  <2> QED BY <2>3, <2>4
<1>9. CASE UNCHANGED ledgerVars
  BY <1>1, <1>9 DEF ledgerVars
<1> QED BY <1>2, <1>3, <1>4, <1>5, <1>6, <1>7, <1>8, <1>9 DEF LedgerNext, Reconcile

(* What the counters say of the rows.                                      *)
LEMMA TracksCounters ==
    ASSUME LedgerTypeOK, Tracks
    PROVE  CountersTrackLedger /\ \A m \in Meters : Spend(m) \in Nat
<1>0. now \in Nat /\ MonthOf(now) \in Nat
  BY Months DEF LedgerTypeOK
<1>1. \A m \in Meters : Spend(m) \in Nat
  BY DEF LedgerTypeOK, Spend
<1>2. ASSUME NEW m \in Monthly PROVE SumOver(ByGateway(Since(MonthStart(now))), Cost) <= Spend(m)
  <2>1. PICK M \in Int : M = counter[m].month /\ M <= MonthOf(now)
    BY DEF LedgerTypeOK, Monthly, Meters, NoMonth
  <2>2. /\ \A i \in ByGateway(DOMAIN rows) : MonthOf(rows[i].at) <= M
        /\ SumOver(GatewaySince(M), Cost) <= counter[m].spent
    BY <2>1 DEF Tracks, MeterTracks
  <2>3. ByGateway(Since(MonthStart(now))) = GatewaySince(MonthOf(now))
    <3>1. \A i \in DOMAIN rows : rows[i].at >= MonthStart(now) <=> MonthOf(rows[i].at) >= MonthOf(now)
      BY <1>0, Months, RowsMonths
    <3> QED BY <3>1 DEF Since, ByGateway, GatewaySince
  <2>4. CASE M = MonthOf(now)
    BY <2>1, <2>2, <2>3, <2>4 DEF Spend
  <2>5. CASE M # MonthOf(now)
    <3>1. GatewaySince(MonthOf(now)) = {}
      <4> SUFFICES ASSUME NEW i \in GatewaySince(MonthOf(now)) PROVE FALSE
        OBVIOUS
      <4>1. MonthOf(rows[i].at) >= MonthOf(now) /\ MonthOf(rows[i].at) <= M /\ MonthOf(rows[i].at) \in Nat
        BY <2>2, RowsMonths DEF GatewaySince, ByGateway
      <4> QED BY <1>0, <2>1, <2>5, <4>1
    <3>2. SumOver(GatewaySince(MonthOf(now)), Cost) = 0 /\ Spend(m) \in Nat
      BY <1>1, <3>1, SumOfNone DEF Monthly, Meters
    <3> QED BY <2>3, <3>2
  <2> QED BY <2>4, <2>5
<1> QED BY <1>1, <1>2 DEF CountersTrackLedger, Tracks, KeyTracks, MeterTracks, DoneSince

-----------------------------------------------------------------------------
(* The caps.                                                               *)
LEMMA Walls ==
    ASSUME NEW m \in Meters, Limit[m] > 0
    PROVE  /\ Wall(m) \in Nat /\ Wall(m) >= 1 /\ Limit[m] # NoLimit
           /\ \A spent \in Nat : Pressure(m, spent) # "exhausted" => spent <= Wall(m) - 1
<1>1. PICK L \in Nat : L = Limit[m] /\ L >= 1
  BY LedgerConstants DEF NoLimit
<1>2. PICK h \in Nat : h = (IF m = "principal" /\ HardStop > 1 THEN HardStop ELSE 1) /\ h >= 1
  BY LedgerConstants
<1>3. Wall(m) = L * h
  BY <1>1, <1>2 DEF Wall
<1>4. L * h \in Nat /\ L * h >= 1
  <2>1. L * h = (L - 1) * h + h /\ (L - 1) * h \in Nat
    BY <1>1, <1>2
  <2> QED BY <1>2, <2>1
<1>5. Limit[m] # NoLimit
  BY <1>1 DEF NoLimit
<1>6. ASSUME NEW spent \in Nat, ~ (spent <= Wall(m) - 1) PROVE Pressure(m, spent) = "exhausted"
  <2>1. spent >= Wall(m) /\ ~ (spent < Wall(m))
    BY <1>3, <1>4, <1>6
  <2> QED BY <1>5, <2>1 DEF Pressure
<1> QED BY <1>3, <1>4, <1>5, <1>6

(* A meter that lets a request through has room for all of them.           *)
LEMMA LetThrough ==
    ASSUME LedgerTypeOK, Tracks, NEW m \in Meters, Limit[m] > 0, Pressure(m, Spend(m)) # "exhausted",
           NEW k \in Nat, m = "key" \/ k >= MonthOf(now)
    PROVE  SumOver(Paid(m, k), Cost) <= Wall(m) - 1
<1>0. now \in Nat /\ MonthOf(now) \in Nat
  BY Months DEF LedgerTypeOK
<1>1. Spend(m) \in Nat /\ Spend(m) <= Wall(m) - 1 /\ Wall(m) \in Nat
  BY TracksCounters, Walls
<1>2. SumOver(Paid(m, k), Cost) \in Nat
  BY SumsAreAmounts
<1>3. CASE m = "key"
  <2>1. Spend(m) = SumOver(DOMAIN rows, Cost)
    BY <1>3 DEF Spend, Tracks, KeyTracks
  <2>2. Paid(m, k) \in SUBSET DOMAIN rows
    BY DEF Paid, ByGateway
  <2>3. SumOver(Paid(m, k), Cost) <= SumOver(DOMAIN rows, Cost)
    BY <2>2, RowsAreSummable
  <2> QED BY <1>1, <1>2, <2>1, <2>3
<1>4. CASE m # "key"
  <2>1. m \in Monthly
    BY <1>4 DEF Meters, Monthly
  <2>2. SumOver(ByGateway(Since(MonthStart(now))), Cost) <= Spend(m)
    BY <2>1, TracksCounters DEF CountersTrackLedger
  <2>3. Paid(m, k) \in SUBSET ByGateway(Since(MonthStart(now)))
    <3>1. \A i \in DOMAIN rows : rows[i].at >= MonthStart(now) <=> MonthOf(rows[i].at) >= MonthOf(now)
      BY <1>0, Months, RowsMonths
    <3> QED BY <1>4, <3>1 DEF Paid, ByGateway, Since
  <2>4. ByGateway(Since(MonthStart(now))) \in SUBSET DOMAIN rows
    BY DEF ByGateway, Since
  <2>5. SumOver(Paid(m, k), Cost) <= SumOver(ByGateway(Since(MonthStart(now))), Cost) /\ SumOver(ByGateway(Since(MonthStart(now))), Cost) \in Nat
    BY <2>3, <2>4, RowsAreSummable
  <2> QED BY <1>1, <1>2, <2>2, <2>5
<1> QED BY <1>3, <1>4

(* Multiplication by an amount keeps the order.                            *)
LEMMA Times ==
    ASSUME NEW a \in Nat, NEW b \in Nat, NEW d \in Nat, a <= b
    PROVE  a * d \in Nat /\ b * d \in Nat /\ a * d <= b * d
<1>1. PICK c \in Nat : b = a + c
  <2>1. b - a \in Nat /\ b = a + (b - a)
    OBVIOUS
  <2> QED BY <2>1
<1>2. b * d = a * d + c * d /\ c * d \in Nat /\ a * d \in Nat
  BY <1>1
<1> QED BY <1>2

(* What some of the requests may still cost, and what all of them may.     *)
LEMMA OwingIsCounted ==
    ASSUME NEW X, X \subseteq Workers
    PROVE  /\ IsFiniteSet(X) /\ Cardinality(X) \in Nat /\ Cardinality(Workers) \in Nat
           /\ Cardinality(X) * Dearest \in Nat /\ Cardinality(Workers) * Dearest \in Nat
           /\ Cardinality(X) * Dearest <= Cardinality(Workers) * Dearest
           /\ \A Y \in SUBSET X : Cardinality(Y) * Dearest \in Nat /\ Cardinality(Y) * Dearest <= Cardinality(X) * Dearest
<1>1. \A Z \in SUBSET Workers : IsFiniteSet(Z) /\ Cardinality(Z) \in Nat
  BY LedgerConstants, FS_Subset, FS_CardinalityType
<1>2. ASSUME NEW Z \in SUBSET Workers, NEW Y \in SUBSET Z
      PROVE  Cardinality(Y) * Dearest \in Nat /\ Cardinality(Z) * Dearest \in Nat /\ Cardinality(Y) * Dearest <= Cardinality(Z) * Dearest
  <2>1. Cardinality(Y) <= Cardinality(Z) /\ Cardinality(Y) \in Nat /\ Cardinality(Z) \in Nat
    BY <1>1, FS_Subset
  <2> QED BY <2>1, DearestIs, Times
<1> QED BY <1>1, <1>2

(* A step under which nothing is paid: those who owe were owing, or the    *)
(* meter had room.                                                         *)
LEMMA RoomUnpaid ==
    ASSUME LedgerTypeOK, RoomLeft, rows' = rows, NEW m \in Meters, Limit[m] > 0, NEW k \in Nat,
           Owing(m, k)' \subseteq Owing(m, k) \/ SumOver(Paid(m, k), Cost) <= Wall(m) - 1
    PROVE  RoomFor(m, k)'
<1> DEFINE a == Cardinality(Owing(m, k)) * Dearest
           b == Cardinality(Owing(m, k)') * Dearest
           c == Cardinality(Workers) * Dearest
           p == SumOver(Paid(m, k), Cost)
           v == Wall(m) - 1
<1>1. Owing(m, k) \subseteq Workers /\ Owing(m, k)' \subseteq Workers
  BY DEF Owing
<1>2. a \in Nat /\ b \in Nat /\ c \in Nat /\ b <= c /\ p \in Nat /\ v \in Int
  <2>1. a \in Nat /\ c \in Nat
    BY <1>1, OwingIsCounted
  <2>2. b \in Nat /\ b <= c
    BY <1>1, OwingIsCounted
  <2>3. p \in Nat /\ v \in Int
    BY SumsAreAmounts, Walls
  <2> QED BY <2>1, <2>2, <2>3
<1>3. p + a <= v + c
  BY DEF RoomLeft, RoomFor
<1>4. b <= a \/ p <= v
  <2>1. ASSUME Owing(m, k)' \subseteq Owing(m, k) PROVE b <= a
    BY <1>1, <2>1, OwingIsCounted
  <2> QED BY <2>1
<1>5. p + b <= v + c
  <2> HIDE DEF a, b, c, p, v
  <2> QED BY <1>2, <1>3, <1>4
<1>6. SumOver(Paid(m, k)', Cost') = p
  BY DEF Paid, ByGateway, Cost, MonthOf
<1>7. Cardinality(Owing(m, k))' = Cardinality(Owing(m, k)') /\ SumOver(Paid(m, k), Cost)' = SumOver(Paid(m, k)', Cost')
      /\ Dearest' = Dearest /\ Wall(m)' = Wall(m)
  BY DEF Wall, Dearest, UsageWrite
<1> QED BY <1>5, <1>6, <1>7 DEF RoomFor

(* A request that moves on changes only whether it owes itself.            *)
LEMMA OthersOwe ==
    ASSUME LedgerTypeOK, NEW w \in Workers, NEW s, work' = [work EXCEPT ![w] = s], now' = now, NEW m, NEW k
    PROVE  \A x \in Workers \ {w} : x \in Owing(m, k)' <=> x \in Owing(m, k)
<1>1. \A x \in Workers \ {w} : work'[x] = work[x]
  BY DEF LedgerTypeOK
<1> QED BY <1>1 DEF Owing, MonthOf

(* A request pays: what is paid grows by no more than what it was owing.   *)
LEMMA RoomPaid ==
    ASSUME LedgerTypeOK, RoomLeft, NEW w \in Workers, RecordUsage(w), NEW m \in Meters, Limit[m] > 0, NEW k \in Nat
    PROVE  RoomFor(m, k)'
<1>1. now' = now /\ work[w].pc = "writing" /\ Append1(work[w].row, work[w].at) /\ work' = [work EXCEPT ![w] = [pc |-> "idle"]]
  BY DEF RecordUsage
<1>2. PICK row \in Writes("gateway") : row = work[w].row
  BY <1>1 DEF LedgerTypeOK, WorkOK
<1>3. PICK t \in Nat : t = work[w].at
  BY <1>1 DEF LedgerTypeOK, WorkOK
<1>4. now \in Nat
  BY DEF LedgerTypeOK
<1>5. PICK r \in Rows : r = Stamped(row, t) /\ r.at = t /\ r.cost = row.cost /\ r.by = "gateway" /\ rows' = Append(rows, r)
  BY <1>1, <1>2, <1>3, <1>4, WritesAre DEF Append1
<1> DEFINE counts == m = "key" \/ MonthOf(t) = k
           a == Cardinality(Owing(m, k))
           b == Cardinality(Owing(m, k)')
           D == Dearest
           c == Cardinality(Workers) * Dearest
           p == SumOver(Paid(m, k), Cost)
           v == Wall(m) - 1
<1>6. Owing(m, k) \subseteq Workers /\ Owing(m, k)' \subseteq Workers
  BY DEF Owing
<1>7. w \notin Owing(m, k)'
  <2>1. PICK s : s = [pc |-> "idle"]
    OBVIOUS
  <2>2. work'[w] = s /\ s.pc = "idle"
    BY <1>1, <2>1 DEF LedgerTypeOK
  <2> QED BY <2>2 DEF Owing
<1>8. w \in Owing(m, k) <=> counts
  BY <1>1, <1>3 DEF Owing
<1>9. Owing(m, k)' = Owing(m, k) \ {w}
  BY <1>1, <1>6, <1>7, OthersOwe
<1>10. a \in Nat /\ b \in Nat /\ IsFiniteSet(Owing(m, k)) /\ c \in Nat /\ b * D \in Nat /\ a * D \in Nat
  BY <1>6, OwingIsCounted
<1>11. p \in Nat /\ v \in Int /\ r.cost \in Nat /\ r.cost <= D /\ D \in Nat
  <2>1. p \in Nat
    BY SumsAreAmounts
  <2>2. v \in Int
    BY Walls
  <2> QED BY <1>2, <1>5, <2>1, <2>2, DearestIs
<1>12. p + a * D <= v + c
  BY DEF RoomLeft, RoomFor
<1>13. SumOver(Paid(m, k)', Cost') = IF counts THEN p + r.cost ELSE p
  BY <1>5, PaidAppended
<1>14. SumOver(Paid(m, k)', Cost') + b * D <= v + c
  <2>1. CASE counts
    <3>1. b = a - 1
      BY <1>8, <1>9, <1>10, <2>1, FS_RemoveElement
    <3> HIDE DEF a, b, c, D, p, v
    <3>2. a * D = b * D + D
      BY <1>10, <1>11, <3>1
    <3> QED BY <1>10, <1>11, <1>12, <1>13, <2>1, <3>2
  <2>2. CASE ~ counts
    <3>1. Owing(m, k)' = Owing(m, k)
      BY <1>8, <1>9, <2>2
    <3>2. b = a
      BY <3>1
    <3> HIDE DEF a, b, c, D, p, v
    <3> QED BY <1>12, <1>13, <2>2, <3>2
  <2> QED BY <2>1, <2>2
<1>15. Cardinality(Owing(m, k))' = Cardinality(Owing(m, k)') /\ SumOver(Paid(m, k), Cost)' = SumOver(Paid(m, k)', Cost')
      /\ Dearest' = Dearest /\ Wall(m)' = Wall(m)
  BY DEF Wall, Dearest, UsageWrite
<1> QED BY <1>14, <1>15 DEF RoomFor

(* Every step keeps the room for what is still owed.                       *)
LEMMA LedgerRoom ==
    ASSUME LedgerTypeOK, Tracks, RoomLeft, [LedgerNext]_ledgerVars
    PROVE  RoomLeft'
<1> SUFFICES ASSUME NEW m \in Meters, Limit[m] > 0, NEW k \in Nat PROVE RoomFor(m, k)'
  BY DEF RoomLeft
<1>0. now \in Nat /\ MonthOf(now) \in Nat
  BY Months DEF LedgerTypeOK
<1>1. CASE Tick
  <2>1. now' \in Nat /\ now <= now' /\ UNCHANGED <<rows, work>>
    BY <1>0, <1>1 DEF Tick
  <2>2. MonthOf(now) <= MonthOf(now') /\ MonthOf(now') \in Nat /\ MonthOf(now)' = MonthOf(now')
    BY <1>0, <2>1, Months DEF MonthOf
  <2>3. k >= MonthOf(now)' => k >= MonthOf(now)
    BY <1>0, <2>2
  <2>4. Owing(m, k)' \subseteq Owing(m, k)
    <3>1. \A w \in Workers : MonthOf(work[w].at)' = MonthOf(work[w].at)
      BY <2>1 DEF MonthOf
    <3> QED BY <2>1, <2>3, <3>1 DEF Owing
  <2> QED BY <2>1, <2>4, RoomUnpaid
<1>2. ASSUME NEW w \in Workers, ReadRoute(w) PROVE RoomFor(m, k)'
  <2>1. UNCHANGED <<now, rows>>
    BY <1>2 DEF ReadRoute
  <2>2. PICK s : s = [pc |-> "planning", full |-> Pressure("route", Spend("route")) = "exhausted"]
    OBVIOUS
  <2>3. s.pc = "planning" /\ s.full = (Pressure("route", Spend("route")) = "exhausted") /\ work' = [work EXCEPT ![w] = s]
    BY <1>2, <2>2 DEF ReadRoute
  <2>4. work'[w] = s
    BY <2>3 DEF LedgerTypeOK
  <2>5. ASSUME w \in Owing(m, k)' PROVE SumOver(Paid(m, k), Cost) <= Wall(m) - 1
    <3>1. m = "route" /\ Pressure(m, Spend(m)) # "exhausted" /\ k >= MonthOf(now)
      BY <2>1, <2>3, <2>4, <2>5 DEF Owing, MonthOf
    <3> QED BY <3>1, LetThrough
  <2>6. w \notin Owing(m, k)' => Owing(m, k)' \subseteq Owing(m, k)
    <3>1. \A x \in Workers \ {w} : x \in Owing(m, k)' <=> x \in Owing(m, k)
      BY <2>1, <2>3, OthersOwe
    <3>2. Owing(m, k)' \subseteq Workers
      BY DEF Owing
    <3> QED BY <3>1, <3>2
  <2> QED BY <2>1, <2>5, <2>6, RoomUnpaid
<1>3. ASSUME NEW w \in Workers, Decide(w) PROVE RoomFor(m, k)'
  <2>1. UNCHANGED <<now, rows>> /\ work[w].pc = "planning"
    BY <1>3 DEF Decide
  <2>2. PICK s : s = [pc |-> IF work[w].full \/ \E x \in {"key", "principal"} : Pressure(x, Spend(x)) = "exhausted"
                             THEN "idle" ELSE "serving"]
    OBVIOUS
  <2>3. /\ work' = [work EXCEPT ![w] = s]
        /\ \/ s.pc = "idle"
           \/ s.pc = "serving" /\ ~ work[w].full /\ \A x \in {"key", "principal"} : Pressure(x, Spend(x)) # "exhausted"
    <3>1. work' = [work EXCEPT ![w] = s]
      BY <1>3, <2>2 DEF Decide
    <3>2. s.pc = IF work[w].full \/ \E x \in {"key", "principal"} : Pressure(x, Spend(x)) = "exhausted" THEN "idle" ELSE "serving"
      BY <2>2
    <3> QED BY <3>1, <3>2
  <2>4. work'[w] = s
    BY <2>3 DEF LedgerTypeOK
  <2>5. ASSUME w \in Owing(m, k)' PROVE w \in Owing(m, k) \/ SumOver(Paid(m, k), Cost) <= Wall(m) - 1
    <3>1. s.pc = "serving" /\ (m = "key" \/ k >= MonthOf(now))
      BY <2>1, <2>3, <2>4, <2>5 DEF Owing, MonthOf
    <3>2. CASE m = "route"
      BY <2>1, <2>3, <3>1, <3>2 DEF Owing
    <3>3. CASE m # "route"
      <4>1. Pressure(m, Spend(m)) # "exhausted"
        BY <2>3, <3>1, <3>3 DEF Meters
      <4> QED BY <3>1, <4>1, LetThrough
    <3> QED BY <3>2, <3>3
  <2>6. w \notin Owing(m, k)' \/ w \in Owing(m, k) => Owing(m, k)' \subseteq Owing(m, k)
    <3>1. \A x \in Workers \ {w} : x \in Owing(m, k)' <=> x \in Owing(m, k)
      BY <2>1, <2>3, OthersOwe
    <3>2. Owing(m, k)' \subseteq Workers
      BY DEF Owing
    <3> QED BY <3>1, <3>2
  <2> QED BY <2>1, <2>5, <2>6, RoomUnpaid
<1>4. ASSUME NEW w \in Workers, Begin(w) \/ RecordFails(w) PROVE RoomFor(m, k)'
  <2>1. UNCHANGED <<now, rows>>
    BY <1>4 DEF Begin, RecordFails
  <2>2. PICK s : work' = [work EXCEPT ![w] = s] /\ (s.pc = "idle" \/ (s.pc = "writing" /\ s.at = now /\ work[w].pc = "serving"))
    <3>1. CASE Begin(w)
      <4>1. PICK call \in Calls : work' = [work EXCEPT ![w] = [pc |-> "writing", at |-> now, row |-> UsageWrite(call, "gateway")]]
        BY <3>1 DEF Begin
      <4>2. PICK s : s = [pc |-> "writing", at |-> now, row |-> UsageWrite(call, "gateway")]
        OBVIOUS
      <4>3. s.pc = "writing" /\ s.at = now /\ work' = [work EXCEPT ![w] = s] /\ work[w].pc = "serving"
        BY <3>1, <4>1, <4>2 DEF Begin
      <4> QED BY <4>3
    <3>2. CASE RecordFails(w)
      <4>1. PICK s : s = [pc |-> "idle"]
        OBVIOUS
      <4>2. work' = [work EXCEPT ![w] = s] /\ s.pc = "idle"
        BY <3>2, <4>1 DEF RecordFails
      <4> QED BY <4>2
    <3> QED BY <1>4, <3>1, <3>2
  <2>3. work'[w] = s
    BY <2>2 DEF LedgerTypeOK
  <2>4. w \in Owing(m, k)' => w \in Owing(m, k)
    BY <1>0, <2>1, <2>2, <2>3 DEF Owing, MonthOf
  <2>5. Owing(m, k)' \subseteq Owing(m, k)
    <3>1. \A x \in Workers \ {w} : x \in Owing(m, k)' <=> x \in Owing(m, k)
      BY <2>1, <2>2, OthersOwe
    <3>2. Owing(m, k)' \subseteq Workers
      BY DEF Owing
    <3> QED BY <2>4, <3>1, <3>2
  <2> QED BY <2>1, <2>5, RoomUnpaid
<1>5. ASSUME NEW w \in Workers, RecordUsage(w) PROVE RoomFor(m, k)'
  BY <1>5, RoomPaid
<1>6. CASE PreviousRelease
  <2>1. PICK call \in Calls : Append1(UsageWrite(call, "previous"), now) /\ UNCHANGED <<now, work>>
    BY <1>6 DEF PreviousRelease
  <2>2. PICK row \in Writes("previous") : row = UsageWrite(call, "previous")
    BY DEF Writes
  <2>3. PICK r \in Rows : r = Stamped(row, now) /\ r.by = "previous" /\ rows' = Append(rows, r)
    BY <1>0, <2>1, <2>2, WritesAre DEF Append1
  <2>4. SumOver(Paid(m, k)', Cost') = SumOver(Paid(m, k), Cost)
    BY <2>3, PaidAppended
  <2>5. Owing(m, k)' = Owing(m, k)
    BY <2>1 DEF Owing, MonthOf
  <2>6. Cardinality(Owing(m, k))' = Cardinality(Owing(m, k)') /\ SumOver(Paid(m, k), Cost)' = SumOver(Paid(m, k)', Cost')
      /\ Dearest' = Dearest /\ Wall(m)' = Wall(m)
    BY DEF Wall, Dearest, UsageWrite
  <2> QED BY <2>4, <2>5, <2>6 DEF RoomLeft, RoomFor
<1>7. CASE Reconcile \/ ReconcileFails \/ UNCHANGED ledgerVars
  <2>1. UNCHANGED <<now, rows, work>>
    BY <1>7 DEF Reconcile, ReconcileStarts, ReconcileBegins, ReconcileLocks, ReconcileSums, ReconcileRewrites, ReconcileFails, ledgerVars
  <2>2. Owing(m, k)' \subseteq Owing(m, k)
    BY <2>1 DEF Owing, MonthOf
  <2> QED BY <2>1, <2>2, RoomUnpaid
<1> QED BY <1>1, <1>2, <1>3, <1>4, <1>5, <1>6, <1>7 DEF LedgerNext

(* Nothing written, nothing owed.                                          *)
LEMMA LedgerStarts == LedgerInit => LedgerInv
<1> SUFFICES ASSUME LedgerInit PROVE LedgerInv
  OBVIOUS
<1>1. LedgerTypeOK
  BY LedgerInitTypes
<1>2. DOMAIN rows = {} /\ pass.pc = "idle" /\ \A m \in Meters : counter[m].spent = 0
  BY DEF LedgerInit
<1>3. SumOver(DOMAIN rows, Cost) = 0 /\ \A k : GatewaySince(k) = {} /\ DoneSince(k) = {} /\ \A m : Paid(m, k) = {}
  BY <1>2, SumOfNone DEF GatewaySince, DoneSince, Paid, ByGateway
<1>4. \A k : SumOver(GatewaySince(k), Cost) = 0 /\ SumOver(DoneSince(k), Cost) = 0 /\ \A m : SumOver(Paid(m, k), Cost) = 0
  BY <1>3, SumOfNone
<1>5. Tracks
  <2>1. KeyTracks /\ SumWillDo
    BY <1>2, <1>3 DEF KeyTracks, SumWillDo, Meters
  <2>2. ASSUME NEW m \in Monthly PROVE MeterTracks(m)
    BY <1>2, <1>4 DEF MeterTracks, Monthly, Meters, ByGateway
  <2> QED BY <2>1, <2>2 DEF Tracks
<1>6. ASSUME NEW m \in Meters, Limit[m] > 0, NEW k \in Nat PROVE RoomFor(m, k)
  <2>1. Owing(m, k) \subseteq Workers
    BY DEF Owing
  <2>2. /\ Cardinality(Owing(m, k)) * Dearest \in Nat /\ Cardinality(Workers) * Dearest \in Nat
        /\ Cardinality(Owing(m, k)) * Dearest <= Cardinality(Workers) * Dearest
    BY <2>1, OwingIsCounted
  <2>3. Wall(m) \in Nat /\ Wall(m) >= 1
    BY <1>6, Walls
  <2> QED BY <1>4, <2>2, <2>3 DEF RoomFor
<1> QED BY <1>1, <1>5, <1>6 DEF LedgerInv, RoomLeft

(* With room for what is owed, what is paid is bounded.                    *)
LEMMA RoomBounds == LedgerInv => OvershootBounded
<1> SUFFICES ASSUME LedgerInv, NEW m \in Meters, Limit[m] > 0, NEW k \in 0 .. MonthOf(now)
             PROVE  SumOver(Paid(m, k), Cost) <= Wall(m) - 1 + Cardinality(Workers) * Dearest
  BY DEF OvershootBounded, Paid
<1>1. k \in Nat /\ LedgerTypeOK /\ RoomFor(m, k)
  BY DEF LedgerInv, RoomLeft
<1>2. Owing(m, k) \subseteq Workers
  BY DEF Owing
<1>3. Cardinality(Owing(m, k)) * Dearest \in Nat /\ Cardinality(Workers) * Dearest \in Nat /\ Wall(m) \in Nat
  BY <1>2, OwingIsCounted, Walls
<1>4. SumOver(Paid(m, k), Cost) \in Nat
  BY <1>1, SumsAreAmounts
<1> QED BY <1>1, <1>3, <1>4 DEF RoomFor

(* The types, the counters and the room hold in every reachable state.     *)
LEMMA LedgerInductive == LedgerSpec => []LedgerInv
<1>1. LedgerInv /\ [LedgerNext]_ledgerVars => LedgerInv'
  BY LedgerTypes, LedgerTracks, LedgerRoom DEF LedgerInv
<1> QED BY <1>1, LedgerStarts, PTL DEF LedgerSpec

(* Month after month a cap is overshot by at most one call for each        *)
(* request that may be in flight: for any requests, calls, caps and clock, *)
(* whatever order the rows of record_usage are committed in, beside a      *)
(* replica of the previous release and a reconcile pass.                   *)
THEOREM SpendIsBounded == LedgerSpec => []OvershootBounded
  BY LedgerInductive, RoomBounds, PTL

-----------------------------------------------------------------------------
(* The reports.                                                            *)
Windows == Rolling \cup {"month"}
Rounded(ref) == [i \in DOMAIN rows |-> (2 * rows[i].list + ref) \div (2 * ref)]
ModelOf == [i \in DOMAIN rows |-> rows[i].model]
One == [i \in DOMAIN rows |-> 1]

(* A row's clock and its prices are natural numbers.                       *)
LEMMA RowTypes ==
    ASSUME LedgerTypeOK, NEW i \in DOMAIN rows
    PROVE  rows[i].at \in Nat /\ rows[i].cost \in Nat /\ rows[i].list \in Nat
<1>1. rows[i] \in Rows
  BY DEF LedgerTypeOK
<1> QED BY <1>1 DEF Rows

(* Where a window begins.                                                  *)
LEMMA WindowTypes ==
    ASSUME LedgerTypeOK, NEW window \in Windows
    PROVE  /\ SinceOf(window) \in Int /\ now \in Nat
           /\ window # "month" => Length[window] \in Nat /\ SinceOf(window) = now - Length[window]
           /\ window = "month" => SinceOf(window) = MonthStart(now)
           /\ window \in Rolling <=> window # "month"
<1>1. now \in Nat /\ MonthStart(now) \in Nat
  BY Months DEF LedgerTypeOK
<1>2. window \in Rolling => Length[window] \in Nat
  BY LedgerConstants
<1>3. window \in Rolling <=> window # "month"
  BY LedgerConstants DEF Windows
<1> QED BY <1>1, <1>2, <1>3 DEF SinceOf

(* The one join the key's report makes reaches back far enough for each of *)
(* its windows.                                                            *)
LEMMA JoinReaches ==
    ASSUME LedgerTypeOK, NEW window \in Windows
    PROVE  {i \in Joined : rows[i].at >= SinceOf(window)} = Since(SinceOf(window))
<1> DEFINE lengths == {Length[w] : w \in Rolling}
<1>1. lengths \subseteq Nat /\ lengths # {}
  BY LedgerConstants
<1>2. IsFiniteSet(lengths)
  <2> DEFINE image == [w \in Rolling |-> Length[w]]
  <2>1. image \in Surjection(Rolling, lengths)
    BY DEF Surjection
  <2> HIDE DEF lengths, image
  <2> QED BY <2>1, FS_Surjection, LedgerConstants
<1>3. PICK longest \in Nat : longest = Max(lengths) /\ \A x \in lengths : x <= longest
  <2> HIDE DEF lengths
  <2> QED BY <1>1, <1>2, GreatestOf
<1>4. LongestSince = now - longest
  BY <1>3 DEF LongestSince
<1>5. PICK start \in Int : start = MonthStart(now)
  BY Months DEF LedgerTypeOK
<1>6. PICK from \in Int : from = IF start < now - longest THEN start ELSE now - longest
  BY WindowTypes
<1>7. Joined = Since(from)
  BY <1>4, <1>5, <1>6 DEF Joined
<1>8. from <= SinceOf(window)
  <2>1. CASE window = "month"
    BY <1>5, <1>6, <2>1, WindowTypes
  <2>2. CASE window # "month"
    <3>1. Length[window] \in Nat /\ Length[window] <= longest /\ SinceOf(window) = now - Length[window]
      BY <1>3, <2>2, WindowTypes
    <3> QED BY <1>5, <1>6, <3>1, WindowTypes
  <2> QED BY <2>1, <2>2
<1>9. \A i \in DOMAIN rows : rows[i].at >= SinceOf(window) => rows[i].at >= from
  BY <1>6, <1>8, RowTypes, WindowTypes
<1> QED BY <1>7, <1>9 DEF Since

(* Points are the rounded list prices of the rows, whichever set of rows   *)
(* they are asked for.                                                     *)
LEMMA PointsAdd ==
    ASSUME LedgerTypeOK, NEW ref \in References \cup {NoReference}, ref # NoReference, NEW X \in SUBSET DOMAIN rows
    PROVE  Integral(X, Rounded(ref)) /\ Points(X, ref) = SumOver(X, Rounded(ref)) /\ Points(X, ref) \in Int
<1>1. ref \in Nat /\ ref > 0
  BY LedgerConstants DEF NoReference
<1>2. IsFiniteSet(X)
  BY RowsAreSummable
<1>3. ASSUME NEW i \in DOMAIN rows PROVE Rounded(ref)[i] \in Int
  <2>1. PICK a \in Nat : a = 2 * rows[i].list + ref
    BY <1>1, RowTypes
  <2>2. PICK d \in Nat : d = 2 * ref /\ d > 0
    BY <1>1
  <2>3. a \div d \in Int
    BY <2>1, <2>2
  <2> QED BY <2>1, <2>2, <2>3 DEF Rounded
<1>4. Integral(X, Rounded(ref))
  BY <1>2, <1>3 DEF Integral
<1>5. PICK g : g = [i \in X |-> (2 * rows[i].list + ref) \div (2 * ref)]
  OBVIOUS
<1>6. \A i \in X : Rounded(ref)[i] = g[i]
  BY <1>5 DEF Rounded
<1>7. SumOver(X, Rounded(ref)) = SumOver(X, g)
  BY <1>4, <1>6, SumAlike
<1>8. Points(X, ref) = SumOver(X, g)
  BY <1>5 DEF Points
<1> QED BY <1>4, <1>7, <1>8, SumWhole

(* A window's lines by model add up to the window.                         *)
LEMMA LinesAddUp ==
    ASSUME LedgerTypeOK, NEW window \in Windows, NEW ref \in References \cup {NoReference}
    PROVE  LET inside == Since(SinceOf(window))
               lines == KeyUsageModels(window, ref)
           IN /\ SumOver(DOMAIN lines, [model \in DOMAIN lines |-> lines[model].cost]) = SumOver(inside, Cost)
              /\ ref # NoReference => SumOver(DOMAIN lines, [model \in DOMAIN lines |-> lines[model].points]) = Points(inside, ref)
              /\ SumOver(DOMAIN lines, [model \in DOMAIN lines |-> lines[model].attempts]) = Cardinality(inside)
              /\ ref = NoReference => \A model \in DOMAIN lines : lines[model].points = NoPoints
<1> DEFINE inside == Since(SinceOf(window))
           of(model) == {i \in inside : rows[i].model = model}
           lines == KeyUsageModels(window, ref)
           models == Keys(inside, ModelOf)
<1>1. inside \in SUBSET DOMAIN rows
  BY DEF Since
<1>2. \A model : of(model) \in SUBSET DOMAIN rows /\ of(model) = Group(inside, ModelOf, model)
  BY <1>1 DEF ModelOf, Group
<1>3. models = {rows[i].model : i \in inside}
  BY <1>1 DEF ModelOf, Keys
<1>4. DOMAIN lines = models
  BY <1>3 DEF KeyUsageModels
<1>5. ASSUME NEW model \in models
      PROVE  lines[model].cost = SumOver(of(model), Cost) /\ lines[model].points = Points(of(model), ref)
             /\ lines[model].attempts = Cardinality(of(model))
  <2>1. lines[model] = ModelUsage(window, ref, model)
    BY <1>3 DEF KeyUsageModels
  <2> QED BY <2>1 DEF ModelUsage
<1>6. IsFiniteSet(inside) /\ Integral(inside, Cost) /\ Integral(inside, One)
  <2>1. IsFiniteSet(inside) /\ Integral(inside, Cost)
    BY <1>1, RowsAreSummable
  <2>2. \A i \in inside : One[i] = 1
    BY <1>1 DEF One
  <2> QED BY <2>1, <2>2 DEF Integral
<1> HIDE DEF inside, of, lines, models
<1>7. SumOver(models, [model \in models |-> lines[model].cost]) = SumOver(inside, Cost)
  <2>1. PICK g : g = [model \in models |-> lines[model].cost]
    OBVIOUS
  <2>2. \A model \in models : g[model] = SumOver(Group(inside, ModelOf, model), Cost)
    BY <1>2, <1>5, <2>1
  <2>3. SumOver(models, g) = SumOver(inside, Cost)
    BY <1>6, <2>2, SumByGroup DEF models
  <2> QED BY <2>1, <2>3
<1>8. ASSUME ref # NoReference PROVE SumOver(models, [model \in models |-> lines[model].points]) = Points(inside, ref)
  <2>1. PICK g : g = [model \in models |-> lines[model].points]
    OBVIOUS
  <2>2. \A model \in models : Points(of(model), ref) = SumOver(of(model), Rounded(ref))
    BY <1>2, <1>8, PointsAdd
  <2>3. \A model \in models : g[model] = SumOver(Group(inside, ModelOf, model), Rounded(ref))
    BY <1>2, <1>5, <2>1, <2>2
  <2>4. Integral(inside, Rounded(ref)) /\ Points(inside, ref) = SumOver(inside, Rounded(ref))
    BY <1>1, <1>8, PointsAdd
  <2>5. SumOver(models, g) = SumOver(inside, Rounded(ref))
    BY <2>3, <2>4, SumByGroup DEF models
  <2> QED BY <2>1, <2>4, <2>5
<1>9. SumOver(models, [model \in models |-> lines[model].attempts]) = Cardinality(inside)
  <2>1. PICK g : g = [model \in models |-> lines[model].attempts]
    OBVIOUS
  <2>2. \A X \in SUBSET DOMAIN rows : SumOver(X, One) = Cardinality(X)
    BY RowsAreSummable, SumCounts DEF One
  <2>3. \A model \in models : g[model] = SumOver(Group(inside, ModelOf, model), One)
    BY <1>2, <1>5, <2>1, <2>2
  <2>4. SumOver(models, g) = SumOver(inside, One)
    BY <1>6, <2>3, SumByGroup DEF models
  <2> QED BY <1>1, <2>1, <2>2, <2>4
<1>10. ASSUME ref = NoReference PROVE \A model \in models : lines[model].points = NoPoints
  BY <1>5, <1>10 DEF Points
<1> QED BY <1>4, <1>7, <1>8, <1>9, <1>10 DEF inside, lines

(* A pool names one of its keys twice and one that was never used.         *)
LEMMA PoolAddsUp ==
    ASSUME LedgerTypeOK, NEW window \in Windows, NEW ref \in References \cup {NoReference}
    PROVE  PoolReply(<<"key", "unused", "key">>, window, ref)
             = IF ref = NoReference THEN {} ELSE {Points(Since(SinceOf(window)), ref)}
<1>1. CASE ref = NoReference
  BY <1>1 DEF PoolReply
<1>2. CASE ref # NoReference
  <2>1. PICK p \in Int : p = Points(Since(SinceOf(window)), ref)
    BY <1>2, PointsAdd DEF Since
  <2>2. PICK keys : keys = <<"key", "unused", "key">>
    OBVIOUS
  <2>3. DOMAIN keys = {1, 2, 3} /\ keys[1] = "key" /\ keys[2] = "unused" /\ keys[3] = "key"
    BY <2>2
  <2>4. {keys[k] : k \in DOMAIN keys} = {"key", "unused"}
    BY <2>3
  <2>5. PICK h : h = [key \in {"key", "unused"} |-> IF key = "key" THEN p ELSE 0]
    OBVIOUS
  <2>6. h["key"] = p /\ h["unused"] = 0
    BY <2>5
  <2>7. PoolPoints(keys, window, ref) = SumOver({"key", "unused"}, h)
    BY <2>1, <2>4, <2>5 DEF PoolPoints
  <2>8. IsFiniteSet({"key", "unused"}) /\ IsFiniteSet({"key"})
    <3>1. IsFiniteSet({}) /\ {} \cup {"key"} = {"key"} /\ {"key"} \cup {"unused"} = {"key", "unused"}
      BY FS_EmptySet
    <3>2. IsFiniteSet({"key"})
      BY <3>1, FS_AddElement
    <3> QED BY <3>1, <3>2, FS_AddElement
  <2>9. Integral({"key", "unused"}, h) /\ Integral({"key"}, h)
    BY <2>6, <2>8 DEF Integral
  <2>10. SumOver({"key", "unused"}, h) = SumOver({"key"}, h) + h["unused"]
    <3>1. {"key", "unused"} \ {"unused"} = {"key"}
      OBVIOUS
    <3> QED BY <2>9, <3>1, SumAdds
  <2>11. SumOver({"key"}, h) = 0 + h["key"]
    <3>1. {"key"} \ {"key"} = {}
      OBVIOUS
    <3> QED BY <2>9, <3>1, SumAdds, SumOfNone
  <2>12. SumOver({"key", "unused"}, h) = p
    BY <2>6, <2>10, <2>11
  <2> QED BY <1>2, <2>1, <2>2, <2>7, <2>12 DEF PoolReply
<1> QED BY <1>1, <1>2

(* A rolling window keeps its rows until the instant it names, and no      *)
(* longer.                                                                 *)
LEMMA FreesThen ==
    ASSUME LedgerTypeOK, NEW window \in Rolling, NEW f \in FreesAt(window)
    PROVE  /\ \A t \in now .. f : Since(t - Length[window]) = Since(SinceOf(window))
           /\ Since(f + 1 - Length[window]) # Since(SinceOf(window))
<1>0. window \in Windows /\ window # "month"
  BY LedgerConstants DEF Windows
<1>1. PICK L \in Nat : L = Length[window] /\ SinceOf(window) = now - L
  BY <1>0, WindowTypes
<1> DEFINE inside == {rows[i].at : i \in Since(SinceOf(window))}
<1>2. inside # {} /\ f = Min(inside) + L
  BY <1>0, <1>1 DEF FreesAt
<1>3. inside \subseteq Nat
  BY RowTypes DEF Since
<1>4. PICK least \in Nat : least = Min(inside) /\ least \in inside /\ \A x \in inside : least <= x
  <2>1. \E x \in inside : \A y \in inside : x <= y
    BY <1>2, <1>3, LeastNatural
  <2> HIDE DEF inside
  <2> QED BY <1>3, <2>1 DEF Min
<1>5. now \in Nat /\ f = least + L /\ f \in Nat
  BY <1>0, <1>2, <1>4, WindowTypes
<1>6. \A i \in DOMAIN rows : rows[i].at \in Nat
  BY RowTypes
<1>7. ASSUME NEW t \in now .. f PROVE Since(t - L) = Since(now - L)
  <2>1. t \in Int /\ now <= t /\ t - L <= least
    BY <1>5
  <2>2. ASSUME NEW i \in DOMAIN rows, rows[i].at >= t - L PROVE rows[i].at >= now - L
    BY <1>5, <1>6, <2>1, <2>2
  <2>3. ASSUME NEW i \in DOMAIN rows, rows[i].at >= now - L PROVE rows[i].at >= t - L
    <3>1. rows[i].at \in inside
      BY <1>1, <2>3 DEF Since
    <3>2. least <= rows[i].at
      BY <1>4, <3>1
    <3> QED BY <1>6, <2>1, <3>2
  <2> QED BY <2>2, <2>3 DEF Since
<1>8. Since(f + 1 - L) # Since(now - L)
  <2>1. PICK i \in Since(now - L) : rows[i].at = least
    BY <1>1, <1>4
  <2>2. f + 1 - L = least + 1 /\ ~ (least >= least + 1)
    BY <1>5
  <2>3. i \notin Since(f + 1 - L)
    BY <2>1, <2>2 DEF Since
  <2> QED BY <2>1, <2>3
<1> QED BY <1>1, <1>7, <1>8

(* In any state of the right types the reports agree.                      *)
LEMMA ReportsDoAgree ==
    ASSUME LedgerTypeOK
    PROVE  ReportsAgree
<1> SUFFICES ASSUME NEW ref \in References \cup {NoReference}, NEW window \in Rolling \cup {"month"}
    PROVE LET key == KeyUsage(window, ref)
              lines == KeyUsageModels(window, ref)
          IN /\ key.cost = SumOver(DOMAIN lines, [model \in DOMAIN lines |-> lines[model].cost])
             /\ \A principal \in PrincipalReply(window, ref) :
                 /\ key.cost = principal.total
                 /\ key.points = principal.points
                 /\ key.points = SumOver(DOMAIN lines, [model \in DOMAIN lines |-> lines[model].points])
                 /\ key.requests + principal.unserved = SumOver(DOMAIN lines, [model \in DOMAIN lines |-> lines[model].attempts])
             /\ PoolReply(<<"key", "unused", "key">>, window, ref) = IF ref = NoReference THEN {} ELSE {key.points}
             /\ ref = NoReference => key.points = NoPoints /\ \A model \in DOMAIN lines : lines[model].points = NoPoints
             /\ window = "month" => key.cost = PrincipalUsage.cost /\ key.requests = PrincipalUsage.requests
             /\ \A f \in FreesAt(window) : window \in Rolling =>
                 /\ \A t \in now .. f : Since(t - Length[window]) = Since(SinceOf(window))
                 /\ Since(f + 1 - Length[window]) # Since(SinceOf(window))
  BY DEF ReportsAgree
<1>0. window \in Windows
  BY DEF Windows
<1>1. PICK inside : inside = Since(SinceOf(window))
  OBVIOUS
<1>2. PICK key : key = KeyUsage(window, ref)
  OBVIOUS
<1>3. PICK lines : lines = KeyUsageModels(window, ref)
  OBVIOUS
<1>4. key.cost = SumOver(inside, Cost) /\ key.requests = Cardinality(Served(inside)) /\ key.points = Points(inside, ref)
  <2>1. {i \in Joined : rows[i].at >= SinceOf(window)} = inside
    BY <1>0, <1>1, JoinReaches
  <2> QED BY <1>2, <2>1 DEF KeyUsage
<1>5. /\ SumOver(DOMAIN lines, [model \in DOMAIN lines |-> lines[model].cost]) = SumOver(inside, Cost)
      /\ ref # NoReference => SumOver(DOMAIN lines, [model \in DOMAIN lines |-> lines[model].points]) = Points(inside, ref)
      /\ SumOver(DOMAIN lines, [model \in DOMAIN lines |-> lines[model].attempts]) = Cardinality(inside)
      /\ ref = NoReference => \A model \in DOMAIN lines : lines[model].points = NoPoints
  BY <1>0, <1>1, <1>3, LinesAddUp
<1>6. Cardinality(Served(inside)) + Cardinality(inside \ Served(inside)) = Cardinality(inside)
  <2>1. inside \in SUBSET DOMAIN rows
    BY <1>1 DEF Since
  <2>2. IsFiniteSet(inside)
    BY <2>1, RowsAreSummable
  <2>3. Served(inside) \subseteq inside /\ Served(inside) = inside \cap Served(inside)
    BY DEF Served
  <2>4. Cardinality(inside \ Served(inside)) = Cardinality(inside) - Cardinality(Served(inside))
    BY <2>2, <2>3, FS_Difference
  <2>5. Cardinality(Served(inside)) \in Nat /\ Cardinality(inside) \in Nat
    BY <2>2, <2>3, FS_Subset, FS_CardinalityType
  <2> QED BY <2>4, <2>5
<1>7. ASSUME NEW principal \in PrincipalReply(window, ref)
      PROVE  /\ ref # NoReference /\ key.cost = principal.total /\ key.points = principal.points
             /\ key.requests + principal.unserved = Cardinality(inside)
  <2>1. ref # NoReference /\ principal = PrincipalPoints(window, ref)
    BY <1>7 DEF PrincipalReply
  <2>2. principal.total = SumOver(inside, Cost) /\ principal.points = Points(inside, ref)
        /\ principal.unserved = Cardinality(inside \ Served(inside))
    BY <1>1, <2>1 DEF PrincipalPoints
  <2> QED BY <1>4, <1>6, <2>1, <2>2
<1>8. PoolReply(<<"key", "unused", "key">>, window, ref) = IF ref = NoReference THEN {} ELSE {key.points}
  BY <1>0, <1>1, <1>4, PoolAddsUp
<1>9. ref = NoReference => key.points = NoPoints
  BY <1>4 DEF Points
<1>10. window = "month" => key.cost = PrincipalUsage.cost /\ key.requests = PrincipalUsage.requests
  BY <1>1, <1>4 DEF SinceOf, PrincipalUsage, MonthSum
<1>11. \A f \in FreesAt(window) : window \in Rolling =>
                 /\ \A t \in now .. f : Since(t - Length[window]) = Since(SinceOf(window))
                 /\ Since(f + 1 - Length[window]) # Since(SinceOf(window))
  BY FreesThen
<1>12. /\ key.cost = SumOver(DOMAIN lines, [model \in DOMAIN lines |-> lines[model].cost])
       /\ \A principal \in PrincipalReply(window, ref) :
            /\ key.cost = principal.total
            /\ key.points = principal.points
            /\ key.points = SumOver(DOMAIN lines, [model \in DOMAIN lines |-> lines[model].points])
            /\ key.requests + principal.unserved = SumOver(DOMAIN lines, [model \in DOMAIN lines |-> lines[model].attempts])
       /\ ref = NoReference => key.points = NoPoints /\ \A model \in DOMAIN lines : lines[model].points = NoPoints
  BY <1>4, <1>5, <1>7, <1>9
<1> QED BY <1>2, <1>3, <1>8, <1>10, <1>11, <1>12

(* So the ledger, the counters and the reports agree.                      *)
LEMMA LedgerInvAgrees == LedgerInv => LedgerAgrees
  BY TracksCounters, ReportsDoAgree DEF LedgerInv, LedgerAgrees

(* The counters a budget is read from are never behind the rows this       *)
(* release wrote and never ahead of what was committed since their month   *)
(* began, and every report of a window tells the same figures: for any     *)
(* requests, calls, windows and reference prices.                          *)
THEOREM LedgersAgree == LedgerSpec => []LedgerAgrees
  BY LedgerInductive, LedgerInvAgrees, PTL

-----------------------------------------------------------------------------
(***************************************************************************)
(* The usage importer.  A row it wrote is of a session it took, under the  *)
(* reference that session gives the call; what a command has yet to write  *)
(* are rows it planned, and what it planned is written or left.            *)
(***************************************************************************)

(* The image of a finite set under a function is finite.                   *)
LEMMA ImageFinite ==
    ASSUME NEW D, IsFiniteSet(D), NEW f
    PROVE  IsFiniteSet({f[x] : x \in D})
<1> DEFINE T == {f[x] : x \in D}
           image == [x \in D |-> f[x]]
<1>1. image \in Surjection(D, T)
  BY DEF Surjection
<1> HIDE DEF T, image
<1>2. IsFiniteSet(T)
  BY <1>1, FS_Surjection
<1> QED BY <1>2 DEF T

(* A finite set laid out as a sequence keeps its elements and no others.   *)
LEMMA LaidOut ==
    ASSUME NEW S, IsFiniteSet(S)
    PROVE  /\ Len(SetToSeq(S)) \in Nat /\ DOMAIN SetToSeq(S) = 1 .. Len(SetToSeq(S))
           /\ SetToSeq(S) \in Seq(S)
           /\ \A x \in S : \E k \in DOMAIN SetToSeq(S) : SetToSeq(S)[k] = x
<1> DEFINE n == Cardinality(S)
           f == SetToSeq(S)
<1>1. n \in Nat /\ ExistsBijection(1 .. n, S)
  BY FS_CardinalityType
<1>2. \E g \in [1 .. n -> S] : IsInjective(g)
  BY <1>1 DEF ExistsBijection, Bijection, Injection
<1>3. f \in [1 .. n -> S] /\ IsInjective(f)
  BY <1>2 DEF SetToSeq
<1> HIDE DEF f
<1>4. f \in Injection(1 .. n, S)
  BY <1>3 DEF Injection
<1>5. Cardinality(1 .. n) = n
  BY <1>1, FS_Interval
<1>6. f \in Surjection(1 .. n, S)
  BY <1>4, <1>5, FS_Injection
<1>7. \A x \in S : \E k \in 1 .. n : f[k] = x
  BY <1>6 DEF Surjection
<1>8. f \in Seq(S) /\ Len(f) = n /\ DOMAIN f = 1 .. n
  BY <1>1, <1>3
<1>9. Len(f) \in Nat /\ DOMAIN f = 1 .. Len(f) /\ \A x \in S : \E k \in DOMAIN f : f[k] = x
  BY <1>1, <1>7, <1>8
<1> QED BY <1>8, <1>9 DEF f

(* A finite nonempty set of integers has a least and a greatest element.   *)
LEMMA ExtremesOf ==
    ASSUME NEW S, IsFiniteSet(S), S # {}, S \subseteq Int
    PROVE  /\ Min(S) \in S /\ Max(S) \in S
           /\ \A x \in S : Min(S) <= x /\ x <= Max(S)
<1> DEFINE P == {s \in SUBSET S : s = {} \/ \E x \in s, z \in s : \A y \in s : x <= y /\ y <= z}
<1>1. {} \in P
  OBVIOUS
<1>2. ASSUME NEW s \in SUBSET S, NEW z \in S \ s, s \in P PROVE s \cup {z} \in P
  <2>1. CASE s = {}
    BY <2>1
  <2>2. CASE s # {}
    <3>1. PICK a \in s, b \in s : \A y \in s : a <= y /\ y <= b
      BY <1>2, <2>2
    <3> DEFINE lo == IF z < a THEN z ELSE a
               hi == IF z > b THEN z ELSE b
    <3>2. lo \in s \cup {z} /\ hi \in s \cup {z} /\ \A y \in s \cup {z} : lo <= y /\ y <= hi
      BY <3>1
    <3> QED BY <3>2
  <2> QED BY <2>1, <2>2
<1>3. S \in P
  <2> HIDE DEF P
  <2> QED BY <1>1, <1>2, SubsetInduction
<1>4. PICK a \in S, b \in S : \A y \in S : a <= y /\ y <= b
  BY <1>3
<1>5. Min(S) \in S /\ \A y \in S : Min(S) <= y
  BY <1>4 DEF Min
<1>6. Max(S) \in S /\ \A y \in S : Max(S) >= y
  <2>1. \E x \in S : \A y \in S : x >= y
    BY <1>4
  <2> QED BY <2>1 DEF Max
<1> QED BY <1>5, <1>6

-----------------------------------------------------------------------------
(***************************************************************************)
(* The importer.  A draft is a row for a message of a session; the plan of *)
(* an import is the drafts of the sessions it takes.                       *)
(***************************************************************************)
Cutoffs == {history.cutoff, history.never}
Taken(s) == \E b \in Cutoffs : Judge(history.source, Messages(history.lines, s), b) = "import"
DraftOf(row, s, m) == row = Pending(history.source, s, m)
Draft(row) ==
    \E s \in Sessions(history.lines) : \E m \in Messages(history.lines, s) : Taken(s) /\ DraftOf(row, s, m)
RowOf(r, s, m) ==
    /\ r.ref = SourceRef(history.source, s, m)
    /\ r.call = m /\ r.listed = Price(m.slug) /\ r.origin = history.source
BookedFor(c) == \E r \in Imported : r.call = c

(* The gateway's own rows are never touched, and every other row is of a   *)
(* message of a session some import took, one row to a reference.          *)
RowsEarned ==
    /\ history \in Histories
    /\ GatewayRows = GatewayServed(history)
    /\ \A r \in Imported : \E s \in Sessions(history.lines) : \E m \in Messages(history.lines, s) :
          Taken(s) /\ RowOf(r, s, m)
    /\ \A r, q \in Imported : r.ref = q.ref => r = q

(* What an import under way has left are drafts; of those it planned and   *)
(* has not left, and of all of a finished one's, there are rows.           *)
DraftRows ==
    UNION {{Pending(history.source, s, m) : m \in Messages(history.lines, s)} : s \in {s \in Sessions(history.lines) : Taken(s)}}
Drafts(todo) == todo \in Seq(DraftRows)
Command(i) ==
    run[i] = [pc |-> run[i].pc, account |-> run[i].account, before |-> run[i].before, left |-> run[i].left]
RunOK(i) ==
    CASE run[i].pc = "writing" ->
            /\ Command(i)
            /\ Drafts(run[i].left) /\ run[i].before \in Cutoffs
            /\ \A row \in PlannedRows(run[i].before) :
                  BookedFor(row.call) \/ \E k \in DOMAIN run[i].left : run[i].left[k] = row
      [] run[i].pc = "overtaken" -> Command(i) /\ Drafts(run[i].left)
      [] run[i].pc = "done" ->
            run[i].before \in Cutoffs /\ \A row \in PlannedRows(run[i].before) : BookedFor(row.call)
      [] OTHER -> run[i].pc = "idle"
RunsOK == DOMAIN run = Importers /\ \A i \in Importers : RunOK(i)

ImportInv == RowsEarned /\ RunsOK

(* A message of a session is the call of the session's last line of its id. *)
LEMMA MessageIs ==
    ASSUME NEW lines, NEW s, NEW m \in Messages(lines, s)
    PROVE  \E i \in DOMAIN lines : /\ m = lines[i].call /\ SessionOf(lines[i]) = s
                                   /\ \A j \in DOMAIN lines : SessionOf(lines[j]) = s /\ lines[j].call.id = m.id => j <= i
  BY DEF Messages

(* What is known of the session's times when it has a message.             *)
LEMMA WindowHolds ==
    ASSUME history \in Histories, NEW s, NEW m \in Messages(history.lines, s)
    PROVE  LET w == WindowOf(Messages(history.lines, s))
           IN w.from \in Int /\ w.to \in Int /\ Near(w, m.at)
<1> DEFINE M == Messages(history.lines, s)
           at == [x \in M |-> x.at]
           T == {x.at : x \in M}
           D == DOMAIN history.lines
           call == [i \in D |-> history.lines[i].call]
           C == {call[i] : i \in D}
<1>0. Sayable(history)
  BY ImportAssumption
<1>1. IsFiniteSet(D)
  BY <1>0, FS_Interval DEF Sayable
<1>2. IsFiniteSet(C)
  <2> HIDE DEF call, D
  <2> QED BY <1>1, ImageFinite
<1>3. M \subseteq C
  BY DEF Messages
<1>4. IsFiniteSet(M)
  <2> HIDE DEF M, C
  <2> QED BY <1>2, <1>3, FS_Subset
<1>5. T = {at[x] : x \in M}
  OBVIOUS
<1>6. IsFiniteSet(T)
  <2> HIDE DEF M, at, T
  <2> QED BY <1>4, <1>5, ImageFinite
<1>7. \A x \in M : x.at \in Int
  BY <1>0, <1>3 DEF Sayable
<1>8. T # {} /\ T \subseteq Int /\ m.at \in T
  BY <1>7
<1>9. Min(T) \in T /\ Max(T) \in T /\ Min(T) <= m.at /\ m.at <= Max(T)
  <2> HIDE DEF T
  <2> QED BY <1>6, <1>8, ExtremesOf
<1>10. Min(T) \in Int /\ Max(T) \in Int /\ m.at \in Int
  BY <1>8, <1>9
<1>11. WindowOf(M).from = Min(T) /\ WindowOf(M).to = Max(T)
  BY DEF WindowOf
<1> HIDE DEF T
<1> QED BY <1>9, <1>10, <1>11, ImportAssumption DEF Near

(* One reference names one message, wherever it was read.                  *)
LEMMA SameRef ==
    ASSUME history \in Histories, NEW s, NEW t, NEW m \in Messages(history.lines, s), NEW n \in Messages(history.lines, t),
           SourceRef(history.source, s, m) = SourceRef(history.source, t, n)
    PROVE  m = n
<1>0. Sayable(history)
  BY ImportAssumption
<1>1. PICK i \in DOMAIN history.lines : /\ m = history.lines[i].call /\ SessionOf(history.lines[i]) = s
           /\ \A j \in DOMAIN history.lines : SessionOf(history.lines[j]) = s /\ history.lines[j].call.id = m.id => j <= i
  BY MessageIs
<1>2. PICK k \in DOMAIN history.lines : /\ n = history.lines[k].call /\ SessionOf(history.lines[k]) = t
           /\ \A j \in DOMAIN history.lines : SessionOf(history.lines[j]) = t /\ history.lines[j].call.id = n.id => j <= k
  BY MessageIs
<1>3. CASE history.source = "claude"
  <2>1. m.id = n.id
    BY <1>3 DEF SourceRef, Global
  <2> QED BY <1>0, <1>1, <1>2, <1>3, <2>1 DEF Sayable
<1>4. CASE history.source = "grok"
  <2>1. s = t /\ m.id = n.id
    BY <1>4 DEF SourceRef, Global
  <2>2. i <= k /\ k <= i
    BY <1>1, <1>2, <2>1
  <2>3. i \in Nat /\ k \in Nat
    BY <1>0 DEF Sayable
  <2>4. i = k
    BY <2>2, <2>3
  <2> QED BY <1>1, <1>2, <2>4
<1> QED BY <1>0, <1>3, <1>4 DEF Sayable

(* And a message has one reference, under whatever session it was read.    *)
LEMMA SameCall ==
    ASSUME history \in Histories, NEW s, NEW t, NEW m \in Messages(history.lines, s), m \in Messages(history.lines, t)
    PROVE  SourceRef(history.source, s, m) = SourceRef(history.source, t, m)
<1>0. Sayable(history)
  BY ImportAssumption
<1>1. CASE history.source = "claude"
  BY <1>1 DEF SourceRef, Global
<1>2. CASE history.source = "grok"
  <2>1. m.session = s /\ m.session = t
    BY <1>0, <1>2, MessageIs DEF Sayable
  <2> QED BY <2>1
<1> QED BY <1>0, <1>1, <1>2 DEF Sayable

(* A plan is a finite set of drafts.                                       *)
LEMMA PlansAreDrafts ==
    ASSUME history \in Histories, NEW b \in Cutoffs
    PROVE  IsFiniteSet(PlannedRows(b)) /\ \A row \in PlannedRows(b) : Draft(row)
<1> DEFINE D == DOMAIN history.lines
           of == [i \in D |-> Pending(history.source, SessionOf(history.lines[i]), history.lines[i].call)]
           C == {of[i] : i \in D}
<1>0. Sayable(history)
  BY ImportAssumption
<1>1. IsFiniteSet(D)
  BY <1>0, FS_Interval DEF Sayable
<1>2. IsFiniteSet(C)
  <2> HIDE DEF of, D
  <2> QED BY <1>1, ImageFinite
<1>3. ASSUME NEW row \in PlannedRows(b) PROVE row \in C /\ Draft(row)
  <2>1. PICK s \in Sessions(history.lines) : /\ Judge(history.source, Messages(history.lines, s), b) = "import"
             /\ row \in {Pending(history.source, s, m) : m \in Messages(history.lines, s)}
    BY DEF PlannedRows
  <2>2. PICK m \in Messages(history.lines, s) : row = Pending(history.source, s, m)
    BY <2>1
  <2>3. PICK i \in D : m = history.lines[i].call /\ SessionOf(history.lines[i]) = s
    BY MessageIs
  <2>4. row = of[i]
    BY <2>2, <2>3
  <2> QED BY <2>1, <2>2, <2>4 DEF Draft, DraftOf, Taken
<1> HIDE DEF C
<1>4. PlannedRows(b) \in SUBSET C
  BY <1>3
<1> QED BY <1>2, <1>3, <1>4, FS_Subset

(* What is planned, and what is judged, rests on the history and on the    *)
(* gateway's rows only.                                                    *)
LEMMA PlansStand ==
    ASSUME UNCHANGED history, GatewayRows' = GatewayRows
    PROVE  /\ \A b : PlannedRows(b)' = PlannedRows(b)
           /\ \A s : Taken(s)' <=> Taken(s)
           /\ \A row : Draft(row)' <=> Draft(row)
           /\ Cutoffs' = Cutoffs
<1>1. \A m, w : SeenBetween(m, w)' <=> SeenBetween(m, w)
  BY DEF SeenBetween
<1>2. \A w : ServedBetween(w)' <=> ServedBetween(w)
  BY DEF ServedBetween
<1>3. \A source, M, b : Judge(source, M, b)' = Judge(source, M, b)
  BY <1>1, <1>2 DEF Judge
<1>4. Cutoffs' = Cutoffs
  BY DEF Cutoffs
<1>5. \A b : PlannedRows(b)' = PlannedRows(b)
  BY <1>3 DEF PlannedRows
<1>6. \A s : Taken(s)' <=> Taken(s)
  BY <1>3, <1>4 DEF Taken
<1>7. \A row : Draft(row)' <=> Draft(row)
  BY <1>6 DEF Draft, DraftOf
<1> QED BY <1>4, <1>5, <1>6, <1>7

(* The ledger gains rows for the drafts of a batch that had none.          *)
LEMMA InsertKeeps ==
    ASSUME RowsEarned, NEW batch, \A row \in batch : Draft(row), NEW account,
           ledger' = Insert(batch, account), UNCHANGED history
    PROVE  /\ RowsEarned' /\ GatewayRows' = GatewayRows
           /\ \A c : BookedFor(c) => BookedFor(c)'
           /\ \A row \in batch : BookedFor(row.call)'
<1> DEFINE new == {row \in batch : \A r \in ledger : r.origin = "gateway" \/ r.ref # row.ref}
<1>0. history \in Histories /\ history.source # "gateway" /\ history' = history
  BY ImportAssumption DEF RowsEarned, Sayable
<1>1. \A row : /\ Booked(row, account).origin = history.source /\ Booked(row, account).ref = row.ref
               /\ Booked(row, account).call = row.call /\ Booked(row, account).listed = row.listed
  BY DEF Booked
<1>2. ledger' = ledger \cup {Booked(row, account) : row \in new}
  BY DEF Insert
<1>3. GatewayRows' = GatewayRows
  BY <1>0, <1>1, <1>2 DEF GatewayRows
<1>4. Imported' = Imported \cup {Booked(row, account) : row \in new}
  BY <1>0, <1>1, <1>2 DEF Imported
<1>5. \A s : Taken(s)' <=> Taken(s)
  BY <1>3, PlansStand
<1>6. ASSUME NEW row \in batch
      PROVE  \E s \in Sessions(history.lines) : \E m \in Messages(history.lines, s) :
                Taken(s) /\ row.ref = SourceRef(history.source, s, m) /\ row.call = m /\ row.listed = Price(m.slug)
  BY DEF Draft, DraftOf, Pending
<1>7. ASSUME NEW r \in Imported'
      PROVE  \E s \in Sessions(history.lines) : \E m \in Messages(history.lines, s) : Taken(s) /\ RowOf(r, s, m)
  <2>1. CASE r \in Imported
    BY <2>1 DEF RowsEarned
  <2>2. CASE r \notin Imported
    <3>1. PICK row \in new : r = Booked(row, account)
      BY <1>4, <1>7, <2>2
    <3>2. row \in batch
      OBVIOUS
    <3> QED BY <1>1, <1>6, <3>1, <3>2 DEF RowOf
  <2> QED BY <2>1, <2>2
<1>8. ASSUME NEW row \in new, NEW q \in Imported PROVE Booked(row, account).ref # q.ref
  BY <1>1 DEF Imported
<1>9. ASSUME NEW row \in new, NEW twin \in new, row.ref = twin.ref PROVE row = twin
  <2>1. PICK s \in Sessions(history.lines) : \E m \in Messages(history.lines, s) : DraftOf(row, s, m)
    BY DEF Draft
  <2>2. PICK m \in Messages(history.lines, s) : row = Pending(history.source, s, m)
    BY <2>1 DEF DraftOf
  <2>3. PICK t \in Sessions(history.lines) : \E n \in Messages(history.lines, t) : DraftOf(twin, t, n)
    BY DEF Draft
  <2>4. PICK n \in Messages(history.lines, t) : twin = Pending(history.source, t, n)
    BY <2>3 DEF DraftOf
  <2>5. SourceRef(history.source, s, m) = SourceRef(history.source, t, n)
    BY <1>9, <2>2, <2>4 DEF Pending
  <2>6. m = n
    BY <1>0, <2>5, SameRef
  <2> QED BY <2>2, <2>4, <2>5, <2>6 DEF Pending
<1>10. ASSUME NEW r \in Imported', NEW q \in Imported', r.ref = q.ref PROVE r = q
  <2>1. CASE r \in Imported /\ q \in Imported
    BY <1>10, <2>1 DEF RowsEarned
  <2>2. CASE r \in Imported /\ q \notin Imported
    BY <1>4, <1>8, <1>10, <2>2
  <2>3. CASE r \notin Imported /\ q \in Imported
    BY <1>4, <1>8, <1>10, <2>3
  <2>4. CASE r \notin Imported /\ q \notin Imported
    <3>1. PICK row \in new, twin \in new : r = Booked(row, account) /\ q = Booked(twin, account)
      BY <1>4, <2>4
    <3> QED BY <1>1, <1>9, <1>10, <3>1
  <2> QED BY <2>1, <2>2, <2>3, <2>4
<1>11. GatewayServed(history)' = GatewayServed(history)
  BY <1>0
<1>12. RowsEarned'
  <2>1. GatewayRows' = GatewayServed(history)'
    BY <1>3, <1>11 DEF RowsEarned
  <2>2. \A r \in Imported' : \E s \in Sessions(history.lines)' : \E m \in Messages(history.lines, s)' : Taken(s)' /\ RowOf(r, s, m)'
    BY <1>0, <1>5, <1>7 DEF RowOf
  <2> QED BY <1>0, <1>10, <2>1, <2>2 DEF RowsEarned
<1>13. \A c : BookedFor(c) => BookedFor(c)'
  BY <1>4 DEF BookedFor
<1>14. ASSUME NEW row \in batch PROVE BookedFor(row.call)'
  <2>1. CASE row \in new
    BY <1>1, <1>4, <2>1 DEF BookedFor
  <2>2. CASE row \notin new
    <3>1. PICK r \in Imported : r.ref = row.ref
      BY <2>2 DEF Imported
    <3>2. PICK s \in Sessions(history.lines) : \E m \in Messages(history.lines, s) : RowOf(r, s, m)
      BY DEF RowsEarned
    <3>3. PICK m \in Messages(history.lines, s) : r.ref = SourceRef(history.source, s, m) /\ r.call = m
      BY <3>2 DEF RowOf
    <3>4. PICK t \in Sessions(history.lines) : \E n \in Messages(history.lines, t) :
                row.ref = SourceRef(history.source, t, n) /\ row.call = n
      BY <1>6
    <3>5. PICK n \in Messages(history.lines, t) : row.ref = SourceRef(history.source, t, n) /\ row.call = n
      BY <3>4
    <3>6. m = n
      BY <1>0, <3>1, <3>3, <3>5, SameRef
    <3> QED BY <1>4, <3>3, <3>5, <3>6 DEF BookedFor
  <2> QED BY <2>1, <2>2
<1> QED BY <1>3, <1>12, <1>13, <1>14

(* The drafts, as a set.                                                   *)
LEMMA DraftRowsAre == \A row : row \in DraftRows <=> Draft(row)
  BY DEF DraftRows, Draft, DraftOf

(* A run that stands still stays right while the ledger only gains rows.   *)
LEMMA RunStands ==
    ASSUME UNCHANGED history, GatewayRows' = GatewayRows, NEW i, RunOK(i), run'[i] = run[i],
           (\A c : BookedFor(c) => BookedFor(c)') \/ run[i].pc \in {"idle", "overtaken"}
    PROVE  RunOK(i)'
<1>1. \A b : PlannedRows(b)' = PlannedRows(b)
  BY PlansStand
<1>2. Cutoffs' = Cutoffs
  BY PlansStand
<1>3. DraftRows' = DraftRows
  <2>1. \A s : Taken(s)' <=> Taken(s)
    BY PlansStand
  <2> QED BY <2>1 DEF DraftRows
<1>4. CASE run[i].pc = "writing"
  BY <1>1, <1>2, <1>3, <1>4 DEF RunOK, Drafts, Command
<1>5. CASE run[i].pc = "overtaken"
  BY <1>3, <1>5 DEF RunOK, Drafts, Command
<1>6. CASE run[i].pc = "done"
  BY <1>1, <1>2, <1>6 DEF RunOK
<1>7. CASE run[i].pc \notin {"writing", "overtaken", "done"}
  BY <1>7 DEF RunOK
<1> QED BY <1>4, <1>5, <1>6, <1>7

(* The plan an import draws up is all drafts, none of them left out.       *)
LEMMA ImportKeeps == ASSUME ImportInv, NEW i \in Importers, Import(i) PROVE ImportInv'
<1> USE DEF ImportInv, RunsOK
<1>0. history \in Histories /\ history' = history /\ ledger' = ledger
  BY DEF Import, RowsEarned
<1>1. GatewayRows' = GatewayRows /\ Imported' = Imported
  BY <1>0 DEF GatewayRows, Imported
<1>2. \A c : BookedFor(c)' <=> BookedFor(c)
  BY <1>1 DEF BookedFor
<1>3. RowsEarned'
  <2>1. \A s : Taken(s)' <=> Taken(s)
    BY <1>0, <1>1, PlansStand
  <2> QED BY <1>0, <1>1, <2>1 DEF RowsEarned, RowOf
<1>4. PICK before \in Cutoffs : \E account :
         run' = [run EXCEPT ![i] = [pc |-> "writing", account |-> account, before |-> before,
                                    left |-> SetToSeq(PlannedRows(before))]]
  BY DEF Import, Cutoffs
<1>5. DOMAIN run' = Importers /\ \A j \in Importers : j # i => run'[j] = run[j]
  BY <1>4
<1> DEFINE todo == SetToSeq(PlannedRows(before))
<1>6. run'[i].pc = "writing" /\ run'[i].before = before /\ run'[i].left = todo /\ Command(i)'
  BY <1>4 DEF Command
<1>7. todo \in Seq(PlannedRows(before)) /\ \A row \in PlannedRows(before) : \E k \in DOMAIN todo : todo[k] = row
  <2>1. IsFiniteSet(PlannedRows(before))
    BY <1>0, PlansAreDrafts
  <2> QED BY <2>1, LaidOut
<1> HIDE DEF todo
<1>8. todo \in Seq(DraftRows)
  <2>1. PlannedRows(before) \subseteq DraftRows
    BY <1>0, PlansAreDrafts, DraftRowsAre
  <2> QED BY <1>7, <2>1
<1>9. RunOK(i)'
  <2>1. DraftRows' = DraftRows /\ Cutoffs' = Cutoffs /\ PlannedRows(before)' = PlannedRows(before)
    <3>1. \A s : Taken(s)' <=> Taken(s)
      BY <1>0, <1>1, PlansStand
    <3>2. Cutoffs' = Cutoffs /\ PlannedRows(before)' = PlannedRows(before)
      BY <1>0, <1>1, PlansStand
    <3> QED BY <1>0, <3>1, <3>2 DEF DraftRows
  <2> QED BY <1>6, <1>7, <1>8, <2>1 DEF RunOK, Drafts
<1>10. \A j \in Importers : RunOK(j)'
  BY <1>0, <1>1, <1>2, <1>5, <1>9, RunStands
<1> QED BY <1>3, <1>5, <1>10

(* The lesser of two numbers.                                              *)
LEMMA LesserOf == ASSUME NEW a \in Nat, NEW b \in Nat PROVE Min({a, b}) = IF a <= b THEN a ELSE b
  BY DEF Min

(* A batch is the front of what was left; nothing of the plan falls between *)
(* what is written and what is left.                                       *)
LEMMA BatchIs ==
    ASSUME NEW todo, Drafts(todo), NEW n, n = Min({WriteBatch, Len(todo)})
    PROVE  /\ n \in Nat /\ n <= Len(todo) /\ Len(todo) \in Nat /\ (Len(todo) <= WriteBatch => n = Len(todo))
           /\ (Len(todo) > WriteBatch => n = WriteBatch)
           /\ \A k \in 1 .. n : Draft(todo[k])
           /\ Drafts(SubSeq(todo, n + 1, Len(todo)))
           /\ \A k \in DOMAIN todo : (\E q \in 1 .. n : todo[q] = todo[k]) \/
                 \E q \in DOMAIN SubSeq(todo, n + 1, Len(todo)) : SubSeq(todo, n + 1, Len(todo))[q] = todo[k]
<1>1. todo \in Seq(DraftRows) /\ Len(todo) \in Nat /\ DOMAIN todo = 1 .. Len(todo) /\ \A k \in DOMAIN todo : todo[k] \in DraftRows
  BY DEF Drafts
<1>2. WriteBatch \in Nat
  BY ImportAssumption
<1>3. n = IF WriteBatch <= Len(todo) THEN WriteBatch ELSE Len(todo)
  BY <1>1, <1>2, LesserOf
<1>4. n \in Nat /\ n <= Len(todo) /\ (Len(todo) <= WriteBatch => n = Len(todo)) /\ (Len(todo) > WriteBatch => n = WriteBatch)
  BY <1>1, <1>2, <1>3
<1>5. \A k \in 1 .. n : Draft(todo[k])
  BY <1>1, <1>4, DraftRowsAre
<1> DEFINE rest == SubSeq(todo, n + 1, Len(todo))
<1>6. rest \in Seq(DraftRows) /\ Len(rest) = Len(todo) - n /\ \A q \in 1 .. Len(todo) - n : rest[q] = todo[q + n]
  <2>1. \A k \in n + 1 .. Len(todo) : todo[k] \in DraftRows
    BY <1>1, <1>4
  <2>2. n + 1 \in Int /\ Len(todo) \in Int
    BY <1>1, <1>4
  <2> DEFINE m == n + 1
             l == Len(todo)
  <2> HIDE DEF rest, m, l
  <2>3. SubSeq(todo, m, l) \in Seq(DraftRows)
    BY <2>1, <2>2, SubSeqProperties DEF m, l
  <2>4. Len(SubSeq(todo, m, l)) = IF m <= l THEN l - m + 1 ELSE 0
    BY <2>1, <2>2, SubSeqProperties DEF m, l
  <2>5. \A q \in 1 .. l - m + 1 : SubSeq(todo, m, l)[q] = todo[m + q - 1]
    BY <2>1, <2>2, SubSeqProperties DEF m, l
  <2>6. rest = SubSeq(todo, m, l)
    BY DEF rest, m, l
  <2>0. n \in Nat /\ l \in Nat /\ n <= l /\ m = n + 1
    BY <1>1, <1>4 DEF m, l
  <2>7. l - m + 1 = l - n /\ m \in Int /\ l \in Int /\ (m <= l \/ l - n = 0)
    BY <2>0
  <2>10. \A q \in 1 .. l - n : m + q - 1 = q + n
    BY <2>0
  <2>8. Len(rest) = l - n
    BY <2>4, <2>6, <2>7
  <2>9. \A q \in 1 .. l - n : rest[q] = todo[q + n]
    BY <2>5, <2>6, <2>7, <2>10
  <2> QED BY <2>3, <2>6, <2>8, <2>9 DEF l
<1>7. ASSUME NEW k \in DOMAIN todo, ~ \E q \in 1 .. n : todo[q] = todo[k] PROVE \E q \in DOMAIN rest : rest[q] = todo[k]
  <2>1. k \in 1 .. Len(todo) /\ k \notin 1 .. n
    BY <1>1, <1>7
  <2>2. k - n \in 1 .. Len(todo) - n /\ (k - n) + n = k
    BY <1>1, <1>4, <2>1
  <2>3. rest[k - n] = todo[k] /\ k - n \in DOMAIN rest
    <3> HIDE DEF rest
    <3>1. DOMAIN rest = 1 .. Len(rest)
      BY <1>6
    <3> QED BY <1>6, <2>2, <3>1
  <2> QED BY <2>3
<1> QED BY <1>1, <1>4, <1>5, <1>6, <1>7 DEF Drafts

(* A batch written, the rest is left: the rows of both are accounted for.  *)
LEMMA WriteKeeps == ASSUME ImportInv, NEW i \in Importers, WriteOne(i) PROVE ImportInv'
<1> USE DEF ImportInv, RunsOK
<1> DEFINE todo == run[i].left
           n == Min({WriteBatch, Len(todo)})
           batch == {todo[k] : k \in 1 .. n}
           rest == SubSeq(todo, n + 1, Len(todo))
<1>1. run[i].pc = "writing" /\ ledger' = Insert(batch, run[i].account) /\ UNCHANGED history
      /\ run' = [run EXCEPT ![i].left = rest]
  BY DEF WriteOne
<1>2. DOMAIN run' = Importers /\ \A j \in Importers : j # i => run'[j] = run[j]
  BY <1>1
<1>3. run'[i].pc = "writing" /\ run'[i].before = run[i].before /\ run'[i].left = rest /\ Command(i)'
  <2>1. run'[i] = [run[i] EXCEPT !.left = rest]
    BY <1>1
  <2>2. Command(i)
    BY <1>1 DEF RunOK
  <2> HIDE DEF rest
  <2> QED BY <1>1, <2>1, <2>2 DEF Command
<1>4. RunOK(i) /\ Drafts(todo)
  BY <1>1 DEF RunOK
<1> HIDE DEF todo
<1>5. /\ \A k \in 1 .. n : Draft(todo[k])
      /\ Drafts(rest)
      /\ \A k \in DOMAIN todo : (\E q \in 1 .. n : todo[q] = todo[k]) \/ \E q \in DOMAIN rest : rest[q] = todo[k]
  BY <1>4, BatchIs
<1> HIDE DEF n, rest
<1>6. \A row \in batch : Draft(row)
  BY <1>5
<1>7. /\ RowsEarned' /\ GatewayRows' = GatewayRows
      /\ \A c : BookedFor(c) => BookedFor(c)'
      /\ \A row \in batch : BookedFor(row.call)'
  <2> HIDE DEF batch
  <2> QED BY <1>1, <1>6, InsertKeeps
<1>8. /\ \A b : PlannedRows(b)' = PlannedRows(b)
      /\ Cutoffs' = Cutoffs
      /\ DraftRows' = DraftRows
  <2>1. \A s : Taken(s)' <=> Taken(s)
    BY <1>1, <1>7, PlansStand
  <2>2. (\A b : PlannedRows(b)' = PlannedRows(b)) /\ Cutoffs' = Cutoffs
    BY <1>1, <1>7, PlansStand
  <2> QED BY <1>1, <2>1, <2>2 DEF DraftRows
<1>9. ASSUME NEW row \in PlannedRows(run[i].before)
      PROVE  BookedFor(row.call)' \/ \E k \in DOMAIN rest : rest[k] = row
  <2>1. BookedFor(row.call) \/ \E k \in DOMAIN todo : todo[k] = row
    BY <1>1, <1>4, <1>9 DEF RunOK, todo
  <2>2. CASE BookedFor(row.call)
    BY <1>7, <2>2
  <2>3. CASE \E k \in DOMAIN todo : todo[k] = row
    <3>1. (\E q \in 1 .. n : todo[q] = row) \/ \E q \in DOMAIN rest : rest[q] = row
      BY <1>5, <2>3
    <3>2. row \in batch \/ \E q \in DOMAIN rest : rest[q] = row
      BY <3>1
    <3> QED BY <1>7, <3>2
  <2> QED BY <2>1, <2>2, <2>3
<1>10. RunOK(i)'
  <2>1. run[i].before \in Cutoffs
    BY <1>1, <1>4 DEF RunOK
  <2> QED BY <1>3, <1>5, <1>8, <1>9, <2>1 DEF RunOK, Drafts
<1>11. \A j \in Importers : RunOK(j)'
  BY <1>1, <1>2, <1>7, <1>10, RunStands
<1> QED BY <1>2, <1>7, <1>11

(* An overtaken import writes drafts too.                                  *)
LEMMA OvertakenKeeps == ASSUME ImportInv, NEW i \in Importers, WriteOvertaken(i) PROVE ImportInv'
<1> USE DEF ImportInv, RunsOK
<1> DEFINE todo == run[i].left
           n == Min({WriteBatch, Len(todo)})
           batch == {todo[k] : k \in 1 .. n}
           rest == SubSeq(todo, WriteBatch + 1, Len(todo))
<1>1. run[i].pc = "overtaken" /\ ledger' = Insert(batch, run[i].account) /\ UNCHANGED history
      /\ run' = [run EXCEPT ![i] = IF Len(todo) <= WriteBatch THEN [pc |-> "idle"] ELSE [run[i] EXCEPT !.left = rest]]
  BY DEF WriteOvertaken
<1>2. DOMAIN run' = Importers /\ \A j \in Importers : j # i => run'[j] = run[j]
  BY <1>1
<1>3. IF Len(todo) <= WriteBatch THEN run'[i].pc = "idle"
      ELSE run'[i].pc = "overtaken" /\ run'[i].left = rest /\ Command(i)'
  <2>1. run'[i] = IF Len(todo) <= WriteBatch THEN [pc |-> "idle"] ELSE [run[i] EXCEPT !.left = rest]
    BY <1>1
  <2>2. Command(i)
    BY <1>1 DEF RunOK
  <2> HIDE DEF rest
  <2> QED BY <1>1, <2>1, <2>2 DEF Command
<1>4. Drafts(todo)
  BY <1>1 DEF RunOK
<1> HIDE DEF todo
<1>5. /\ \A k \in 1 .. n : Draft(todo[k])
      /\ Drafts(SubSeq(todo, n + 1, Len(todo)))
      /\ Len(todo) \in Nat /\ (Len(todo) > WriteBatch => n = WriteBatch)
  BY <1>4, BatchIs
<1> HIDE DEF n
<1>6. \A row \in batch : Draft(row)
  BY <1>5
<1>7. /\ RowsEarned' /\ GatewayRows' = GatewayRows
      /\ \A c : BookedFor(c) => BookedFor(c)'
  <2> HIDE DEF batch
  <2> QED BY <1>1, <1>6, InsertKeeps
<1>8. DraftRows' = DraftRows
  <2>1. \A s : Taken(s)' <=> Taken(s)
    BY <1>1, <1>7, PlansStand
  <2> QED BY <1>1, <2>1 DEF DraftRows
<1>9. RunOK(i)'
  <2>1. CASE Len(todo) <= WriteBatch
    BY <1>3, <2>1 DEF RunOK
  <2>2. CASE ~ (Len(todo) <= WriteBatch)
    <3>1. n = WriteBatch
      BY <1>5, <2>2, ImportAssumption
    <3>2. rest \in Seq(DraftRows)
      BY <1>5, <3>1 DEF Drafts
    <3> HIDE DEF rest
    <3> QED BY <1>3, <1>8, <2>2, <3>2 DEF RunOK, Drafts
  <2> QED BY <2>1, <2>2
<1>10. \A j \in Importers : RunOK(j)'
  BY <1>1, <1>2, <1>7, <1>9, RunStands
<1> QED BY <1>2, <1>7, <1>10

(* A finished import has nothing left, and one that dies leaves its rows.  *)
LEMMA EndKeeps == ASSUME ImportInv, NEW i \in Importers, Finish(i) \/ Dies(i) PROVE ImportInv'
<1> USE DEF ImportInv, RunsOK
<1>0. history' = history /\ ledger' = ledger /\ run[i].pc = "writing" /\ RunOK(i)
  BY DEF Finish, Dies
<1>1. GatewayRows' = GatewayRows /\ Imported' = Imported
  BY <1>0 DEF GatewayRows, Imported
<1>2. \A c : BookedFor(c)' <=> BookedFor(c)
  BY <1>1 DEF BookedFor
<1>3. RowsEarned'
  <2>1. \A s : Taken(s)' <=> Taken(s)
    BY <1>0, <1>1, PlansStand
  <2> QED BY <1>0, <1>1, <2>1 DEF RowsEarned, RowOf
<1>4. DOMAIN run' = Importers /\ \A j \in Importers : j # i => run'[j] = run[j]
  BY DEF Finish, Dies
<1>5. RunOK(i)'
  <2>1. CASE Dies(i)
    BY <2>1 DEF Dies, RunOK
  <2>2. CASE Finish(i)
    <3>1. run[i].left = <<>> /\ run'[i].pc = "done" /\ run'[i].before = run[i].before
      BY <2>2 DEF Finish
    <3>2. \A row \in PlannedRows(run[i].before) : BookedFor(row.call)
      BY <1>0, <3>1 DEF RunOK
    <3>3. run[i].before \in Cutoffs
      BY <1>0 DEF RunOK
    <3>4. (\A b : PlannedRows(b)' = PlannedRows(b)) /\ Cutoffs' = Cutoffs
      BY <1>0, <1>1, PlansStand
    <3> QED BY <1>2, <3>1, <3>2, <3>3, <3>4 DEF RunOK
  <2> QED BY <2>1, <2>2
<1>6. \A j \in Importers : RunOK(j)'
  BY <1>0, <1>1, <1>2, <1>4, <1>5, RunStands
<1> QED BY <1>3, <1>4, <1>6

(* A revert takes imported rows only, and what was complete is so no more. *)
LEMMA RevertKeeps == ASSUME ImportInv, Revert PROVE ImportInv'
<1> USE DEF ImportInv, RunsOK
<1>0. history' = history /\ ledger' \subseteq ledger /\ \A r \in ledger : r.origin = "gateway" => r \in ledger'
  BY DEF Revert
<1>1. GatewayRows' = GatewayRows /\ Imported' \subseteq Imported
  BY <1>0 DEF GatewayRows, Imported
<1>2. RowsEarned'
  <2>1. \A s : Taken(s)' <=> Taken(s)
    BY <1>0, <1>1, PlansStand
  <2> QED BY <1>0, <1>1, <2>1 DEF RowsEarned, RowOf
<1>3. DraftRows' = DraftRows
  <2>1. \A s : Taken(s)' <=> Taken(s)
    BY <1>0, <1>1, PlansStand
  <2> QED BY <1>0, <2>1 DEF DraftRows
<1>4. run' = [i \in Importers |-> IF run[i].pc = "done" THEN [pc |-> "idle"]
                                  ELSE IF run[i].pc = "writing" THEN [run[i] EXCEPT !.pc = "overtaken"] ELSE run[i]]
  BY DEF Revert
<1>5. ASSUME NEW i \in Importers PROVE RunOK(i)'
  <2>1. CASE run[i].pc = "done"
    <3>1. run'[i].pc = "idle"
      BY <1>4, <2>1
    <3> QED BY <3>1 DEF RunOK
  <2>2. CASE run[i].pc = "writing"
    <3>1. Drafts(run[i].left)
      BY <2>2 DEF RunOK
    <3>2. run'[i].pc = "overtaken" /\ run'[i].left = run[i].left /\ Command(i)'
      <4>1. Command(i) /\ run'[i] = [run[i] EXCEPT !.pc = "overtaken"]
        BY <1>4, <2>2 DEF RunOK
      <4> QED BY <4>1 DEF Command
    <3> QED BY <1>3, <3>1, <3>2 DEF RunOK, Drafts
  <2>3. CASE run[i].pc \notin {"done", "writing"}
    <3>1. run'[i] = run[i] /\ run[i].pc \in {"idle", "overtaken"}
      BY <1>4, <2>3 DEF RunOK
    <3> QED BY <1>0, <1>1, <3>1, RunStands
  <2> QED BY <2>1, <2>2, <2>3
<1> QED BY <1>2, <1>4, <1>5

(* Every step of the importer keeps the invariant.                         *)
LEMMA ImportStep == ImportInv /\ [ImportNext]_importVars => ImportInv'
<1> SUFFICES ASSUME ImportInv, [ImportNext]_importVars PROVE ImportInv'
  OBVIOUS
<1>1. CASE UNCHANGED importVars
  <2>0. history' = history /\ ledger' = ledger /\ run' = run
    BY <1>1 DEF importVars
  <2>1. GatewayRows' = GatewayRows /\ Imported' = Imported
    BY <2>0 DEF GatewayRows, Imported
  <2>2. \A c : BookedFor(c)' <=> BookedFor(c)
    BY <2>1 DEF BookedFor
  <2>3. RowsEarned'
    <3>1. \A s : Taken(s)' <=> Taken(s)
      BY <2>0, <2>1, PlansStand
    <3> QED BY <2>0, <2>1, <3>1 DEF ImportInv, RowsEarned, RowOf
  <2>4. \A i \in Importers : RunOK(i)'
    BY <2>0, <2>1, <2>2, RunStands DEF ImportInv, RunsOK
  <2> QED BY <2>0, <2>3, <2>4 DEF ImportInv, RunsOK
<1>2. CASE ImportNext
  BY <1>2, ImportKeeps, WriteKeeps, EndKeeps, OvertakenKeeps, RevertKeeps DEF ImportNext
<1> QED BY <1>1, <1>2

(* Before the first import there are the gateway's rows.                   *)
LEMMA ImportStarts == ImportInit => ImportInv
<1> SUFFICES ASSUME ImportInit PROVE ImportInv
  OBVIOUS
<1>1. \A r \in ledger : r.origin = "gateway"
  BY DEF ImportInit, GatewayServed
<1>2. Imported = {} /\ GatewayRows = ledger
  BY <1>1 DEF Imported, GatewayRows
<1>3. RowsEarned
  BY <1>2 DEF RowsEarned, ImportInit
<1>4. RunsOK
  BY DEF RunsOK, RunOK, ImportInit
<1> QED BY <1>3, <1>4 DEF ImportInv

(* A session that was taken showed no sign of the gateway: every message   *)
(* of Claude Code's is of a native model and none that is large has a      *)
(* gateway row; a Grok session has no gateway row near it.                 *)
LEMMA TakenIsDirect ==
    ASSUME RowsEarned, NEW s, Taken(s), NEW m \in Messages(history.lines, s)
    PROVE  /\ m.native \/ history.source = "grok"
           /\ m.via = "gateway" /\ m.metered => ~ Recognisable(m) \/ s \notin Sessions(history.lines)
<1> DEFINE M == Messages(history.lines, s)
           w == WindowOf(M)
<1>0. history \in Histories /\ Sayable(history)
  BY ImportAssumption DEF RowsEarned
<1>1. PICK b \in Cutoffs : Judge(history.source, M, b) = "import"
  BY DEF Taken
<1>2. w.from \in Int /\ w.to \in Int /\ \A d \in M : Near(w, d.at)
  BY <1>0, WindowHolds
<1>3. b \in Int
  BY <1>0 DEF Cutoffs, Sayable
<1>4. \A d \in M : d \in history.calls
  BY <1>0, MessageIs DEF Sayable
<1>5. ASSUME NEW d \in M, d.via = "gateway", d.metered
      PROVE  \E r \in GatewayRows : r.shape = d.shape /\ r.provider /\ r.at = d.at
  <2> DEFINE r == [origin |-> "gateway", at |-> d.at, shape |-> d.shape, provider |-> TRUE, call |-> d]
  <2>1. r \in GatewayServed(history)
    BY <1>4, <1>5 DEF GatewayServed
  <2>2. r \in GatewayRows
    BY <2>1 DEF RowsEarned
  <2> QED BY <2>2
<1> HIDE DEF w
<1>6. CASE history.source = "claude"
  <2>1. (\A d \in M : d.native) /\ ~ \E d \in M : d.big /\ SeenBetween(d, w)
    <3>1. ~ (w.to >= b) /\ w.to < b
      BY <1>1, <1>2, <1>3, <1>6 DEF Judge, w
    <3> QED BY <1>1, <1>6, <3>1 DEF Judge, w
  <2>2. ASSUME NEW d \in M, d.big, d.via = "gateway", d.metered PROVE FALSE
    BY <1>2, <1>5, <2>1, <2>2 DEF SeenBetween
  <2>3. ASSUME Recognisable(m), s \in Sessions(history.lines) PROVE FALSE
    BY <1>6, <2>2, <2>3 DEF Recognisable
  <2> QED BY <2>1, <2>3
<1>7. CASE history.source = "grok"
  <2>1. ~ ServedBetween(w)
    <3>1. ~ (w.to >= b) /\ w.to < b
      BY <1>1, <1>2, <1>3, <1>7 DEF Judge, w
    <3> QED BY <1>1, <1>7, <3>1 DEF Judge, w
  <2> QED BY <1>2, <1>5, <1>7, <2>1 DEF ServedBetween
<1> QED BY <1>0, <1>6, <1>7 DEF Sayable

(* What a spelling is priced as is the model that answered to it.          *)
LEMMA PricedRight ==
    ASSUME history \in Histories, NEW c \in history.calls
    PROVE  Price(c.slug) \subseteq {c.model}
<1>1. Answering(c.slug) # {} => \E k \in Answering(c.slug) : Catalog[k].id = c.model
  BY ImportAssumption DEF Sayable
<1>2. IsFiniteSet(Answering(c.slug))
  BY ImportAssumption, FS_Subset DEF Answering
<1>3. CASE Cardinality(Answering(c.slug)) = 1
  <2>1. PICK k : Answering(c.slug) = {k}
    BY <1>2, <1>3, FS_Singleton
  <2> QED BY <1>1, <1>3, <2>1 DEF Price
<1>4. CASE Cardinality(Answering(c.slug)) # 1
  BY <1>4 DEF Price
<1> QED BY <1>3, <1>4

(* Every call that went past the gateway is in the ledger once, at its     *)
(* model's price, however often imports are run, cut short or undone.      *)
THEOREM ImportsAreExact == ImportSpec => []ImportsExact
<1>1. ImportInv => ImportsExact
  <2> SUFFICES ASSUME ImportInv PROVE ImportsExact
    OBVIOUS
  <2>0. RowsEarned /\ history \in Histories
    BY DEF ImportInv, RowsEarned
  <2>1. ASSUME NEW r \in Imported
        PROVE  \E s \in Sessions(history.lines) : \E m \in Messages(history.lines, s) : Taken(s) /\ RowOf(r, s, m)
    BY <2>0 DEF RowsEarned
  <2>2. ASSUME NEW r \in Imported, NEW q \in Imported, r.call = q.call PROVE r = q
    <3>1. PICK s \in Sessions(history.lines) : \E m \in Messages(history.lines, s) : RowOf(r, s, m)
      BY <2>1
    <3>2. r.call \in Messages(history.lines, s) /\ r.ref = SourceRef(history.source, s, r.call)
      BY <3>1 DEF RowOf
    <3>3. PICK t \in Sessions(history.lines) : \E m \in Messages(history.lines, t) : RowOf(q, t, m)
      BY <2>1
    <3>4. q.call \in Messages(history.lines, t) /\ q.ref = SourceRef(history.source, t, q.call)
      BY <3>3 DEF RowOf
    <3>5. r.ref = q.ref
      BY <2>0, <2>2, <3>2, <3>4, SameCall
    <3> QED BY <2>0, <3>5 DEF RowsEarned
  <2>3. ASSUME NEW r \in Imported
        PROVE  /\ r.call.via = "gateway" /\ r.call.metered => ~Recognisable(r.call)
               /\ r.call.native \/ history.source = "grok"
               /\ r.listed \subseteq {r.call.model}
    <3>1. PICK s \in Sessions(history.lines) : \E m \in Messages(history.lines, s) : Taken(s) /\ RowOf(r, s, m)
      BY <2>1
    <3>2. r.call \in Messages(history.lines, s) /\ Taken(s) /\ r.listed = Price(r.call.slug)
      BY <3>1 DEF RowOf
    <3>3. r.call \in history.calls
      BY <2>0, <3>2, MessageIs, ImportAssumption DEF Sayable
    <3> QED BY <2>0, <3>2, <3>3, TakenIsDirect, PricedRight
  <2>4. ASSUME NEW i \in Importers, run[i].pc = "done", NEW row \in PlannedRows(run[i].before)
        PROVE  \E r \in Imported : r.call = row.call
    BY <2>4 DEF ImportInv, RunsOK, RunOK, BookedFor
  <2> QED BY <2>2, <2>3, <2>4 DEF ImportsExact, CalledOnce, ImportComplete
<1> QED BY <1>1, ImportStarts, ImportStep, PTL DEF ImportSpec

-----------------------------------------------------------------------------
(***************************************************************************)
(* Reporting periods.  The months of the calendar follow one another       *)
(* without a gap, so every instant has one; counted in shares, the months  *)
(* gone by grow by its month's share with every tick, and what a fee is    *)
(* charged for is the difference between two instants.                     *)
(***************************************************************************)

(* Induction up to a number, the property given as a set.                  *)
LEMMA UpTo ==
    ASSUME NEW n \in Nat, NEW P, 0 \in P, \A k \in 1 .. n : k - 1 \in P => k \in P
    PROVE  \A k \in 0 .. n : k \in P
<1> SUFFICES ASSUME NEW j \in 0 .. n, j \notin P PROVE FALSE
  OBVIOUS
<1> DEFINE T == {k \in 0 .. n : k \notin P}
<1>1. T \subseteq Nat /\ T # {}
  OBVIOUS
<1>2. PICK k \in T : \A m \in T : k <= m
  BY <1>1, LeastNatural
<1>3. k \in 1 .. n /\ k - 1 \in 0 .. n /\ k - 1 \notin T
  BY <1>2
<1> QED BY <1>2, <1>3

(* A function whose every value is given by the one before exists.         *)
Steps(n, V, F) == \A k \in 1 .. n : \A v \in V : F[<<k, v>>] \in V
Stepwise(n, V, b, F, f) == f \in [0 .. n -> V] /\ f[0] = b /\ \A k \in 1 .. n : f[k] = F[<<k, f[k - 1]>>]
LEMMA StepwiseExists ==
    ASSUME NEW n \in Nat, NEW V, NEW b \in V, NEW F, Steps(n, V, F)
    PROVE  \E f : Stepwise(n, V, b, F, f)
<1> USE DEF Steps, Stepwise
<1> DEFINE Good(j, f) == f \in [0 .. j -> V] /\ f[0] = b /\ \A k \in 1 .. j : f[k] = F[<<k, f[k - 1]>>]
           P == {j \in 0 .. n : \E f : Good(j, f)}
<1>1. 0 \in P
  <2> DEFINE f == [x \in 0 .. 0 |-> b]
  <2>1. Good(0, f)
    OBVIOUS
  <2> HIDE DEF f
  <2>2. 0 \in 0 .. n /\ \E g : Good(0, g)
    BY <2>1
  <2> QED BY <2>2
<1>2. ASSUME NEW j \in 1 .. n, j - 1 \in P PROVE j \in P
  <2>1. PICK f : Good(j - 1, f)
    BY <1>2
  <2> DEFINE g == [x \in 0 .. j |-> IF x = j THEN F[<<j, f[j - 1]>>] ELSE f[x]]
  <2>2. f[j - 1] \in V
    BY <2>1
  <2>3. g \in [0 .. j -> V] /\ g[0] = b /\ g[j] = F[<<j, f[j - 1]>>] /\ \A x \in 0 .. j - 1 : g[x] = f[x]
    BY <2>1, <2>2
  <2> HIDE DEF g
  <2>4. ASSUME NEW k \in 1 .. j PROVE g[k] = F[<<k, g[k - 1]>>]
    <3>1. CASE k = j
      BY <2>3, <3>1
    <3>2. CASE k # j
      <4>1. k \in 1 .. j - 1 /\ k \in 0 .. j - 1 /\ k - 1 \in 0 .. j - 1
        BY <3>2
      <4>2. f[k] = F[<<k, f[k - 1]>>]
        BY <2>1, <4>1
      <4> QED BY <2>3, <4>1, <4>2
    <3> QED BY <3>1, <3>2
  <2>5. Good(j, g)
    BY <2>3, <2>4
  <2> QED BY <2>5
<1>3. n \in P
  <2> HIDE DEF P
  <2> QED BY <1>1, <1>2, UpTo
<1> QED BY <1>3

(* The months of the calendar: each has days, and starts where the one     *)
(* before it ends.                                                         *)
LEMMA MonthsAre ==
    /\ MonthsInYear \in Nat \ {0} /\ LastMonth \in Nat
    /\ \A m \in Nat : (m % MonthsInYear) + 1 \in DOMAIN Days /\ DaysOf(m) \in Nat \ {0}
<1>1. MonthsInYear \in Nat \ {0} /\ DOMAIN Days = 1 .. MonthsInYear /\ \A k \in DOMAIN Days : Days[k] \in Nat \ {0}
  BY PeriodAssumption DEF MonthsInYear
<1>2. Years * MonthsInYear \in Nat \ {0}
  BY <1>1, PeriodAssumption
<1>3. ASSUME NEW m \in Nat PROVE (m % MonthsInYear) + 1 \in DOMAIN Days /\ DaysOf(m) \in Nat \ {0}
  <2>1. m % MonthsInYear \in 0 .. MonthsInYear - 1
    BY <1>1
  <2>2. (m % MonthsInYear) + 1 \in DOMAIN Days
    BY <1>1, <2>1
  <2> QED BY <1>1, <2>2 DEF DaysOf
<1> QED BY <1>1, <1>2, <1>3 DEF LastMonth

LEMMA FirstDaysAre ==
    /\ FirstDay \in [0 .. LastMonth + 1 -> Nat] /\ FirstDay[0] = 0
    /\ \A m \in 0 .. LastMonth : FirstDay[m + 1] = FirstDay[m] + DaysOf(m)
<1> DEFINE n == LastMonth + 1
           F == [kv \in (1 .. n) \X Nat |-> kv[2] + DaysOf(kv[1] - 1)]
<1>0. n \in Nat /\ LastMonth \in Nat
  BY MonthsAre
<1>1. \A k \in 1 .. n : \A v \in Nat : F[<<k, v>>] \in Nat /\ F[<<k, v>>] = v + DaysOf(k - 1)
  <2> SUFFICES ASSUME NEW k \in 1 .. n, NEW v \in Nat PROVE F[<<k, v>>] \in Nat /\ F[<<k, v>>] = v + DaysOf(k - 1)
    OBVIOUS
  <2>1. k - 1 \in Nat
    BY <1>0
  <2>2. DaysOf(k - 1) \in Nat
    BY <2>1, MonthsAre
  <2> QED BY <2>2
<1> HIDE DEF F, n
<1>2. PICK f \in [0 .. n -> Nat] : f[0] = 0 /\ \A k \in 1 .. n : f[k] = F[<<k, f[k - 1]>>]
  <2>1. Steps(n, Nat, F)
    BY <1>1 DEF Steps
  <2>2. 0 \in Nat
    OBVIOUS
  <2>3. n \in Nat
    BY <1>0
  <2>4. \E f : Stepwise(n, Nat, 0, F, f)
    BY <2>1, <2>2, <2>3, StepwiseExists
  <2> QED BY <2>4 DEF Stepwise
<1>3. f = [m \in 0 .. n |-> IF m = 0 THEN 0 ELSE f[m - 1] + DaysOf(m - 1)]
  <2>1. ASSUME NEW m \in 0 .. n PROVE f[m] = IF m = 0 THEN 0 ELSE f[m - 1] + DaysOf(m - 1)
    <3>1. CASE m # 0
      <4>1. m \in 1 .. n /\ f[m - 1] \in Nat
        BY <1>0, <1>2, <3>1
      <4> QED BY <1>1, <1>2, <3>1, <4>1
    <3> QED BY <1>2, <3>1
  <2> QED BY <1>2, <2>1
<1>4. FirstDay = [m \in 0 .. n |-> IF m = 0 THEN 0 ELSE FirstDay[m - 1] + DaysOf(m - 1)]
  BY <1>3 DEF FirstDay, n
<1>5. FirstDay[0] = 0 /\ \A m \in 1 .. n : FirstDay[m] = FirstDay[m - 1] + DaysOf(m - 1)
  BY <1>0, <1>4
<1>6. \A m \in 0 .. n : FirstDay[m] \in Nat
  <2> DEFINE P == {m \in 0 .. n : FirstDay[m] \in Nat}
  <2>1. 0 \in P
    BY <1>0, <1>5
  <2>2. ASSUME NEW m \in 1 .. n, m - 1 \in P PROVE m \in P
    <3>0. m - 1 \in Nat
      BY <1>0
    <3>1. DaysOf(m - 1) \in Nat
      BY <3>0, MonthsAre
    <3>2. FirstDay[m] = FirstDay[m - 1] + DaysOf(m - 1) /\ FirstDay[m - 1] \in Nat
      BY <1>5, <2>2
    <3> QED BY <1>0, <3>1, <3>2
  <2>3. \A m \in 0 .. n : m \in P
    <3> HIDE DEF P
    <3> QED BY <1>0, <2>1, <2>2, UpTo
  <2> QED BY <2>3
<1>7. \A m \in 0 .. LastMonth : FirstDay[m + 1] = FirstDay[m] + DaysOf(m)
  <2> SUFFICES ASSUME NEW m \in 0 .. LastMonth PROVE FirstDay[m + 1] = FirstDay[m] + DaysOf(m)
    OBVIOUS
  <2>1. m + 1 \in 1 .. n /\ (m + 1) - 1 = m
    BY <1>0 DEF n
  <2> QED BY <1>5, <2>1
<1>8. FirstDay \in [0 .. n -> Nat]
  BY <1>4, <1>6
<1> QED BY <1>5, <1>7, <1>8 DEF n

(* The ticks of a month.                                                   *)
Ticks(m) == DaysOf(m) * DayTicks

LEMMA StartsAre ==
    ASSUME NEW z \in Int
    PROVE  /\ \A m \in 0 .. LastMonth + 1 : MonthStartAt(m, z) \in Int
           /\ MonthStartAt(0, z) = -z
           /\ \A m \in 0 .. LastMonth :
                 Ticks(m) \in Nat \ {0} /\ MonthStartAt(m + 1, z) = MonthStartAt(m, z) + Ticks(m)
           /\ \A i, j \in 0 .. LastMonth + 1 : i <= j => MonthStartAt(i, z) <= MonthStartAt(j, z)
<1>0. LastMonth \in Nat /\ DayTicks \in Nat \ {0}
  BY MonthsAre, PeriodAssumption
<1>1. ASSUME NEW m \in 0 .. LastMonth + 1 PROVE MonthStartAt(m, z) \in Int
  <2>1. FirstDay[m] \in Nat
    BY FirstDaysAre
  <2> QED BY <1>0, <2>1 DEF MonthStartAt, Midnight
<1>2. MonthStartAt(0, z) = -z
  BY <1>0, FirstDaysAre DEF MonthStartAt, Midnight
<1>3. ASSUME NEW m \in 0 .. LastMonth
      PROVE  Ticks(m) \in Nat \ {0} /\ MonthStartAt(m + 1, z) = MonthStartAt(m, z) + Ticks(m)
  <2>0. m \in Nat /\ m \in 0 .. LastMonth + 1
    BY <1>0
  <2>1. FirstDay[m] \in Nat /\ DaysOf(m) \in Nat \ {0} /\ FirstDay[m + 1] = FirstDay[m] + DaysOf(m)
    BY <2>0, FirstDaysAre, MonthsAre
  <2> DEFINE a == FirstDay[m]
             d == DaysOf(m)
  <2>2. a \in Int /\ d \in Nat \ {0}
    BY <2>1
  <2> HIDE DEF a, d
  <2>3. (a + d) * DayTicks = a * DayTicks + d * DayTicks /\ d * DayTicks \in Nat \ {0} /\ a * DayTicks \in Int
    BY <1>0, <2>2
  <2>4. MonthStartAt(m + 1, z) = (a + d) * DayTicks - z /\ MonthStartAt(m, z) = a * DayTicks - z /\ Ticks(m) = d * DayTicks
    BY <2>1 DEF MonthStartAt, Midnight, Ticks, a, d
  <2> QED BY <2>3, <2>4
<1>4. ASSUME NEW i \in 0 .. LastMonth + 1, NEW j \in 0 .. LastMonth + 1, i <= j
      PROVE  MonthStartAt(i, z) <= MonthStartAt(j, z)
  <2> DEFINE P == {k \in Nat : i + k <= LastMonth + 1 => MonthStartAt(i, z) <= MonthStartAt(i + k, z)}
             n == LastMonth + 1 - i
  <2>0. n \in Nat
    BY <1>0
  <2>1. 0 \in P
    BY <1>1
  <2>2. ASSUME NEW k \in 1 .. n, k - 1 \in P PROVE k \in P
    <3>1. i + (k - 1) \in 0 .. LastMonth /\ i + (k - 1) \in 0 .. LastMonth + 1 /\ i + (k - 1) + 1 = i + k
          /\ i + k \in 0 .. LastMonth + 1 /\ i + (k - 1) <= LastMonth + 1 /\ k \in Nat
      BY <1>0
    <3>2. MonthStartAt(i, z) <= MonthStartAt(i + (k - 1), z)
      BY <2>2, <3>1
    <3>3. MonthStartAt(i + k, z) = MonthStartAt(i + (k - 1), z) + Ticks(i + (k - 1)) /\ Ticks(i + (k - 1)) \in Nat
      BY <1>3, <3>1
    <3>4. MonthStartAt(i, z) \in Int /\ MonthStartAt(i + (k - 1), z) \in Int
      BY <1>1, <3>1
    <3>5. MonthStartAt(i, z) <= MonthStartAt(i + k, z)
      BY <3>2, <3>3, <3>4
    <3> QED BY <3>1, <3>5
  <2>3. j - i \in 0 .. n
    BY <1>0, <1>4
  <2>4. j - i \in P
    <3> HIDE DEF P, n
    <3> QED BY <2>0, <2>1, <2>2, <2>3, UpTo
  <2>5. i + (j - i) = j /\ j <= LastMonth + 1
    BY <1>0
  <2> QED BY <2>4, <2>5
<1> QED BY <1>1, <1>2, <1>3, <1>4

(* An instant of the calendar, in an offset.                               *)
Spanned(t, z) == t \in Int /\ MonthStartAt(0, z) <= t /\ t < MonthStartAt(LastMonth + 1, z)

(* It lies in one month.                                                   *)
LEMMA MonthIs ==
    ASSUME NEW z \in Int, NEW t, Spanned(t, z)
    PROVE  /\ LocalMonth(t, z) \in 0 .. LastMonth
           /\ MonthStartAt(LocalMonth(t, z), z) <= t /\ t < MonthStartAt(LocalMonth(t, z) + 1, z)
           /\ \A m \in 0 .. LastMonth :
                 MonthStartAt(m, z) <= t /\ t < MonthStartAt(m + 1, z) => m = LocalMonth(t, z)
<1>0. LastMonth \in Nat /\ t \in Int
  BY MonthsAre DEF Spanned
<1> DEFINE T == {m \in 0 .. LastMonth + 1 : t < MonthStartAt(m, z)}
<1>1. T \subseteq Nat /\ T # {}
  BY <1>0 DEF Spanned
<1>2. PICK n \in T : \A m \in T : n <= m
  BY <1>1, LeastNatural
<1>3. n # 0
  <2>1. MonthStartAt(0, z) \in Int
    BY <1>0, StartsAre
  <2> QED BY <1>0, <1>2, <2>1 DEF Spanned
<1>4. n - 1 \in 0 .. LastMonth /\ (n - 1) + 1 = n /\ n - 1 \notin T /\ n - 1 \in 0 .. LastMonth + 1
  BY <1>0, <1>2, <1>3
<1>5. MonthStartAt(n - 1, z) <= t /\ t < MonthStartAt(n, z)
  <2>1. MonthStartAt(n - 1, z) \in Int
    BY <1>4, StartsAre
  <2> QED BY <1>0, <1>2, <1>4, <2>1
<1>6. LocalMonth(t, z) \in 0 .. LastMonth
      /\ MonthStartAt(LocalMonth(t, z), z) <= t /\ t < MonthStartAt(LocalMonth(t, z) + 1, z)
  <2>1. \E m \in 0 .. LastMonth : MonthStartAt(m, z) <= t /\ t < MonthStartAt(m + 1, z)
    BY <1>4, <1>5
  <2> QED BY <2>1 DEF LocalMonth
<1> DEFINE k == LocalMonth(t, z)
<1> HIDE DEF k
<1>7. ASSUME NEW m \in 0 .. LastMonth, MonthStartAt(m, z) <= t, t < MonthStartAt(m + 1, z) PROVE m = k
  <2>0. k \in 0 .. LastMonth /\ MonthStartAt(k, z) <= t /\ t < MonthStartAt(k + 1, z)
    BY <1>6 DEF k
  <2>1. m \in 0 .. LastMonth + 1 /\ m + 1 \in 0 .. LastMonth + 1 /\ k \in 0 .. LastMonth + 1 /\ k + 1 \in 0 .. LastMonth + 1
    BY <1>0, <2>0
  <2>2. /\ MonthStartAt(m, z) \in Int /\ MonthStartAt(m + 1, z) \in Int
        /\ MonthStartAt(k, z) \in Int /\ MonthStartAt(k + 1, z) \in Int
    BY <2>1, StartsAre
  <2>3. ~ (m + 1 <= k)
    <3> SUFFICES ASSUME m + 1 <= k PROVE FALSE
      OBVIOUS
    <3>1. MonthStartAt(m + 1, z) <= MonthStartAt(k, z)
      BY <2>1, StartsAre
    <3> QED BY <1>0, <1>7, <2>0, <2>2, <3>1
  <2>4. ~ (k + 1 <= m)
    <3> SUFFICES ASSUME k + 1 <= m PROVE FALSE
      OBVIOUS
    <3>1. MonthStartAt(k + 1, z) <= MonthStartAt(m, z)
      BY <2>1, StartsAre
    <3> QED BY <1>0, <1>7, <2>0, <2>2, <3>1
  <2> QED BY <1>0, <2>0, <2>3, <2>4
<1> QED BY <1>6, <1>7 DEF k

(* What each month's ticks are a part of.                                  *)
LEMMA WholeIs ==
    /\ Whole \in Nat \ {0}
    /\ \A k \in DOMAIN Days : \E q \in Nat : Whole = q * (Days[k] * DayTicks)
<1> DEFINE n == MonthsInYear
           V == Nat \ {0}
           F == [kv \in (1 .. n) \X V |-> Days[kv[1]] * DayTicks * kv[2]]
<1>0. n \in Nat \ {0} /\ DOMAIN Days = 1 .. n /\ DayTicks \in Nat \ {0} /\ \A k \in 1 .. n : Days[k] \in Nat \ {0}
  BY PeriodAssumption DEF MonthsInYear
<1>1. \A k \in 1 .. n : \A v \in V : F[<<k, v>>] \in V /\ F[<<k, v>>] = Days[k] * DayTicks * v
  <2> SUFFICES ASSUME NEW k \in 1 .. n, NEW v \in V PROVE F[<<k, v>>] \in V /\ F[<<k, v>>] = Days[k] * DayTicks * v
    OBVIOUS
  <2>1. F[<<k, v>>] = Days[k] * DayTicks * v
    OBVIOUS
  <2>2. Days[k] * DayTicks \in Nat \ {0}
    BY <1>0
  <2>3. Days[k] * DayTicks * v \in Nat \ {0}
    BY <2>2
  <2> QED BY <2>1, <2>3
<1> HIDE DEF F, n
<1>2. PICK f \in [0 .. n -> V] : f[0] = 1 /\ \A k \in 1 .. n : f[k] = F[<<k, f[k - 1]>>]
  <2>1. Steps(n, V, F)
    BY <1>1 DEF Steps
  <2>2. 1 \in V
    OBVIOUS
  <2>3. n \in Nat
    BY <1>0
  <2> HIDE DEF V
  <2>4. \E f : Stepwise(n, V, 1, F, f)
    BY <2>1, <2>2, <2>3, StepwiseExists
  <2> QED BY <2>4 DEF Stepwise
<1>3. f = [k \in 0 .. n |-> IF k = 0 THEN 1 ELSE Days[k] * DayTicks * f[k - 1]]
  <2>1. ASSUME NEW k \in 0 .. n PROVE f[k] = IF k = 0 THEN 1 ELSE Days[k] * DayTicks * f[k - 1]
    <3>1. CASE k # 0
      <4>1. k \in 1 .. n /\ f[k - 1] \in V
        BY <1>0, <1>2, <3>1
      <4> QED BY <1>1, <1>2, <3>1, <4>1
    <3> QED BY <1>2, <3>1
  <2> QED BY <1>2, <2>1
<1>4. Shares = [k \in 0 .. n |-> IF k = 0 THEN 1 ELSE Days[k] * DayTicks * Shares[k - 1]]
  BY <1>3 DEF Shares, n
<1>5. Shares[0] = 1 /\ \A k \in 1 .. n : Shares[k] = Days[k] * DayTicks * Shares[k - 1]
  BY <1>0, <1>4
<1> DEFINE P == {j \in 0 .. n : Shares[j] \in Nat \ {0} /\ \A k \in 1 .. j : \E q \in Nat : Shares[j] = q * (Days[k] * DayTicks)}
<1>6. 0 \in P
  BY <1>0, <1>5
<1>7. ASSUME NEW j \in 1 .. n, j - 1 \in P PROVE j \in P
  <2> DEFINE s == Shares[j - 1]
             d == Days[j] * DayTicks
  <2>1. s \in Nat \ {0} /\ \A k \in 1 .. j - 1 : \E q \in Nat : s = q * (Days[k] * DayTicks)
    BY <1>7
  <2>2. d \in Nat \ {0} /\ Shares[j] = d * s
    BY <1>0, <1>5
  <2> HIDE DEF s, d
  <2>3. Shares[j] \in Nat \ {0}
    BY <2>1, <2>2
  <2>4. ASSUME NEW k \in 1 .. j PROVE \E q \in Nat : Shares[j] = q * (Days[k] * DayTicks)
    <3>1. CASE k = j
      <4>1. Shares[j] = s * (Days[k] * DayTicks)
        BY <2>1, <2>2, <3>1 DEF d
      <4> QED BY <2>1, <4>1
    <3>2. CASE k # j
      <4>1. k \in 1 .. j - 1
        BY <3>2
      <4>2. PICK q \in Nat : s = q * (Days[k] * DayTicks)
        BY <2>1, <4>1
      <4> DEFINE e == Days[k] * DayTicks
      <4>3. e \in Nat
        BY <1>0
      <4>4. s = q * e
        BY <4>2
      <4> HIDE DEF e
      <4>5. d * s = (d * q) * e /\ d * q \in Nat
        BY <2>2, <4>3, <4>4
      <4> QED BY <2>2, <4>5 DEF e
    <3> QED BY <3>1, <3>2
  <2> QED BY <2>3, <2>4
<1>8. n \in P
  <2> HIDE DEF P
  <2>1. n \in Nat /\ n \in 0 .. n
    BY <1>0
  <2> QED BY <1>6, <1>7, <2>1, UpTo
<1> QED BY <1>0, <1>8 DEF Whole, n

(* What a tick of the month is worth.                                      *)
Share(m) == Whole \div Ticks(m)

LEMMA ShareIs ==
    ASSUME NEW m \in 0 .. LastMonth
    PROVE  Share(m) \in Nat /\ Whole = Share(m) * Ticks(m) /\ Ticks(m) \in Nat \ {0}
<1>0. m \in Nat
  BY MonthsAre
<1>1. (m % MonthsInYear) + 1 \in DOMAIN Days /\ Ticks(m) = Days[(m % MonthsInYear) + 1] * DayTicks
  BY <1>0, MonthsAre DEF Ticks, DaysOf
<1>2. PICK q \in Nat : Whole = q * Ticks(m)
  BY <1>1, WholeIs
<1>3. Ticks(m) \in Nat \ {0}
  BY StartsAre
<1>4. (q * Ticks(m)) \div Ticks(m) = q
  <2> DEFINE d == Ticks(m)
  <2>1. d \in Nat \ {0}
    BY <1>3
  <2> HIDE DEF d
  <2>2. (q * d) \div d = q
    BY <2>1
  <2> QED BY <2>2 DEF d
<1> QED BY <1>2, <1>3, <1>4 DEF Share

(* How much of its month has gone by at an instant.                        *)
LEMMA ElapsedIs ==
    ASSUME zone \in Int, NEW t, Spanned(t, zone)
    PROVE  Elapsed(t) = (t - MonthStartAt(LocalMonth(t, zone), zone)) * Share(LocalMonth(t, zone))
<1> DEFINE m == LocalMonth(t, zone)
           x == t - MonthStartAt(m, zone)
           q == Share(m)
           d == Ticks(m)
<1>1. m \in 0 .. LastMonth /\ m \in 0 .. LastMonth + 1
  BY MonthIs, MonthsAre
<1>2. q \in Nat /\ Whole = q * d /\ d \in Nat \ {0}
  <2> HIDE DEF m
  <2> QED BY <1>1, ShareIs
<1>3. x \in Int
  <2>1. MonthStartAt(m, zone) \in Int
    <3> HIDE DEF m
    <3> QED BY <1>1, StartsAre
  <2>2. t \in Int
    BY DEF Spanned
  <2> QED BY <2>1, <2>2
<1>4. Elapsed(t) = (x * Whole) \div d
  BY DEF Elapsed, Ticks
<1> HIDE DEF m, x, q, d
<1>5. x * (q * d) = (x * q) * d /\ x * q \in Int
  BY <1>2, <1>3
<1>6. ((x * q) * d) \div d = x * q
  <2> DEFINE y == x * q
  <2>1. y \in Int
    BY <1>5
  <2> HIDE DEF y
  <2>2. (y * d) \div d = y
    BY <1>2, <2>1
  <2> QED BY <2>2 DEF y
<1> QED BY <1>2, <1>4, <1>5, <1>6 DEF m, x, q

(* The months gone by since the calendar began, in shares.                 *)
Gone(t) == LocalMonth(t, zone) * Whole + Elapsed(t)

(* A tick adds its month's share, at a month's end too.                    *)
LEMMA TickAdds ==
    ASSUME zone \in Int, NEW t, NEW u, u = t + 1, Spanned(t, zone), Spanned(u, zone)
    PROVE  Gone(t) \in Int /\ Gone(u) \in Int /\ Gone(u) = Gone(t) + Share(LocalMonth(t, zone))
<1> DEFINE m == LocalMonth(t, zone)
           n == LocalMonth(u, zone)
           S(k) == MonthStartAt(k, zone)
           q == Share(m)
           d == Ticks(m)
<1>0. t \in Int /\ u \in Int /\ u = t + 1 /\ LastMonth \in Nat
  BY MonthsAre DEF Spanned
<1>1. /\ m \in 0 .. LastMonth /\ S(m) <= t /\ t < S(m + 1)
      /\ n \in 0 .. LastMonth /\ S(n) <= u /\ u < S(n + 1)
      /\ \A k \in 0 .. LastMonth : S(k) <= u /\ u < S(k + 1) => k = n
  BY MonthIs
<1>2. Elapsed(t) = (t - S(m)) * q /\ Elapsed(u) = (u - S(n)) * Share(n)
  BY ElapsedIs
<1>3. Gone(t) = m * Whole + (t - S(m)) * q /\ Gone(u) = n * Whole + (u - S(n)) * Share(n)
  BY <1>2 DEF Gone
<1>x. Share(LocalMonth(t, zone)) = q
  OBVIOUS
<1> HIDE DEF m, n
<1>4. q \in Nat /\ Whole = q * d /\ d \in Nat \ {0} /\ Share(n) \in Nat /\ Whole \in Nat
  BY <1>1, ShareIs, WholeIs
<1>5. m \in Int /\ n \in Int /\ S(m) \in Int /\ S(n) \in Int /\ S(m + 1) = S(m) + d
  BY <1>0, <1>1, StartsAre
<1> HIDE DEF q, d, S
<1>6. Gone(t) \in Int /\ Gone(u) \in Int
  BY <1>0, <1>3, <1>4, <1>5
<1>7. CASE u < S(m + 1)
  <2>1. n = m
    BY <1>0, <1>1, <1>5, <1>7
  <2>2. Share(n) = q /\ S(n) = S(m)
    BY <2>1 DEF q
  <2> DEFINE x == t - S(m)
  <2>3. x \in Int /\ u - S(m) = x + 1
    BY <1>0, <1>5
  <2>4. (x + 1) * q = x * q + q
    BY <1>4, <2>3
  <2>5. Gone(t) = m * Whole + x * q /\ Gone(u) = m * Whole + (x + 1) * q
    BY <1>3, <2>1, <2>2, <2>3
  <2> HIDE DEF x
  <2>6. Gone(u) = Gone(t) + q
    BY <1>4, <1>5, <2>3, <2>4, <2>5
  <2> QED BY <1>x, <1>6, <2>6
<1>8. CASE ~ (u < S(m + 1))
  <2>1. u = S(m + 1) /\ t - S(m) = d - 1
    BY <1>0, <1>1, <1>4, <1>5, <1>8
  <2>2. m # LastMonth
    <3>1. u < S(LastMonth + 1)
      BY DEF Spanned, S
    <3> QED BY <1>8, <3>1
  <2>3. m + 1 \in 0 .. LastMonth /\ m + 1 \in 0 .. LastMonth + 1
    BY <1>0, <1>1, <2>2
  <2>4. u < S(m + 1 + 1)
    <3>1. S(m + 1 + 1) = S(m + 1) + Ticks(m + 1) /\ Ticks(m + 1) \in Nat \ {0}
      BY <2>3, StartsAre DEF S
    <3> QED BY <1>0, <2>1, <3>1
  <2>5. n = m + 1
    BY <1>0, <1>1, <2>1, <2>3, <2>4
  <2>6. u - S(n) = 0
    BY <1>0, <2>1, <2>5
  <2>7. Gone(u) = (m + 1) * Whole
    <3>1. 0 * Share(n) = 0
      BY <1>4
    <3>2. n * Whole = (m + 1) * Whole /\ (m + 1) * Whole \in Int
      BY <1>4, <1>5, <2>5
    <3> QED BY <1>3, <2>6, <3>1, <3>2
  <2>8. (d - 1) * q = Whole - q
    BY <1>4
  <2>9. (m + 1) * Whole = m * Whole + Whole /\ m * Whole \in Int
    BY <1>4, <1>5
  <2>10. Gone(t) = m * Whole + (Whole - q)
    BY <1>3, <2>1, <2>8
  <2>11. Gone(u) = Gone(t) + q
    BY <1>4, <2>7, <2>9, <2>10
  <2> QED BY <1>x, <1>6, <2>11
<1> QED BY <1>7, <1>8

(* What has gone by between two instants is the shares of the ticks        *)
(* between them.                                                           *)
LEMMA TicksAddUp ==
    ASSUME zone \in Int, NEW a \in Int, NEW n \in Nat, Spanned(a, zone), Spanned(a + n, zone),
           NEW f, \A t \in a .. a + n - 1 : f[t] = Share(LocalMonth(t, zone))
    PROVE  SumOver(a .. a + n - 1, f) = Gone(a + n) - Gone(a) /\ Gone(a) \in Int
<1> DEFINE S(k) == a .. a + k - 1
           P == {k \in 0 .. n : Gone(a + k) \in Int /\ SumOver(S(k), f) = Gone(a + k) - Gone(a)}
<1>0. \A k \in 0 .. n : Spanned(a + k, zone)
  <2>1. MonthStartAt(0, zone) \in Int /\ MonthStartAt(LastMonth + 1, zone) \in Int
    BY StartsAre, MonthsAre
  <2> QED BY <2>1 DEF Spanned
<1>1. \A k \in 0 .. n : Gone(a + k) \in Int
  <2> SUFFICES ASSUME NEW k \in 0 .. n PROVE Gone(a + k) \in Int
    OBVIOUS
  <2> DEFINE t == a + k
             m == LocalMonth(t, zone)
             x == t - MonthStartAt(m, zone)
  <2>1. Spanned(t, zone) /\ t \in Int
    BY <1>0
  <2> HIDE DEF t
  <2>2. m \in 0 .. LastMonth /\ m \in 0 .. LastMonth + 1 /\ m \in Int /\ Elapsed(t) = x * Share(m)
    BY <2>1, MonthIs, MonthsAre, ElapsedIs
  <2>3. Gone(t) = m * Whole + x * Share(m)
    BY <2>2 DEF Gone
  <2> HIDE DEF m
  <2>4. Share(m) \in Nat /\ Whole \in Nat /\ x \in Int
    BY <2>1, <2>2, ShareIs, WholeIs, StartsAre
  <2> HIDE DEF x
  <2> QED BY <2>2, <2>3, <2>4 DEF t
<1>2. 0 \in P
  <2>1. S(0) = {} /\ a + 0 = a
    OBVIOUS
  <2>2. SumOver(S(0), f) = 0
    BY <2>1, SumOfNone
  <2>3. Gone(a + 0) \in Int /\ Gone(a) \in Int /\ 0 \in 0 .. n
    BY <1>1, <2>1
  <2> QED BY <2>1, <2>2, <2>3
<1>3. ASSUME NEW k \in 1 .. n, k - 1 \in P PROVE k \in P
  <2> DEFINE t == a + (k - 1)
             u == a + k
  <2>1. k \in 0 .. n /\ k - 1 \in 0 .. n /\ u = t + 1 /\ t \in S(k) /\ S(k) \ {t} = S(k - 1) /\ t \in a .. a + n - 1
    OBVIOUS
  <2>2. Integral(S(k), f)
    <3>1. IsFiniteSet(S(k))
      BY FS_Interval
    <3>2. ASSUME NEW x \in S(k) PROVE f[x] \in Int
      <4> DEFINE j == x - a
      <4>1. j \in 0 .. n /\ a + j = x /\ x \in a .. a + n - 1
        OBVIOUS
      <4>2. Spanned(x, zone)
        BY <1>0, <4>1
      <4>3. LocalMonth(x, zone) \in 0 .. LastMonth
        BY <4>2, MonthIs
      <4> QED BY <4>1, <4>3, ShareIs
    <3> QED BY <3>1, <3>2 DEF Integral
  <2>3. SumOver(S(k), f) = SumOver(S(k - 1), f) + f[t]
    BY <2>1, <2>2, SumAdds
  <2>4. Spanned(t, zone) /\ Spanned(u, zone)
    BY <1>0, <2>1
  <2>5. f[t] = Share(LocalMonth(t, zone))
    BY <2>1
  <2>6. SumOver(S(k - 1), f) = Gone(t) - Gone(a)
    BY <1>3
  <2>7. Gone(u) \in Int /\ Gone(t) \in Int
    BY <1>1, <2>1
  <2>8. Gone(a) \in Int
    <3>1. 0 \in 0 .. n /\ a + 0 = a
      OBVIOUS
    <3> QED BY <1>1, <3>1
  <2> HIDE DEF t, u, S
  <2>9. Gone(u) = Gone(t) + f[t] /\ f[t] \in Int
    <3>1. Gone(u) = Gone(t) + Share(LocalMonth(t, zone))
      BY <2>1, <2>4, TickAdds
    <3>2. Share(LocalMonth(t, zone)) \in Int
      BY <2>4, MonthIs, ShareIs
    <3> QED BY <2>5, <3>1, <3>2
  <2>10. SumOver(S(k), f) = Gone(u) - Gone(a)
    BY <2>3, <2>6, <2>7, <2>8, <2>9
  <2> QED BY <2>1, <2>7, <2>10 DEF u
<1>4. n \in P
  <2> HIDE DEF P
  <2>1. n \in 0 .. n
    OBVIOUS
  <2> QED BY <1>2, <1>3, <2>1, UpTo
<1>5. Gone(a) \in Int
  <2>1. 0 \in 0 .. n /\ a + 0 = a
    OBVIOUS
  <2> QED BY <1>1, <2>1
<1> QED BY <1>4, <1>5

(* Queries are asked at instants of the calendar.                          *)
PeriodInv ==
    /\ zone \in Offsets /\ asked \in Instants /\ created \in SeatTimes
    /\ query \in Queries /\ other \in Queries

LEMMA InstantsSpanned ==
    ASSUME zone \in Offsets, NEW t \in Int, DayTicks <= t, NEW u \in Instants, t <= u
    PROVE  zone \in Int /\ Spanned(t, zone)
<1>0. zone \in Int /\ zone <= DayTicks /\ -DayTicks <= zone /\ DayTicks \in Nat \ {0} /\ LastMonth \in Nat
  BY PeriodAssumption, MonthsAre
<1>1. MonthStartAt(0, zone) = -zone
  BY <1>0, StartsAre
<1> DEFINE all == FirstDay[LastMonth + 1] * DayTicks
<1>2. all \in Int
  <2>1. FirstDay[LastMonth + 1] \in Nat
    BY <1>0, FirstDaysAre
  <2> QED BY <1>0, <2>1
<1>3. MonthStartAt(LastMonth + 1, zone) = all - zone /\ u <= all - DayTicks - 1 /\ u \in Int
  <2>1. u \in DayTicks .. all - DayTicks - 1
    BY DEF Instants
  <2>2. MonthStartAt(LastMonth + 1, zone) = all - zone
    BY DEF MonthStartAt, Midnight
  <2> HIDE DEF all
  <2> QED BY <1>0, <1>2, <2>1, <2>2
<1> HIDE DEF all
<1> QED BY <1>0, <1>1, <1>2, <1>3 DEF Spanned

(* The first month of a year comes no later than a month of it, and the    *)
(* year before, if there is one, is a whole year earlier.                  *)
LEMMA YearStartIs ==
    ASSUME NEW m \in 0 .. LastMonth
    PROVE  YearStart(m) \in 0 .. m /\ (YearStart(m) # 0 => YearStart(m) - MonthsInYear \in 0 .. m)
<1> DEFINE k == MonthsInYear
           q == m \div k
<1>0. m \in Nat /\ k \in Nat \ {0}
  BY MonthsAre
<1> HIDE DEF k
<1>1. q \in Nat /\ q * k <= m /\ q * k \in Nat
  BY <1>0
<1>2. YearStart(m) = q * k
  BY DEF YearStart, k
<1> HIDE DEF q
<1>3. q # 0 => q * k >= k
  BY <1>0, <1>1
<1>4. q = 0 => q * k = 0
  BY <1>0, <1>1
<1> DEFINE y == q * k
<1>5. y \in Nat /\ y <= m /\ (y # 0 => y >= k)
  BY <1>1, <1>3, <1>4
<1> HIDE DEF y
<1>6. y \in 0 .. m /\ (y # 0 => y - k \in 0 .. m)
  BY <1>0, <1>5
<1> QED BY <1>2, <1>6 DEF y, k

(* A named period begins at a month's start no later than the question, or *)
(* at the beginning; every window has whole ticks for its ends.            *)
LEMMA NamedIs ==
    ASSUME PeriodInv, NEW p, NEW w \in Named(p)
    PROVE  w.start \in Int /\ w.start <= asked
<1> DEFINE m == LocalMonth(asked, zone)
           S(k) == MonthStartAt(k, zone)
<1>0. zone \in Int /\ Spanned(asked, zone) /\ asked \in Int /\ DayTicks \in Nat \ {0} /\ DayTicks <= asked
  <2>1. asked \in Int /\ DayTicks <= asked
    <3>1. FirstDay[LastMonth + 1] * DayTicks - DayTicks - 1 \in Int
      <4>1. FirstDay[LastMonth + 1] \in Nat
        BY FirstDaysAre, MonthsAre
      <4> QED BY <4>1, PeriodAssumption
    <3> QED BY <3>1, PeriodAssumption DEF PeriodInv, Instants
  <2> QED BY <2>1, PeriodAssumption, InstantsSpanned DEF PeriodInv
<1>1. m \in 0 .. LastMonth /\ S(m) <= asked /\ LastMonth \in Nat
  BY <1>0, MonthIs, MonthsAre
<1>2. ASSUME NEW k \in 0 .. m PROVE S(k) \in Int /\ S(k) <= asked
  <2> HIDE DEF m
  <2>1. k \in 0 .. LastMonth + 1 /\ m \in 0 .. LastMonth + 1 /\ k <= m
    BY <1>1
  <2>2. S(k) \in Int /\ S(m) \in Int /\ S(k) <= S(m)
    BY <1>0, <2>1, StartsAre
  <2> QED BY <1>0, <1>1, <2>2
<1>3. YearStart(m) \in 0 .. m /\ (YearStart(m) # 0 => YearStart(m) - MonthsInYear \in 0 .. m)
  <2> HIDE DEF m
  <2> QED BY <1>1, YearStartIs
<1>4. m \in 0 .. m /\ (m # 0 => m - 1 \in 0 .. m)
  BY <1>1
<1>5. w.start = Beginning \/ \E k \in 0 .. m : w.start = S(k)
  <2>1. CASE p = "month"
    BY <1>4, <2>1 DEF Named, Window
  <2>2. CASE p = "last-month"
    <3>1. m # 0 /\ w.start = S(m - 1)
      BY <2>2 DEF Named, Window
    <3> QED BY <1>4, <3>1
  <2>3. CASE p = "year"
    <3>1. w.start = S(YearStart(m))
      BY <2>3 DEF Named, Window
    <3> QED BY <1>3, <3>1
  <2>4. CASE p = "last-year"
    <3>1. YearStart(m) # 0 /\ w.start = S(YearStart(m) - MonthsInYear)
      BY <2>4 DEF Named, Window
    <3> QED BY <1>3, <3>1
  <2>5. CASE p = "all"
    BY <2>5 DEF Named, Window
  <2>6. CASE p \notin {"month", "last-month", "year", "last-year", "all"}
    BY <2>6 DEF Named
  <2> QED BY <2>1, <2>2, <2>3, <2>4, <2>5, <2>6
<1>6. Beginning \in Int /\ Beginning <= asked
  BY <1>0 DEF Beginning
<1> QED BY <1>2, <1>5, <1>6

(* What a query gives and what it leaves out.                              *)
LEMMA GivenIs ==
    /\ \A d \in {None} \cup RangeDays : d \in Int /\ (d = None \/ d \in Nat)
    /\ \A d \in LookBacks : d \in Int
    /\ \A d \in Nat : d + 1 # None
  BY PeriodAssumption DEF None

LEMMA QueryIs ==
    ASSUME NEW q \in Queries, q.period = ""
    PROVE  /\ q.from \in Int /\ q.to \in Int /\ q.days \in Int
           /\ (q.from = None \/ q.from \in Nat) /\ (q.to = None \/ q.to \in Nat)
<1>1. q.from \in {None} \cup RangeDays /\ q.to \in {None} \cup RangeDays /\ q.days \in LookBacks
  <2>1. q \in [period : {""}, from : {None} \cup RangeDays, to : {None} \cup RangeDays, days : LookBacks]
    BY DEF Queries
  <2> QED BY <2>1
<1> QED BY <1>1, GivenIs, Zenon

LEMMA ResolvedIs ==
    ASSUME PeriodInv, NEW q \in Queries, NEW w \in Resolve(q)
    PROVE  w.start \in Int /\ (q.period # "" => w.start <= asked)
<1>0. asked \in Int /\ zone \in Int /\ DayTicks \in Int /\ MaxDays \in Int
  <2>1. FirstDay[LastMonth + 1] * DayTicks - DayTicks - 1 \in Int
    <3>1. FirstDay[LastMonth + 1] \in Nat
      BY FirstDaysAre, MonthsAre
    <3> QED BY <3>1, PeriodAssumption
  <2> QED BY <2>1, PeriodAssumption DEF PeriodInv, Instants
<1>1. CASE q.period # ""
  BY <1>1, NamedIs DEF Resolve
<1>2. CASE q.period = ""
  <2>0. q.from \in Int /\ q.to \in Int /\ q.days \in Int
    BY <1>2, QueryIs
  <2>1. CASE q.from # None /\ q.to # None
    <3>1. w \in Custom(q.from, q.to)
      BY <1>2, <2>1 DEF Resolve
    <3>2. w.start = q.from * DayTicks - zone
      BY <3>1 DEF Custom, Window, Midnight
    <3>3. \A d \in Int : d * DayTicks - zone \in Int
      BY <1>0
    <3> QED BY <1>2, <2>0, <3>2, <3>3
  <2>2. CASE (q.from = None) # (q.to = None)
    BY <1>2, <2>2 DEF Resolve
  <2>3. CASE q.from = None /\ q.to = None
    <3>1. w \in RollingBack(q.days)
      BY <1>2, <2>3 DEF Resolve
    <3> DEFINE n == IF q.days < 1 THEN 1 ELSE IF q.days > MaxDays THEN MaxDays ELSE q.days
    <3>2. w.start = asked - n * DayTicks
      BY <3>1 DEF RollingBack, Window
    <3>3. n \in Int
      BY <1>0, <2>0
    <3> HIDE DEF n
    <3>4. asked - n * DayTicks \in Int
      BY <1>0, <3>3
    <3> QED BY <1>2, <3>2, <3>4
  <2> QED BY <2>1, <2>2, <2>3
<1> QED BY <1>1, <1>2

LEMMA PeriodInvMeet == PeriodInv => PeriodsMeet
<1> SUFFICES ASSUME PeriodInv PROVE PeriodsMeet
  OBVIOUS
<1>1. ASSUME Follows(query.period, other.period), NEW v \in Resolve(query), NEW w \in Resolve(other) PROVE v.end = w.start
  <2>1. CASE query.period = "last-month" /\ other.period = "month"
    BY <2>1 DEF Resolve, Named, Window
  <2>2. CASE query.period = "last-year" /\ other.period = "year"
    BY <2>2 DEF Resolve, Named, Window
  <2> QED BY <1>1, <2>1, <2>2 DEF Follows
<1>2. ASSUME query.period = "", other.period = "", query.to # None, query.to + 1 = other.from,
             NEW v \in Resolve(query), NEW w \in Resolve(other)
      PROVE  v.end = w.start
  <2>0. query.to \in Nat
    BY <1>2, QueryIs DEF PeriodInv
  <2>1. query.to \in Nat /\ other.from # None
    BY <1>2, <2>0, GivenIs, Zenon
  <2>2. query.from # None /\ v \in Custom(query.from, query.to)
    BY <1>2, <2>1 DEF Resolve
  <2>3. other.to # None /\ w \in Custom(other.from, other.to)
    BY <1>2, <2>1 DEF Resolve
  <2>4. v.end = Midnight(query.to + 1, zone)
    BY <2>2 DEF Custom, Window
  <2>5. w.start = Midnight(other.from, zone)
    BY <2>3 DEF Custom, Window
  <2> QED BY <1>2, <2>4, <2>5
<1>3. ASSUME NEW w \in Resolve(query), query.period # "" PROVE w.start <= asked
  BY <1>3, ResolvedIs DEF PeriodInv
<1> QED BY <1>1, <1>2, <1>3 DEF PeriodsMeet

LEMMA PeriodInvFair == PeriodInv => FeeIsFair
<1> SUFFICES ASSUME PeriodInv, NEW w \in Resolve(query), w.start >= DayTicks, w.end \in Instants
             PROVE  LET held == {t \in w.start .. w.end - 1 : t >= created}
                        share == [t \in held |-> Whole \div (DaysOf(LocalMonth(t, zone)) * DayTicks)]
                    IN SeatMonths(w) = MapThenSumSet(LAMBDA t : share[t], held)
  BY DEF FeeIsFair
<1> DEFINE held == {t \in w.start .. w.end - 1 : t >= created}
           share == [t \in held |-> Whole \div (DaysOf(LocalMonth(t, zone)) * DayTicks)]
           a == IF w.start > created THEN w.start ELSE created
           e == w.end
<1>0. w.start \in Int /\ created \in Int /\ zone \in Offsets /\ DayTicks \in Nat /\ e \in Int
  <2>1. FirstDay[LastMonth + 1] * DayTicks - DayTicks - 1 \in Int
    <3>1. FirstDay[LastMonth + 1] \in Nat
      BY FirstDaysAre, MonthsAre
    <3> QED BY <3>1, PeriodAssumption
  <2>2. w.start \in Int
    BY ResolvedIs DEF PeriodInv
  <2> QED BY <2>1, <2>2, PeriodAssumption DEF PeriodInv, Instants
<1>1. a \in Int /\ a >= DayTicks /\ held = a .. e - 1
  BY <1>0
<1>2. SeatMonths(w) = CalendarMonths(a, e)
  BY DEF SeatMonths
<1>3. SumOver(held, share) = MapThenSumSet(LAMBDA t : share[t], held)
  BY DEF SumOver
<1>4. \A t \in held : share[t] = Share(LocalMonth(t, zone))
  BY DEF Share, Ticks
<1> HIDE DEF a, held, share
<1>5. CASE e <= a
  <2>1. held = {}
    BY <1>0, <1>1, <1>5
  <2>2. SumOver(held, share) = 0
    BY <2>1, SumOfNone
  <2> QED BY <1>2, <1>3, <1>5, <2>2 DEF CalendarMonths, held, share
<1>6. CASE ~ (e <= a)
  <2> DEFINE n == e - a
  <2>1. n \in Nat /\ a + n = e /\ a <= e /\ e <= e /\ DayTicks <= e
    BY <1>0, <1>1, <1>6
  <2>2. zone \in Int /\ Spanned(a, zone) /\ Spanned(e, zone)
    BY <1>0, <1>1, <2>1, InstantsSpanned
  <2> HIDE DEF n, e
  <2>3. SumOver(held, share) = Gone(e) - Gone(a) /\ Gone(a) \in Int
    <3>1. Spanned(a + n, zone) /\ held = a .. a + n - 1
      BY <1>1, <2>1, <2>2
    <3>2. \A t \in a .. a + n - 1 : share[t] = Share(LocalMonth(t, zone))
      BY <1>4, <3>1
    <3>3. SumOver(a .. a + n - 1, share) = Gone(a + n) - Gone(a) /\ Gone(a) \in Int
      BY <1>1, <2>1, <2>2, <3>1, <3>2, TicksAddUp
    <3> QED BY <2>1, <3>1, <3>3
  <2>4. CalendarMonths(a, e) = (LocalMonth(e, zone) - LocalMonth(a, zone)) * Whole - Elapsed(a) + Elapsed(e)
    BY <1>6 DEF CalendarMonths
  <2> DEFINE i == LocalMonth(a, zone)
             j == LocalMonth(e, zone)
             x == Elapsed(a)
             y == Elapsed(e)
  <2>5. i \in Int /\ j \in Int /\ Whole \in Int
    BY <2>2, MonthIs, MonthsAre, WholeIs
  <2>6. x \in Int /\ y \in Int
    <3> SUFFICES ASSUME NEW t, Spanned(t, zone) PROVE Elapsed(t) \in Int
      BY <2>2
    <3> DEFINE m == LocalMonth(t, zone)
    <3>1. m \in 0 .. LastMonth /\ m \in 0 .. LastMonth + 1 /\ t \in Int /\ Elapsed(t) = (t - MonthStartAt(m, zone)) * Share(m)
      BY <2>2, MonthIs, MonthsAre, ElapsedIs DEF Spanned
    <3> HIDE DEF m
    <3>2. MonthStartAt(m, zone) \in Int /\ Share(m) \in Int
      BY <2>2, <3>1, StartsAre, ShareIs
    <3> QED BY <3>1, <3>2
  <2>7. Gone(e) = j * Whole + y /\ Gone(a) = i * Whole + x
    BY DEF Gone
  <2> HIDE DEF i, j, x, y
  <2>8. CalendarMonths(a, e) = (j - i) * Whole - x + y
    BY <2>4 DEF i, j, x, y
  <2>9. (j - i) * Whole = j * Whole - i * Whole /\ j * Whole \in Int /\ i * Whole \in Int
    BY <2>5
  <2>10. CalendarMonths(a, e) = Gone(e) - Gone(a)
    BY <2>5, <2>6, <2>7, <2>8, <2>9
  <2> QED BY <1>2, <1>3, <2>3, <2>10 DEF held, share
<1> QED BY <1>5, <1>6

(* In any offset, on any calendar, for any seat: a period and the one      *)
(* before it meet, and a flat fee is the shares of the ticks it covers.    *)
THEOREM PeriodsAreFair == PeriodSpec => []PeriodsFair
<1>1. PeriodInit => PeriodInv
  BY DEF PeriodInit, PeriodInv
<1>2. PeriodInv /\ [PeriodNext]_periodVars => PeriodInv'
  BY DEF PeriodInv, PeriodNext, Compare, periodVars, Instants, Queries
<1>3. PeriodInv => PeriodsFair
  BY PeriodInvMeet, PeriodInvFair DEF PeriodsFair
<1> QED BY <1>1, <1>2, <1>3, PTL DEF PeriodSpec

-----------------------------------------------------------------------------
(***************************************************************************)
(* The binary framing.  Where the messages of a line start, and the        *)
(* headers of a message, are sums that grow; so a reader that stands at    *)
(* the start of one and moves by its length stands at the start of the     *)
(* next.                                                                   *)
(***************************************************************************)

(* Induction down from a number, the property given as a set.              *)
LEMMA DownTo ==
    ASSUME NEW lo \in Nat, NEW n \in Nat, NEW P,
           \A p \in lo .. n : (\A q \in p + 1 .. n : q \in P) => p \in P
    PROVE  \A p \in lo .. n : p \in P
<1> SUFFICES ASSUME NEW k \in lo .. n, k \notin P PROVE FALSE
  OBVIOUS
<1> DEFINE T == {j \in 0 .. n - lo : n - j \notin P}
<1>1. T \subseteq Nat /\ n - k \in T
  <2>1. n - (n - k) = k /\ n - k \in 0 .. n - lo
    OBVIOUS
  <2> QED BY <2>1
<1>2. PICK j \in T : \A m \in T : j <= m
  BY <1>1, LeastNatural
<1>3. n - j \in lo .. n /\ n - j \notin P /\ j \in 0 .. n - lo
  BY <1>2
<1>4. ASSUME NEW q \in n - j + 1 .. n PROVE q \in P
  <2>1. n - q \in 0 .. n - lo /\ ~ (j <= n - q) /\ n - (n - q) = q
    BY <1>3
  <2> QED BY <1>2, <2>1
<1> QED BY <1>3, <1>4

LEMMA EndsAre ==
    ASSUME NEW s \in Seq(Nat)
    PROVE  /\ Ends(s) \in [0 .. Len(s) -> Nat] /\ Ends(s)[0] = 0
           /\ \A k \in 1 .. Len(s) : Ends(s)[k] = Ends(s)[k - 1] + s[k]
<1> DEFINE n == Len(s)
           F == [kv \in (1 .. n) \X Nat |-> kv[2] + s[kv[1]]]
           end == CHOOSE f : f = [k \in 0 .. n |-> IF k = 0 THEN 0 ELSE f[k - 1] + s[k]]
<1>0. n \in Nat /\ \A k \in 1 .. n : s[k] \in Nat
  OBVIOUS
<1>1. \A k \in 1 .. n : \A v \in Nat : F[<<k, v>>] \in Nat /\ F[<<k, v>>] = v + s[k]
  BY <1>0
<1>a. Ends(s) = end
  BY DEF Ends
<1> HIDE DEF F, n
<1>2. PICK f \in [0 .. n -> Nat] : f[0] = 0 /\ \A k \in 1 .. n : f[k] = F[<<k, f[k - 1]>>]
  <2>1. Steps(n, Nat, F)
    BY <1>1 DEF Steps
  <2>2. \E f : Stepwise(n, Nat, 0, F, f)
    BY <1>0, <2>1, StepwiseExists
  <2> QED BY <2>2 DEF Stepwise
<1>3. f = [k \in 0 .. n |-> IF k = 0 THEN 0 ELSE f[k - 1] + s[k]]
  <2>1. ASSUME NEW k \in 0 .. n PROVE f[k] = IF k = 0 THEN 0 ELSE f[k - 1] + s[k]
    <3>1. CASE k # 0
      <4>1. k \in 1 .. n /\ f[k - 1] \in Nat
        BY <1>0, <1>2, <3>1
      <4> QED BY <1>1, <1>2, <3>1, <4>1
    <3> QED BY <1>2, <3>1
  <2> QED BY <1>2, <2>1
<1>4. end = [k \in 0 .. n |-> IF k = 0 THEN 0 ELSE end[k - 1] + s[k]]
  BY <1>3
<1> HIDE DEF end
<1>5. end[0] = 0 /\ \A k \in 1 .. n : end[k] = end[k - 1] + s[k]
  BY <1>0, <1>4
<1>6. \A k \in 0 .. n : end[k] \in Nat
  <2> DEFINE P == {k \in 0 .. n : end[k] \in Nat}
  <2>1. 0 \in P
    BY <1>0, <1>5
  <2>2. ASSUME NEW k \in 1 .. n, k - 1 \in P PROVE k \in P
    <3>1. end[k] = end[k - 1] + s[k] /\ end[k - 1] \in Nat /\ s[k] \in Nat /\ k \in 0 .. n
      BY <1>0, <1>5, <2>2
    <3> QED BY <3>1
  <2>3. \A k \in 0 .. n : k \in P
    <3> HIDE DEF P
    <3> QED BY <1>0, <2>1, <2>2, UpTo
  <2> QED BY <2>3
<1> QED BY <1>a, <1>4, <1>5, <1>6 DEF n

LEMMA EndsGrow ==
    ASSUME NEW s \in Seq(Nat \ {0})
    PROVE  \A i, j \in 0 .. Len(s) : i < j => Ends(s)[i] < Ends(s)[j]
<1> DEFINE n == Len(s)
           e == Ends(s)
           P == {j \in 0 .. n : \A i \in 0 .. n : i < j => e[i] < e[j]}
<1>0. n \in Nat /\ (\A k \in 1 .. n : s[k] \in Nat \ {0}) /\ s \in Seq(Nat)
  OBVIOUS
<1>1. e \in [0 .. n -> Nat] /\ \A k \in 1 .. n : e[k] = e[k - 1] + s[k]
  BY <1>0, EndsAre
<1> HIDE DEF n, e
<1>2. 0 \in P
  BY <1>0
<1>3. ASSUME NEW j \in 1 .. n, j - 1 \in P PROVE j \in P
  <2>1. ASSUME NEW i \in 0 .. n, i < j PROVE e[i] < e[j]
    <3>1. e[j] = e[j - 1] + s[j] /\ s[j] \in Nat \ {0} /\ e[j - 1] \in Nat /\ e[i] \in Nat
      BY <1>0, <1>1
    <3>2. i = j - 1 \/ e[i] < e[j - 1]
      BY <1>0, <1>3, <2>1
    <3> QED BY <3>1, <3>2
  <2> QED BY <1>0, <2>1
<1>4. \A j \in 0 .. n : j \in P
  <2> HIDE DEF P
  <2> QED BY <1>0, <1>2, <1>3, UpTo
<1> QED BY <1>4 DEF n, e

(* The headers of a message start one after another.                       *)
Sizes(heads) == [k \in 1 .. Len(heads) |-> 2 + Width(heads[k])]
LEMMA WidthIs == \A h \in Header : Width(h) \in Nat /\ h.type <= 9
BY DEF Width, Header

LEMMA HeaderStarts ==
    ASSUME NEW heads \in Seq(Header)
    PROVE  /\ HeaderStart(heads, 1) = 0 /\ BlockLen(heads) \in Nat
           /\ \A i \in 1 .. Len(heads) + 1 : HeaderStart(heads, i) \in 0 .. BlockLen(heads)
           /\ \A i \in 1 .. Len(heads) : HeaderStart(heads, i + 1) = HeaderStart(heads, i) + 2 + Width(heads[i])
           /\ \A i, j \in 1 .. Len(heads) + 1 : i < j => HeaderStart(heads, i) < HeaderStart(heads, j)
<1> DEFINE n == Len(heads)
           s == Sizes(heads)
           e == Ends(s)
<1>0. n \in Nat /\ \A k \in 1 .. n : heads[k] \in Header
  OBVIOUS
<1>1. \A k \in 1 .. n : 2 + Width(heads[k]) \in Nat \ {0} /\ Width(heads[k]) \in Nat
  BY <1>0, WidthIs
<1>2. s \in Seq(Nat \ {0}) /\ s \in Seq(Nat) /\ Len(s) = n /\ \A k \in 1 .. n : s[k] = 2 + Width(heads[k])
  <2>1. s \in [1 .. n -> Nat \ {0}] /\ s \in [1 .. n -> Nat] /\ \A k \in 1 .. n : s[k] = 2 + Width(heads[k])
    BY <1>1 DEF Sizes
  <2> HIDE DEF s
  <2> QED BY <1>0, <2>1, IsASeq, LenProperties
<1> HIDE DEF s
<1>3. /\ e \in [0 .. n -> Nat] /\ e[0] = 0 /\ \A k \in 1 .. n : e[k] = e[k - 1] + s[k]
      /\ \A i, j \in 0 .. n : i < j => e[i] < e[j]
  BY <1>2, EndsAre, EndsGrow
<1>4. BlockLen(heads) = e[n] /\ \A i \in 1 .. n + 1 : HeaderStart(heads, i) = e[i - 1]
  <2>1. n + 1 - 1 = n
    BY <1>0
  <2> QED BY <2>1 DEF BlockLen, HeaderStart, Sizes, s
<1> HIDE DEF e, n
<1>5. BlockLen(heads) \in Nat /\ HeaderStart(heads, 1) = 0
  BY <1>0, <1>3, <1>4
<1>6. ASSUME NEW i \in 1 .. n + 1 PROVE HeaderStart(heads, i) \in 0 .. BlockLen(heads)
  <2>1. i - 1 \in 0 .. n /\ n \in 0 .. n /\ (i - 1 = n \/ i - 1 < n)
    BY <1>0
  <2> QED BY <1>3, <1>4, <2>1
<1>7. ASSUME NEW i \in 1 .. n PROVE HeaderStart(heads, i + 1) = HeaderStart(heads, i) + 2 + Width(heads[i])
  <2>1. i \in 1 .. n + 1 /\ i + 1 \in 1 .. n + 1 /\ (i + 1) - 1 = i /\ i - 1 \in 0 .. n
    BY <1>0
  <2>2. HeaderStart(heads, i + 1) = e[i] /\ HeaderStart(heads, i) = e[i - 1]
    BY <1>4, <2>1
  <2>3. e[i] = e[i - 1] + s[i] /\ e[i - 1] \in Nat
    BY <1>3, <2>1
  <2>4. s[i] = 2 + Width(heads[i]) /\ Width(heads[i]) \in Nat
    BY <1>1, <1>2
  <2> QED BY <2>2, <2>3, <2>4
<1>8. ASSUME NEW i \in 1 .. n + 1, NEW j \in 1 .. n + 1, i < j PROVE HeaderStart(heads, i) < HeaderStart(heads, j)
  <2>1. i - 1 \in 0 .. n /\ j - 1 \in 0 .. n /\ i - 1 < j - 1
    BY <1>0, <1>8
  <2> QED BY <1>3, <1>4, <2>1
<1> QED BY <1>5, <1>6, <1>7, <1>8 DEF n

(* What the headers from a position on are, and one step of reading them.  *)
HeadersAt(heads, p) ==
    LET here == {i \in DOMAIN heads : HeaderStart(heads, i) = p}
    IN IF here = {} THEN <<>> ELSE SubSeq(heads, CHOOSE i \in here : TRUE, Len(heads))
HeaderStep(f, heads, p) ==
    LET here == {i \in DOMAIN heads : HeaderStart(heads, i) = p}
    IN IF here = {} \/ (\E i \in here : heads[i].type > 9) THEN <<>>
       ELSE LET h == heads[CHOOSE i \in here : TRUE] IN <<h>> \o f[p + 2 + Skip(h)]

LEMMA HeadersAtStart ==
    ASSUME NEW heads \in Seq(Header), NEW i \in 1 .. Len(heads) + 1
    PROVE  HeadersAt(heads, HeaderStart(heads, i)) = SubSeq(heads, i, Len(heads))
<1> DEFINE n == Len(heads)
           here == {j \in DOMAIN heads : HeaderStart(heads, j) = HeaderStart(heads, i)}
<1>0. n \in Nat /\ DOMAIN heads = 1 .. n
  OBVIOUS
<1>1. \A j \in DOMAIN heads : HeaderStart(heads, j) = HeaderStart(heads, i) => j = i
  <2> SUFFICES ASSUME NEW j \in 1 .. n, HeaderStart(heads, j) = HeaderStart(heads, i), j # i PROVE FALSE
    BY <1>0
  <2>1. j \in 1 .. n + 1 /\ (i < j \/ j < i)
    BY <1>0
  <2>2. HeaderStart(heads, i) \in Nat
    BY HeaderStarts
  <2> QED BY <2>1, <2>2, HeaderStarts
<1>2. CASE i = n + 1
  <2>1. here = {}
    BY <1>0, <1>1, <1>2
  <2>2. SubSeq(heads, i, n) = <<>>
    BY <1>0, <1>2, SubSeqEmpty
  <2> QED BY <2>1, <2>2 DEF HeadersAt
<1>3. CASE i \in 1 .. n
  <2>1. here = {i}
    BY <1>0, <1>1, <1>3
  <2>2. here # {} /\ (CHOOSE j \in here : TRUE) = i
    BY <2>1
  <2> QED BY <2>2 DEF HeadersAt
<1> QED BY <1>0, <1>2, <1>3

LEMMA HeaderStepIs ==
    ASSUME NEW heads \in Seq(Header), NEW n \in Nat, BlockLen(heads) <= n, NEW p \in 0 .. n, NEW f,
           \A q \in p + 1 .. n : f[q] = HeadersAt(heads, q)
    PROVE  HeaderStep(f, heads, p) = HeadersAt(heads, p)
<1> DEFINE here == {i \in DOMAIN heads : HeaderStart(heads, i) = p}
<1>0. Len(heads) \in Nat /\ DOMAIN heads = 1 .. Len(heads) /\ \A i \in DOMAIN heads : heads[i] \in Header
  OBVIOUS
<1>1. CASE here = {}
  BY <1>1 DEF HeaderStep, HeadersAt
<1>2. CASE here # {}
  <2> DEFINE i == CHOOSE i \in here : TRUE
  <2>1. i \in here
    BY <1>2
  <2> HIDE DEF i
  <2>2. i \in 1 .. Len(heads) /\ i \in 1 .. Len(heads) + 1 /\ i + 1 \in 1 .. Len(heads) + 1 /\ p = HeaderStart(heads, i)
    BY <1>0, <2>1
  <2>3. ~ \E j \in here : heads[j].type > 9
    <3> SUFFICES ASSUME NEW j \in here, heads[j].type > 9 PROVE FALSE
      OBVIOUS
    <3>1. heads[j] \in Header
      BY <1>0
    <3>2. heads[j].type \in 0 .. 9
      BY <3>1 DEF Header
    <3> QED BY <3>2
  <2>4. HeaderStep(f, heads, p) = <<heads[i]>> \o f[p + 2 + Skip(heads[i])]
    BY <1>2, <2>3 DEF HeaderStep, i
  <2>5. p + 2 + Skip(heads[i]) = HeaderStart(heads, i + 1)
    BY <2>2, HeaderStarts DEF Skip
  <2>6. HeaderStart(heads, i + 1) \in p + 1 .. n
    <3>1. /\ HeaderStart(heads, i) < HeaderStart(heads, i + 1) /\ HeaderStart(heads, i + 1) \in 0 .. BlockLen(heads)
          /\ BlockLen(heads) \in Nat
      <4>1. i < i + 1
        BY <2>2
      <4> QED BY <2>2, <4>1, HeaderStarts
    <3> QED BY <2>2, <3>1
  <2>7. f[p + 2 + Skip(heads[i])] = SubSeq(heads, i + 1, Len(heads))
    BY <2>2, <2>5, <2>6, HeadersAtStart
  <2>8. HeadersAt(heads, p) = SubSeq(heads, i, Len(heads))
    BY <2>2, HeadersAtStart
  <2>9. SubSeq(heads, i, Len(heads)) = <<heads[i]>> \o SubSeq(heads, i + 1, Len(heads))
    <3>1. Len(heads) \in i .. Len(heads)
      BY <1>0, <2>2
    <3> QED BY <1>0, <2>2, <3>1, SubSeqRecursiveFirst
  <2> QED BY <2>4, <2>7, <2>8, <2>9
<1> QED BY <1>1, <1>2

(* Every header of a message is read.                                      *)
LEMMA AllHeadersRead ==
    ASSUME NEW heads \in Seq(Header)
    PROVE  HeadersFrom(heads) = heads
<1> DEFINE n == BlockLen(heads) + 16
           S(p) == HeadersAt(heads, p)
           B(f, p) == HeaderStep(f, heads, p)
           from == CHOOSE f : f = [p \in 0 .. n |-> B(f, p)]
           g == [p \in 0 .. n |-> S(p)]
<1>0. n \in Nat /\ BlockLen(heads) \in Nat /\ BlockLen(heads) <= n /\ 0 \in 0 .. n
  BY HeaderStarts
<1>1. HeadersFrom(heads) = from[0]
  BY DEF HeadersFrom, HeaderStep
<1> HIDE DEF n
<1>2. ASSUME NEW p \in 0 .. n PROVE B(g, p) = S(p)
  <2>1. \A q \in p + 1 .. n : g[q] = S(q)
    BY <1>0
  <2> HIDE DEF g
  <2> QED BY <1>0, <2>1, HeaderStepIs
<1>3. g = [p \in 0 .. n |-> B(g, p)]
  BY <1>2
<1>4. from = [p \in 0 .. n |-> B(from, p)]
  <2> HIDE DEF B, g
  <2> QED BY <1>3
<1> HIDE DEF from
<1>5. ASSUME NEW p \in 0 .. n, \A q \in p + 1 .. n : from[q] = S(q) PROVE from[p] = S(p)
  <2>1. B(from, p) = S(p)
    BY <1>0, <1>5, HeaderStepIs
  <2>2. from[p] = B(from, p)
    <3> HIDE DEF B
    <3> QED BY <1>4
  <2> QED BY <2>1, <2>2
<1>6. from[0] = S(0)
  <2> DEFINE P == {p \in 0 .. n : from[p] = S(p)}
  <2>1. ASSUME NEW p \in 0 .. n, \A q \in p + 1 .. n : q \in P PROVE p \in P
    BY <1>5, <2>1
  <2>2. \A p \in 0 .. n : p \in P
    <3> HIDE DEF P
    <3> QED BY <1>0, <2>1, DownTo
  <2> QED BY <1>0, <2>2
<1>7. S(0) = SubSeq(heads, 1, Len(heads))
  <2>1. 1 \in 1 .. Len(heads) + 1 /\ HeaderStart(heads, 1) = 0
    BY HeaderStarts
  <2> QED BY <2>1, HeadersAtStart
<1> QED BY <1>1, <1>6, <1>7, SubSeqFull

(* The headers a message is told by: each is a string and is there once.   *)
Distinguished(heads) ==
    /\ heads \in Seq(Header)
    /\ \A i \in DOMAIN heads : heads[i].name \in Readable =>
          /\ heads[i].type = 7
          /\ \A j \in DOMAIN heads : heads[j].name = heads[i].name => j = i

LEMMA KeptIs ==
    ASSUME NEW heads, Distinguished(heads), NEW name \in Readable
    PROVE  \A v : v \in Kept(heads, name) <=> \E i \in DOMAIN heads : heads[i].name = name /\ heads[i].value = v
<1> DEFINE last == {i \in DOMAIN heads : heads[i].name = name /\ \A j \in DOMAIN heads : j > i => heads[j].name # name}
           strings == {i \in last : heads[i].type = 7}
<1>1. HeadersFrom(heads) = heads
  BY AllHeadersRead DEF Distinguished
<1>2. Kept(heads, name) = {heads[i].value : i \in strings}
  BY <1>1 DEF Kept
<1>3. ASSUME NEW i \in DOMAIN heads, heads[i].name = name PROVE i \in strings
  <2>1. heads[i].type = 7 /\ \A j \in DOMAIN heads : heads[j].name = name => j = i
    BY <1>3 DEF Distinguished
  <2>2. DOMAIN heads \subseteq Int
    BY DEF Distinguished
  <2>3. \A j \in DOMAIN heads : j > i => heads[j].name # name
    BY <2>1, <2>2
  <2> QED BY <1>3, <2>1, <2>3
<1>4. \A i \in strings : i \in DOMAIN heads /\ heads[i].name = name
  OBVIOUS
<1> HIDE DEF strings
<1> QED BY <1>2, <1>3, <1>4

(* What the reader makes of a message is what the message tells.           *)
LEMMA EventIs ==
    ASSUME NEW m, Distinguished(m.heads), reader \in {"inner", "converse"}
    PROVE  EventOf(m) = Tells(m) /\ Tells(m) \in Seq({"error", "event"})
<1>1. "event-type" \in Readable /\ "exception-type" \in Readable /\ "message-type" \in Readable
  BY DEF Readable
<1>2. \A name \in Readable : Held(m.heads, name) <=> Says(m, name)
  <2> SUFFICES ASSUME NEW name \in Readable PROVE Held(m.heads, name) <=> Says(m, name)
    OBVIOUS
  <2>1. Held(m.heads, name) <=> \E v : v \in Kept(m.heads, name)
    BY DEF Held
  <2> QED BY <2>1, KeptIs DEF Says
<1>3. StreamError(m) <=> \E i \in DOMAIN m.heads : m.heads[i].name = "message-type" /\ m.heads[i].value = "error"
  BY <1>1, KeptIs DEF StreamError
<1>4. EventOf(m) = Tells(m)
  <2>1. CASE reader = "inner"
    BY <1>1, <1>2, <1>3, <2>1 DEF EventOf, InnerEvent, Tells
  <2>2. CASE reader = "converse"
    BY <1>1, <1>2, <1>3, <2>2 DEF EventOf, ConverseEvent, Tells
  <2> QED BY <2>1, <2>2
<1>5. <<>> \in Seq({"error", "event"}) /\ <<"error">> \in Seq({"error", "event"}) /\ <<"event">> \in Seq({"error", "event"})
  OBVIOUS
<1>6. Tells(m) \in {<<>>, <<"error">>, <<"event">>}
  BY DEF Tells
<1> QED BY <1>4, <1>5, <1>6

-----------------------------------------------------------------------------
(* The messages of a line start one after another.                         *)
MessageSizes == [k \in 1 .. Len(line) |-> line[k].size]
LEMMA WiresAre ==
    ASSUME line \in Wires
    PROVE  /\ Len(line) \in Nat /\ DOMAIN line = 1 .. Len(line)
           /\ line \in Seq([heads : Seq(Header), headers : Int, payload : STRING, size : Nat \ {0}, total : Int])
           /\ \A k \in DOMAIN line : /\ line[k].size \in Nat \ {0} /\ line[k].total \in Int
                                     /\ Plausible(line[k]) <=> Honest(line[k])
                                     /\ Distinguished(line[k].heads)
<1> DEFINE M == [heads : Seq(Header), headers : Int, payload : STRING, size : Nat \ {0}, total : Int]
<1>1. line \in Seq(M)
  BY WireAssumption
<1>2. ASSUME NEW k \in DOMAIN line
      PROVE  line[k].size \in Nat \ {0} /\ line[k].total \in Int /\ line[k].heads \in Seq(Header)
  <2>1. line[k] \in M
    <3> HIDE DEF M
    <3> QED BY <1>1
  <2> QED BY <2>1
<1>3. ASSUME NEW k \in DOMAIN line PROVE Plausible(line[k]) <=> Honest(line[k])
  BY WireAssumption
<1>4. ASSUME NEW k \in DOMAIN line PROVE Distinguished(line[k].heads)
  <2>1. \A i \in DOMAIN line[k].heads : line[k].heads[i].name \in Readable =>
            /\ line[k].heads[i].type = 7
            /\ \A j \in DOMAIN line[k].heads : line[k].heads[j].name = line[k].heads[i].name => j = i
    BY WireAssumption
  <2> QED BY <1>2, <2>1 DEF Distinguished
<1>5. Len(line) \in Nat /\ DOMAIN line = 1 .. Len(line)
  BY <1>1
<1> QED BY <1>1, <1>2, <1>3, <1>4, <1>5

LEMMA MessageStarts ==
    ASSUME line \in Wires
    PROVE  /\ MessageStart(1) = 0
           /\ \A i \in 1 .. Len(line) + 1 : MessageStart(i) \in Nat
           /\ \A i \in 1 .. Len(line) : MessageStart(i + 1) = MessageStart(i) + line[i].size
           /\ \A i, j \in 1 .. Len(line) + 1 : i < j => MessageStart(i) < MessageStart(j)
<1> DEFINE n == Len(line)
           s == MessageSizes
           e == Ends(s)
<1>1. n \in Nat /\ \A k \in 1 .. n : line[k].size \in Nat \ {0}
  BY WiresAre
<1>2. s \in Seq(Nat \ {0}) /\ s \in Seq(Nat) /\ Len(s) = n /\ \A k \in 1 .. n : s[k] = line[k].size
  <2>1. s \in [1 .. n -> Nat \ {0}] /\ s \in [1 .. n -> Nat] /\ \A k \in 1 .. n : s[k] = line[k].size
    BY <1>1 DEF MessageSizes
  <2> HIDE DEF s
  <2> QED BY <1>1, <2>1, IsASeq, LenProperties
<1> HIDE DEF s
<1>3. /\ e \in [0 .. n -> Nat] /\ e[0] = 0 /\ \A k \in 1 .. n : e[k] = e[k - 1] + s[k]
      /\ \A i, j \in 0 .. n : i < j => e[i] < e[j]
  BY <1>2, EndsAre, EndsGrow
<1>4. \A i \in 1 .. n + 1 : MessageStart(i) = e[i - 1]
  BY DEF MessageStart, MessageSizes, s
<1> HIDE DEF e, n
<1>5. MessageStart(1) = 0 /\ \A i \in 1 .. n + 1 : MessageStart(i) \in Nat
  <2>1. \A i \in 1 .. n + 1 : i - 1 \in 0 .. n
    BY <1>1
  <2>2. 1 \in 1 .. n + 1 /\ 1 - 1 = 0
    BY <1>1
  <2> QED BY <1>3, <1>4, <2>1, <2>2
<1>6. ASSUME NEW i \in 1 .. n PROVE MessageStart(i + 1) = MessageStart(i) + line[i].size
  <2>1. i \in 1 .. n + 1 /\ i + 1 \in 1 .. n + 1 /\ (i + 1) - 1 = i
    BY <1>1
  <2>2. MessageStart(i + 1) = e[i] /\ MessageStart(i) = e[i - 1]
    BY <1>4, <2>1
  <2> QED BY <1>2, <1>3, <2>2
<1>7. ASSUME NEW i \in 1 .. n + 1, NEW j \in 1 .. n + 1, i < j PROVE MessageStart(i) < MessageStart(j)
  <2>1. i - 1 \in 0 .. n /\ j - 1 \in 0 .. n /\ i - 1 < j - 1
    BY <1>1, <1>7
  <2> QED BY <1>3, <1>4, <2>1
<1> QED BY <1>5, <1>6, <1>7 DEF n

(* A reader of the messages from i on, to a position of the line, stops    *)
(* after message e.                                                        *)
Stops(e, i, upTo) ==
    /\ e \in i - 1 .. Len(line)
    /\ \A j \in i .. e : Honest(line[j]) /\ MessageStart(j + 1) <= upTo
    /\ e = Len(line) \/ ~ Honest(line[e + 1]) \/ MessageStart(e + 2) > upTo
LastOf(i, upTo) == CHOOSE e : Stops(e, i, upTo)

LEMMA LastIs ==
    ASSUME line \in Wires, NEW i \in 1 .. Len(line) + 1, NEW upTo \in Nat
    PROVE  Stops(LastOf(i, upTo), i, upTo) /\ \A e : Stops(e, i, upTo) => LastOf(i, upTo) = e
<1> DEFINE n == Len(line)
           Passes(j) == Honest(line[j]) /\ MessageStart(j + 1) <= upTo
           T == {e \in i - 1 .. n : e = n \/ ~ Passes(e + 1)}
<1>0. n \in Nat
  BY WiresAre
<1>a. \A e \in Int : Stops(e, i, upTo) <=> e \in i - 1 .. n /\ (\A j \in i .. e : Passes(j)) /\ (e = n \/ ~ Passes(e + 1))
  <2> SUFFICES ASSUME NEW e \in Int
               PROVE  Stops(e, i, upTo) <=> e \in i - 1 .. n /\ (\A j \in i .. e : Passes(j)) /\ (e = n \/ ~ Passes(e + 1))
    OBVIOUS
  <2>1. (e + 1) + 1 = e + 2
    OBVIOUS
  <2>2. MessageStart((e + 1) + 1) = MessageStart(e + 2)
    BY <2>1
  <2>3. ASSUME e \in i - 1 .. n, e # n PROVE MessageStart(e + 2) > upTo <=> ~ (MessageStart(e + 2) <= upTo)
    <3>1. e + 2 \in 1 .. n + 1
      BY <1>0, <2>3
    <3>2. MessageStart(e + 2) \in Nat
      BY <3>1, MessageStarts
    <3> QED BY <3>2
  <2> QED BY <2>2, <2>3 DEF Stops
<1>b. \A e : Stops(e, i, upTo) => e \in Int
  BY <1>0 DEF Stops
<1> HIDE DEF Passes
<1>1. T \subseteq Nat /\ n \in T
  BY <1>0
<1>2. PICK e \in T : \A q \in T : e <= q
  BY <1>1, LeastNatural
<1>3. \A j \in i .. e : Passes(j)
  <2> SUFFICES ASSUME NEW j \in i .. e, ~ Passes(j) PROVE FALSE
    OBVIOUS
  <2>1. j - 1 \in i - 1 .. n /\ (j - 1) + 1 = j /\ ~ (e <= j - 1)
    BY <1>0, <1>2
  <2>2. j - 1 \in T
    BY <2>1
  <2> QED BY <1>2, <2>1, <2>2
<1>4. Stops(e, i, upTo)
  <2>1. e \in Int /\ e \in i - 1 .. n /\ (e = n \/ ~ Passes(e + 1))
    BY <1>0, <1>2
  <2> QED BY <1>a, <1>3, <2>1
<1>5. ASSUME NEW d, NEW u, Stops(d, i, upTo), Stops(u, i, upTo), d < u PROVE FALSE
  <2>1. d \in Int /\ u \in Int
    BY <1>5, <1>b
  <2>2. d \in i - 1 .. n /\ (d = n \/ ~ Passes(d + 1)) /\ u \in i - 1 .. n /\ \A j \in i .. u : Passes(j)
    BY <1>5, <1>a, <2>1
  <2>3. d # n /\ d + 1 \in i .. u
    BY <1>0, <1>5, <2>2
  <2> QED BY <2>2, <2>3
<1>6. \A d : Stops(d, i, upTo) => d = e
  <2> SUFFICES ASSUME NEW d, Stops(d, i, upTo), d # e PROVE FALSE
    OBVIOUS
  <2>1. d < e \/ e < d
    BY <1>4, <1>b
  <2> QED BY <1>4, <1>5, <2>1
<1>7. LastOf(i, upTo) = e
  BY <1>4, <1>6 DEF LastOf
<1> QED BY <1>4, <1>6, <1>7

(* What is taken from a position on, and one step of taking it.            *)
TakenAt(p, upTo) ==
    LET here == {i \in DOMAIN line : MessageStart(i) = p}
        i == CHOOSE i \in here : TRUE
    IN IF here = {} THEN [to |-> p, messages |-> <<>>]
       ELSE [to |-> MessageStart(LastOf(i, upTo) + 1), messages |-> SubSeq(line, i, LastOf(i, upTo))]
TakeStep(f, p, upTo) ==
    LET here == {i \in DOMAIN line : MessageStart(i) = p}
        stops == upTo - p < Prelude \/ here = {} \/ \E i \in here : ~ Plausible(line[i]) \/ upTo - p < line[i].total
    IN IF stops THEN [to |-> p, messages |-> <<>>]
       ELSE LET m == line[CHOOSE i \in here : TRUE]
                rest == f[p + m.total]
            IN [to |-> rest.to, messages |-> <<m>> \o rest.messages]

LEMMA MessageAlone ==
    ASSUME line \in Wires, NEW i \in 1 .. Len(line) + 1, NEW j \in DOMAIN line, MessageStart(j) = MessageStart(i)
    PROVE  j = i
<1>0. Len(line) \in Nat /\ j \in 1 .. Len(line) + 1
  BY WiresAre
<1>1. MessageStart(i) \in Nat
  BY MessageStarts
<1>2. i = j \/ i < j \/ j < i
  BY <1>0
<1> QED BY <1>0, <1>1, <1>2, MessageStarts

LEMMA TakenAtStart ==
    ASSUME line \in Wires, NEW i \in 1 .. Len(line) + 1, NEW upTo \in Nat
    PROVE  TakenAt(MessageStart(i), upTo) =
              [to |-> MessageStart(LastOf(i, upTo) + 1), messages |-> SubSeq(line, i, LastOf(i, upTo))]
<1> DEFINE n == Len(line)
           here == {j \in DOMAIN line : MessageStart(j) = MessageStart(i)}
<1>0. n \in Nat /\ DOMAIN line = 1 .. n
  BY WiresAre
<1>1. CASE i = n + 1
  <2>1. here = {}
    BY <1>0, <1>1, MessageAlone
  <2>2. Stops(n, i, upTo)
    BY <1>0, <1>1 DEF Stops
  <2>3. LastOf(i, upTo) = n
    BY <2>2, LastIs
  <2>4. SubSeq(line, i, n) = <<>>
    BY <1>0, <1>1, SubSeqEmpty
  <2> QED BY <1>1, <2>1, <2>3, <2>4 DEF TakenAt
<1>2. CASE i \in 1 .. n
  <2>1. here = {i}
    BY <1>0, <1>2, MessageAlone
  <2>2. here # {} /\ (CHOOSE j \in here : TRUE) = i
    BY <2>1
  <2> QED BY <2>2 DEF TakenAt
<1> QED BY <1>0, <1>1, <1>2

LEMMA TakeStepIs ==
    ASSUME line \in Wires, NEW upTo \in Nat, NEW p \in 0 .. upTo, NEW f,
           \A q \in p + 1 .. upTo : f[q] = TakenAt(q, upTo)
    PROVE  TakeStep(f, p, upTo) = TakenAt(p, upTo)
<1> DEFINE n == Len(line)
           here == {i \in DOMAIN line : MessageStart(i) = p}
<1>0. n \in Nat /\ DOMAIN line = 1 .. n
  BY WiresAre
<1>1. CASE here = {}
  BY <1>1 DEF TakeStep, TakenAt
<1>2. CASE here # {}
  <2>1. PICK i \in here : TRUE
    BY <1>2
  <2>2. /\ i \in 1 .. n /\ i \in 1 .. n + 1 /\ i + 1 \in 1 .. n + 1 /\ p = MessageStart(i)
        /\ i \in DOMAIN line
    BY <1>0, <2>1
  <2>3. here = {i}
    BY <2>2, MessageAlone
  <2>4. (CHOOSE j \in here : TRUE) = i
    BY <2>3
  <2>5. /\ MessageStart(i + 1) = p + line[i].size /\ line[i].size \in Nat \ {0} /\ line[i].total \in Int
        /\ Plausible(line[i]) <=> Honest(line[i])
    BY <2>2, WiresAre, MessageStarts
  <2>6. TakenAt(p, upTo) = [to |-> MessageStart(LastOf(i, upTo) + 1), messages |-> SubSeq(line, i, LastOf(i, upTo))]
    BY <2>2, TakenAtStart
  <2> DEFINE stops == upTo - p < Prelude \/ here = {} \/ \E j \in here : ~ Plausible(line[j]) \/ upTo - p < line[j].total
  <2>7. CASE ~ (Honest(line[i]) /\ MessageStart(i + 1) <= upTo)
    <3>1. stops
      <4>1. CASE ~ Honest(line[i])
        BY <2>1, <2>5, <4>1
      <4>2. CASE Honest(line[i])
        <5>1. line[i].total = line[i].size
          BY <4>2 DEF Honest
        <5>2. upTo - p < line[i].total
          BY <2>5, <2>7, <4>2, <5>1
        <5> QED BY <2>1, <5>2
      <4> QED BY <4>1, <4>2
    <3>2. TakeStep(f, p, upTo) = [to |-> p, messages |-> <<>>]
      BY <3>1 DEF TakeStep
    <3>3. Stops(i - 1, i, upTo)
      <4>1. (i - 1) + 1 = i /\ (i - 1) + 2 = i + 1 /\ i - 1 \in i - 1 .. n /\ i .. i - 1 = {}
        BY <1>0, <2>2
      <4>2. ~ Honest(line[i]) \/ MessageStart(i + 1) > upTo
        BY <2>5, <2>7
      <4> QED BY <4>1, <4>2 DEF Stops
    <3>4. LastOf(i, upTo) = i - 1
      BY <2>2, <3>3, LastIs
    <3>5. (i - 1) + 1 = i /\ SubSeq(line, i, i - 1) = <<>>
      BY <2>2, SubSeqEmpty
    <3> QED BY <2>2, <2>6, <3>2, <3>4, <3>5
  <2>8. CASE Honest(line[i]) /\ MessageStart(i + 1) <= upTo
    <3> DEFINE e == LastOf(i + 1, upTo)
    <3>1. line[i].total = line[i].size /\ Plausible(line[i])
      BY <2>5, <2>8 DEF Honest
    <3>2. line[i].total >= 4
      BY <2>5, <3>1 DEF Plausible, Overhead, Prelude
    <3>3. p + line[i].total = MessageStart(i + 1) /\ MessageStart(i + 1) \in p + 1 .. upTo
      BY <2>5, <2>8, <3>1
    <3>4. ~ stops
      <4>1. ~ (upTo - p < line[i].total) /\ ~ (upTo - p < 3)
        BY <2>5, <3>2, <3>3
      <4> QED BY <1>2, <2>3, <3>1, <4>1 DEF Prelude
    <3>5. TakeStep(f, p, upTo) =
             [to |-> f[p + line[i].total].to, messages |-> <<line[i]>> \o f[p + line[i].total].messages]
      BY <2>4, <3>4 DEF TakeStep
    <3>6. f[p + line[i].total] = [to |-> MessageStart(e + 1), messages |-> SubSeq(line, i + 1, e)]
      BY <2>2, <3>3, TakenAtStart
    <3>7. Stops(e, i + 1, upTo)
      BY <2>2, LastIs
    <3> HIDE DEF e
    <3>8. e \in i .. n /\ e \in i - 1 .. n
      <4>1. e \in (i + 1) - 1 .. n
        BY <3>7 DEF Stops
      <4> QED BY <1>0, <2>2, <4>1
    <3>9. Stops(e, i, upTo)
      <4>1. \A j \in i .. e : j = i \/ j \in i + 1 .. e
        BY <2>2, <3>8
      <4> QED BY <2>8, <3>7, <3>8, <4>1 DEF Stops
    <3>10. LastOf(i, upTo) = e
      BY <2>2, <3>9, LastIs
    <3>11. SubSeq(line, i, e) = <<line[i]>> \o SubSeq(line, i + 1, e)
      <4> DEFINE M == [heads : Seq(Header), headers : Int, payload : STRING, size : Nat \ {0}, total : Int]
      <4>1. line \in Seq(M)
        BY WiresAre
      <4> HIDE DEF M
      <4> QED BY <1>0, <2>2, <3>8, <4>1, SubSeqRecursiveFirst
    <3> QED BY <2>6, <3>5, <3>6, <3>10, <3>11
  <2> QED BY <2>7, <2>8
<1> QED BY <1>1, <1>2

(* Every complete message from the front of the buffer is taken.           *)
LEMMA AllMessagesTaken ==
    ASSUME line \in Wires, NEW upTo \in Nat, NEW c \in 0 .. Len(line), consumed = MessageStart(c + 1), consumed <= upTo
    PROVE  \E e : /\ Stops(e, c + 1, upTo)
                  /\ TakeMessages(upTo) = [to |-> MessageStart(e + 1), messages |-> SubSeq(line, c + 1, e)]
<1> DEFINE S(p) == TakenAt(p, upTo)
           B(f, p) == TakeStep(f, p, upTo)
           from == CHOOSE f : f = [p \in consumed .. upTo |-> B(f, p)]
           g == [p \in consumed .. upTo |-> S(p)]
<1>0. c + 1 \in 1 .. Len(line) + 1 /\ consumed \in Nat /\ consumed \in consumed .. upTo
  <2>1. Len(line) \in Nat
    BY WiresAre
  <2>2. c + 1 \in 1 .. Len(line) + 1
    BY <2>1
  <2> QED BY <2>2, MessageStarts
<1>1. TakeMessages(upTo) = from[consumed]
  BY DEF TakeMessages, TakeStep
<1>2. ASSUME NEW p \in consumed .. upTo PROVE B(g, p) = S(p)
  <2>1. (\A q \in p + 1 .. upTo : g[q] = S(q)) /\ p \in 0 .. upTo
    BY <1>0
  <2> HIDE DEF g
  <2> QED BY <2>1, TakeStepIs
<1>3. g = [p \in consumed .. upTo |-> B(g, p)]
  BY <1>2
<1>4. from = [p \in consumed .. upTo |-> B(from, p)]
  <2> HIDE DEF B, g
  <2> QED BY <1>3
<1> HIDE DEF from
<1>5. ASSUME NEW p \in consumed .. upTo, \A q \in p + 1 .. upTo : from[q] = S(q) PROVE from[p] = S(p)
  <2>1. p \in 0 .. upTo
    BY <1>0
  <2>2. B(from, p) = S(p)
    BY <1>5, <2>1, TakeStepIs
  <2>3. from[p] = B(from, p)
    <3> HIDE DEF B
    <3> QED BY <1>4
  <2> QED BY <2>2, <2>3
<1>6. from[consumed] = S(consumed)
  <2> DEFINE P == {p \in consumed .. upTo : from[p] = S(p)}
  <2>1. ASSUME NEW p \in consumed .. upTo, \A q \in p + 1 .. upTo : q \in P PROVE p \in P
    BY <1>5, <2>1
  <2>2. \A p \in consumed .. upTo : p \in P
    <3> HIDE DEF P
    <3> QED BY <1>0, <2>1, DownTo
  <2> QED BY <1>0, <2>2
<1> DEFINE e == LastOf(c + 1, upTo)
<1>7. S(consumed) = [to |-> MessageStart(e + 1), messages |-> SubSeq(line, c + 1, e)] /\ Stops(e, c + 1, upTo)
  BY <1>0, TakenAtStart, LastIs
<1> QED BY <1>1, <1>6, <1>7

(* What a sequence of sequences is, put end to end.                        *)
Flattens(s, V, f) ==
    /\ f \in [0 .. Len(s) -> Seq(V)] /\ f[0] = <<>> /\ (\A k \in 1 .. Len(s) : f[k] = f[k - 1] \o s[k])
    /\ FlattenSeq(s) = f[Len(s)]
LEMMA FlattenIs ==
    ASSUME NEW V, NEW s \in Seq(Seq(V))
    PROVE  \E f : Flattens(s, V, f)
<1> DEFINE n == Len(s)
           F == [kv \in (1 .. n) \X Seq(V) |-> kv[2] \o s[kv[1]]]
           flat == CHOOSE f : f = [k \in 1 .. n |-> IF k = 1 THEN s[k] ELSE f[k - 1] \o s[k]]
<1>0. n \in Nat /\ (\A k \in 1 .. n : s[k] \in Seq(V)) /\ <<>> \in Seq(V)
  OBVIOUS
<1>1. \A k \in 1 .. n : \A v \in Seq(V) : F[<<k, v>>] \in Seq(V) /\ F[<<k, v>>] = v \o s[k]
  <2> SUFFICES ASSUME NEW k \in 1 .. n, NEW v \in Seq(V) PROVE F[<<k, v>>] \in Seq(V) /\ F[<<k, v>>] = v \o s[k]
    OBVIOUS
  <2>1. F[<<k, v>>] = v \o s[k]
    OBVIOUS
  <2>2. v \o s[k] \in Seq(V)
    BY <1>0, ConcatProperties
  <2> QED BY <2>1, <2>2
<1>a. FlattenSeq(s) = IF n = 0 THEN s ELSE flat[n]
  BY DEF FlattenSeq
<1>b. n = 0 => s = <<>>
  OBVIOUS
<1>c. n = Len(s)
  OBVIOUS
<1> HIDE DEF F, n
<1>2. PICK f \in [0 .. n -> Seq(V)] : f[0] = <<>> /\ \A k \in 1 .. n : f[k] = F[<<k, f[k - 1]>>]
  <2>1. Steps(n, Seq(V), F)
    BY <1>1 DEF Steps
  <2>2. \E f : Stepwise(n, Seq(V), <<>>, F, f)
    BY <1>0, <2>1, StepwiseExists
  <2> QED BY <2>2 DEF Stepwise
<1>3. \A k \in 1 .. n : f[k] = f[k - 1] \o s[k] /\ f[k] \in Seq(V)
  <2> SUFFICES ASSUME NEW k \in 1 .. n PROVE f[k] = f[k - 1] \o s[k] /\ f[k] \in Seq(V)
    OBVIOUS
  <2>1. f[k - 1] \in Seq(V) /\ f[k] \in Seq(V)
    BY <1>0, <1>2
  <2> QED BY <1>1, <1>2, <2>1
<1>4. CASE n = 0
  BY <1>a, <1>b, <1>c, <1>2, <1>3, <1>4 DEF Flattens
<1>5. CASE n # 0
  <2> DEFINE g == [k \in 1 .. n |-> f[k]]
  <2>1. ASSUME NEW k \in 1 .. n PROVE g[k] = IF k = 1 THEN s[k] ELSE g[k - 1] \o s[k]
    <3>1. CASE k = 1
      <4>1. f[1] = <<>> \o s[1] /\ s[1] \in Seq(V)
        <5>1. 1 \in 1 .. n /\ 1 - 1 = 0
          BY <3>1
        <5>2. f[1] = f[0] \o s[1]
          BY <1>3, <5>1
        <5> QED BY <1>0, <1>2, <5>1, <5>2
      <4>2. <<>> \o s[1] = s[1]
        BY <4>1, ConcatEmptySeq
      <4> QED BY <3>1, <4>1, <4>2
    <3>2. CASE k # 1
      <4>1. k - 1 \in 1 .. n
        BY <1>0, <3>2
      <4> QED BY <1>3, <3>2, <4>1
    <3> QED BY <3>1, <3>2
  <2>2. g = [k \in 1 .. n |-> IF k = 1 THEN s[k] ELSE g[k - 1] \o s[k]]
    BY <2>1
  <2>3. flat = [k \in 1 .. n |-> IF k = 1 THEN s[k] ELSE flat[k - 1] \o s[k]]
    <3> HIDE DEF g
    <3> QED BY <2>2
  <2> HIDE DEF flat
  <2> DEFINE P == {k \in 0 .. n : k # 0 => flat[k] = f[k]}
  <2>4. 0 \in P
    BY <1>0
  <2>5. ASSUME NEW k \in 1 .. n, k - 1 \in P PROVE k \in P
    <3>1. flat[k] = IF k = 1 THEN s[k] ELSE flat[k - 1] \o s[k]
      BY <2>3
    <3>2. f[k] = IF k = 1 THEN s[k] ELSE f[k - 1] \o s[k]
      <4>1. k # 1 => k - 1 \in 1 .. n
        BY <1>0
      <4> QED BY <2>1, <4>1
    <3>3. k # 1 => flat[k - 1] = f[k - 1]
      BY <1>0, <2>5
    <3> QED BY <1>0, <3>1, <3>2, <3>3
  <2>6. \A k \in 0 .. n : k \in P
    <3> HIDE DEF P
    <3> QED BY <1>0, <2>4, <2>5, UpTo
  <2>7. flat[n] = f[n]
    BY <1>0, <1>5, <2>6
  <2> QED BY <1>a, <1>c, <1>2, <1>3, <1>5, <2>7 DEF Flattens
<1> QED BY <1>4, <1>5

(* Two of them one after the other.                                        *)
LEMMA FlattenBoth ==
    ASSUME NEW V, NEW s \in Seq(Seq(V)), NEW t \in Seq(Seq(V)), NEW both \in Seq(Seq(V)),
           Len(both) = Len(s) + Len(t),
           \A k \in 1 .. Len(s) : both[k] = s[k],
           \A k \in 1 .. Len(t) : both[Len(s) + k] = t[k]
    PROVE  FlattenSeq(both) = FlattenSeq(s) \o FlattenSeq(t)
<1>1. PICK f : Flattens(s, V, f)
  BY FlattenIs
<1>2. PICK g : Flattens(t, V, g)
  BY FlattenIs
<1>3. PICK h : Flattens(both, V, h)
  BY FlattenIs
<1> DEFINE n == Len(s)
           m == Len(t)
<1>0. n \in Nat /\ m \in Nat /\ \A k \in 1 .. m : t[k] \in Seq(V)
  OBVIOUS
<1>4. /\ f \in [0 .. n -> Seq(V)] /\ f[0] = <<>> /\ (\A k \in 1 .. n : f[k] = f[k - 1] \o s[k])
      /\ FlattenSeq(s) = f[n]
  BY <1>1 DEF Flattens
<1>5. /\ g \in [0 .. m -> Seq(V)] /\ g[0] = <<>> /\ (\A k \in 1 .. m : g[k] = g[k - 1] \o t[k])
      /\ FlattenSeq(t) = g[m]
  BY <1>2 DEF Flattens
<1>6. /\ h \in [0 .. n + m -> Seq(V)] /\ h[0] = <<>> /\ (\A k \in 1 .. n + m : h[k] = h[k - 1] \o both[k])
      /\ FlattenSeq(both) = h[n + m]
  BY <1>3 DEF Flattens
<1>a. (\A k \in 1 .. n : both[k] = s[k]) /\ \A k \in 1 .. m : both[n + k] = t[k]
  OBVIOUS
<1> HIDE DEF n, m
<1>7. h[n] = f[n]
  <2> DEFINE P == {k \in 0 .. n : h[k] = f[k]}
  <2>1. 0 \in P
    BY <1>0, <1>4, <1>6
  <2>2. ASSUME NEW k \in 1 .. n, k - 1 \in P PROVE k \in P
    <3>1. k \in 1 .. n + m /\ k \in 0 .. n
      BY <1>0
    <3>2. h[k] = h[k - 1] \o both[k] /\ f[k] = f[k - 1] \o s[k] /\ both[k] = s[k] /\ h[k - 1] = f[k - 1]
      BY <1>a, <1>4, <1>6, <2>2, <3>1
    <3> QED BY <3>1, <3>2
  <2>3. \A k \in 0 .. n : k \in P
    <3> HIDE DEF P
    <3> QED BY <1>0, <2>1, <2>2, UpTo
  <2> QED BY <1>0, <2>3
<1>8. h[n + m] = f[n] \o g[m]
  <2> DEFINE D(k) == f[n] \o g[k]
             P == {k \in 0 .. m : h[n + k] = D(k)}
  <2>0. f[n] \in Seq(V)
    BY <1>0, <1>4
  <2>1. 0 \in P
    <3>1. f[n] \o <<>> = f[n] /\ n + 0 = n
      BY <1>0, <2>0, ConcatEmptySeq
    <3>2. h[n + 0] = D(0)
      BY <1>5, <1>7, <3>1
    <3> HIDE DEF D
    <3> QED BY <1>0, <3>2
  <2>2. ASSUME NEW k \in 1 .. m, k - 1 \in P PROVE k \in P
    <3>1. n + k \in 1 .. n + m /\ (n + k) - 1 = n + (k - 1) /\ k \in 0 .. m /\ k - 1 \in 0 .. m
      BY <1>0
    <3>2. h[n + k] = h[(n + k) - 1] \o both[n + k] /\ both[n + k] = t[k]
      BY <1>a, <1>6, <3>1
    <3>a. h[n + (k - 1)] = D(k - 1)
      <4> HIDE DEF D
      <4> QED BY <2>2
    <3>3. h[n + k] = (f[n] \o g[k - 1]) \o t[k]
      BY <3>a, <3>1, <3>2
    <3>4. g[k - 1] \in Seq(V) /\ t[k] \in Seq(V) /\ g[k] = g[k - 1] \o t[k]
      BY <1>0, <1>5, <3>1
    <3>5. (f[n] \o g[k - 1]) \o t[k] = f[n] \o (g[k - 1] \o t[k])
      <4> DEFINE a == f[n]
                 b == g[k - 1]
                 d == t[k]
      <4>1. a \in Seq(V) /\ b \in Seq(V) /\ d \in Seq(V)
        BY <2>0, <3>4
      <4> HIDE DEF a, b, d
      <4>2. (a \o b) \o d = a \o (b \o d)
        BY <4>1, ConcatAssociative
      <4> QED BY <4>2 DEF a, b, d
    <3>6. h[n + k] = D(k)
      BY <3>3, <3>4, <3>5
    <3> HIDE DEF D
    <3> QED BY <3>1, <3>6
  <2>3. \A k \in 0 .. m : k \in P
    <3> HIDE DEF P
    <3> QED BY <1>0, <2>1, <2>2, UpTo
  <2>4. h[n + m] = D(m)
    <3> HIDE DEF D
    <3> QED BY <1>0, <2>3
  <2> QED BY <2>4
<1> QED BY <1>4, <1>5, <1>6, <1>8

-----------------------------------------------------------------------------
(* Everything up to some message has been framed: it is all that can be,   *)
(* and the pump has what it tells.                                         *)
Framed(c) ==
    /\ Stops(c, 1, arrived) /\ consumed = MessageStart(c + 1)
    /\ payloads = FlattenSeq([i \in 1 .. c |-> Tells(line[i])])
FrameInv ==
    /\ line \in Wires /\ reader \in {"inner", "converse"} /\ arrived \in Nat
    /\ \E c : Framed(c)

LEMMA TellsAre ==
    ASSUME line \in Wires, reader \in {"inner", "converse"}
    PROVE  \A k \in 1 .. Len(line) : /\ EventOf(line[k]) = Tells(line[k])
                                     /\ Tells(line[k]) \in Seq({"error", "event"})
<1> SUFFICES ASSUME NEW k \in 1 .. Len(line)
             PROVE  EventOf(line[k]) = Tells(line[k]) /\ Tells(line[k]) \in Seq({"error", "event"})
  OBVIOUS
<1>1. Distinguished(line[k].heads)
  BY WiresAre
<1> QED BY <1>1, EventIs

LEMMA TellsTyped ==
    ASSUME line \in Wires, reader \in {"inner", "converse"}, NEW e \in 0 .. Len(line)
    PROVE  /\ [i \in 1 .. e |-> Tells(line[i])] \in Seq(Seq({"error", "event"}))
           /\ Len([i \in 1 .. e |-> Tells(line[i])]) = e
<1> DEFINE V == Seq({"error", "event"})
           s == [i \in 1 .. e |-> Tells(line[i])]
<1>0. Len(line) \in Nat /\ e \in Nat
  BY WiresAre
<1>1. \A k \in 1 .. Len(line) : Tells(line[k]) \in V
  BY TellsAre
<1> HIDE DEF V
<1>2. s \in [1 .. e -> V]
  BY <1>0, <1>1
<1> HIDE DEF s
<1>3. s \in Seq(V) /\ Len(s) = e
  BY <1>0, <1>2, IsASeq, LenProperties
<1> QED BY <1>3 DEF s, V

LEMMA FrameStarts == FrameInit => FrameInv
<1> SUFFICES ASSUME FrameInit PROVE FrameInv
  OBVIOUS
<1> USE DEF FrameInit
<1>0. Len(line) \in Nat /\ 1 \in 1 .. Len(line) + 1 /\ 0 + 1 = 1
  BY WiresAre
<1>1. MessageStart(0 + 1) = 0
  BY MessageStarts
<1>2. FlattenSeq([i \in 1 .. 0 |-> Tells(line[i])]) = <<>>
  <2> DEFINE s == [i \in 1 .. 0 |-> Tells(line[i])]
  <2>1. s = <<>>
    OBVIOUS
  <2> HIDE DEF s
  <2>2. Len(s) = 0
    BY <2>1
  <2>3. FlattenSeq(s) = s
    BY <2>2 DEF FlattenSeq
  <2> QED BY <2>1, <2>3 DEF s
<1>3. Stops(0, 1, 0)
  <2>1. 0 \in 1 - 1 .. Len(line) /\ 1 .. 0 = {}
    BY <1>0
  <2>2. Len(line) # 0 => MessageStart(0 + 2) > 0
    <3> SUFFICES ASSUME Len(line) # 0 PROVE MessageStart(2) > 0
      OBVIOUS
    <3>1. 2 \in 1 .. Len(line) + 1 /\ 1 < 2
      BY <1>0
    <3>2. MessageStart(1) < MessageStart(2) /\ MessageStart(1) = 0 /\ MessageStart(2) \in Nat
      BY <1>0, <3>1, MessageStarts
    <3> QED BY <3>2
  <2> QED BY <2>1, <2>2 DEF Stops
<1>4. Framed(0)
  BY <1>1, <1>2, <1>3 DEF Framed
<1> QED BY <1>4 DEF FrameInv

LEMMA ReadKeeps == ASSUME FrameInv, NEW n \in 1 .. MaxRead, ReadsBytes(n) PROVE FrameInv'
<1> DEFINE upTo == arrived + n
           took == TakeMessages(upTo)
           L == Len(line)
<1>0. line \in Wires /\ reader \in {"inner", "converse"} /\ arrived \in Nat /\ L \in Nat /\ upTo \in Nat /\ arrived <= upTo
  <2>1. n \in Nat
    BY WireAssumption
  <2> QED BY <2>1, WiresAre DEF FrameInv
<1>1. PICK c : Framed(c)
  BY DEF FrameInv
<1>2. c \in 0 .. L /\ (\A j \in 1 .. c : Honest(line[j]) /\ MessageStart(j + 1) <= arrived)
  <2>1. c \in 1 - 1 .. L /\ (\A j \in 1 .. c : Honest(line[j]) /\ MessageStart(j + 1) <= arrived)
    BY <1>1 DEF Framed, Stops
  <2> QED BY <2>1
<1>3. consumed = MessageStart(c + 1) /\ consumed <= upTo /\ consumed \in Nat
  <2>1. consumed = MessageStart(c + 1) /\ c + 1 \in 1 .. L + 1
    BY <1>0, <1>1, <1>2 DEF Framed
  <2>2. consumed \in Nat
    BY <1>0, <2>1, MessageStarts
  <2>3. CASE c = 0
    <3>1. consumed = 0
      BY <1>0, <2>1, <2>3, MessageStarts
    <3> QED BY <1>0, <2>1, <3>1
  <2>4. CASE c # 0
    <3>1. c \in 1 .. c
      BY <1>2, <2>4
    <3> QED BY <1>0, <1>2, <2>1, <2>2, <3>1
  <2> QED BY <2>3, <2>4, <2>1, <2>2
<1>4. PICK e : Stops(e, c + 1, upTo) /\ took = [to |-> MessageStart(e + 1), messages |-> SubSeq(line, c + 1, e)]
  BY <1>0, <1>2, <1>3, AllMessagesTaken
<1>5. e \in c .. L /\ e \in 0 .. L
  <2>1. e \in (c + 1) - 1 .. L
    BY <1>4 DEF Stops
  <2> QED BY <1>0, <1>2, <2>1
<1>6. Stops(e, 1, upTo)
  <2>1. \A j \in 1 .. e : j \in 1 .. c \/ j \in c + 1 .. e
    BY <1>2, <1>5
  <2>2. \A j \in 1 .. c : MessageStart(j + 1) <= upTo
    <3> SUFFICES ASSUME NEW j \in 1 .. c PROVE MessageStart(j + 1) <= upTo
      OBVIOUS
    <3>1. j + 1 \in 1 .. L + 1
      BY <1>0, <1>2
    <3>2. MessageStart(j + 1) \in Nat
      BY <1>0, <3>1, MessageStarts
    <3>3. MessageStart(j + 1) <= arrived
      BY <1>2
    <3> HIDE DEF upTo
    <3> QED BY <1>0, <3>2, <3>3
  <2>3. e \in 1 - 1 .. L
    BY <1>5
  <2> QED BY <1>2, <1>4, <2>1, <2>2, <2>3 DEF Stops
<1> DEFINE all == [i \in 1 .. e |-> Tells(line[i])]
           old == [i \in 1 .. c |-> Tells(line[i])]
           events == [i \in DOMAIN took.messages |-> EventOf(took.messages[i])]
           V == {"error", "event"}
<1>7. /\ took.to = MessageStart(e + 1) /\ DOMAIN took.messages = 1 .. e - c
      /\ \A k \in 1 .. e - c : took.messages[k] = line[c + k]
  <2> DEFINE M == [heads : Seq(Header), headers : Int, payload : STRING, size : Nat \ {0}, total : Int]
             part == SubSeq(line, c + 1, e)
  <2>1. line \in Seq(M)
    BY <1>0, WiresAre
  <2> HIDE DEF M
  <2>2. part = [k \in 1 .. e - c |-> line[c + k]]
    <3>1. e - (c + 1) + 1 = e - c /\ (c + 1) \in 1 .. L + 1 /\ e \in (c + 1) - 1 .. L
      BY <1>0, <1>2, <1>5
    <3>2. ASSUME NEW k \in 1 .. e - c PROVE (c + 1) + k - 1 = c + k
      BY <1>2, <1>5
    <3>3. Len(part) = e - c /\ part \in Seq(M) /\ \A k \in 1 .. e - c : part[k] = line[c + k]
      BY <1>2, <1>5, <2>1, <3>1, <3>2, SubSeqProperties
    <3> HIDE DEF part
    <3>4. DOMAIN part = 1 .. e - c /\ part = [k \in DOMAIN part |-> part[k]]
      BY <3>3
    <3> QED BY <3>3, <3>4
  <2> HIDE DEF part
  <2>3. took.messages = part /\ took.to = MessageStart(e + 1)
    BY <1>4 DEF part
  <2> QED BY <2>2, <2>3
<1> HIDE DEF took
<1>8. events = [k \in 1 .. e - c |-> Tells(line[c + k])]
  <2>1. ASSUME NEW k \in 1 .. e - c PROVE EventOf(took.messages[k]) = Tells(line[c + k])
    <3>1. c + k \in 1 .. L
      BY <1>2, <1>5
    <3> QED BY <1>0, <1>7, <3>1, TellsAre
  <2> QED BY <1>7, <2>1
<1>9. events \in Seq(Seq(V)) /\ Len(events) = e - c /\ \A k \in 1 .. e - c : events[k] = Tells(line[c + k])
  <2>1. ASSUME NEW k \in 1 .. e - c PROVE Tells(line[c + k]) \in Seq(V)
    <3>1. c + k \in 1 .. L
      BY <1>2, <1>5
    <3> QED BY <1>0, <3>1, TellsAre
  <2> DEFINE W == Seq(V)
  <2>2. \A k \in 1 .. e - c : Tells(line[c + k]) \in W
    BY <2>1
  <2> HIDE DEF W
  <2>3. events \in [1 .. e - c -> W] /\ e - c \in Nat /\ \A k \in 1 .. e - c : events[k] = Tells(line[c + k])
    <3>1. e - c \in Nat
      BY <1>2, <1>5
    <3> HIDE DEF events
    <3> QED BY <1>8, <2>2, <3>1
  <2> HIDE DEF events
  <2>4. events \in Seq(W) /\ Len(events) = e - c
    BY <2>3, IsASeq, LenProperties
  <2> QED BY <2>3, <2>4 DEF W
<1>10. FlattenSeq(all) = FlattenSeq(old) \o FlattenSeq(events)
  <2>1. all \in Seq(Seq(V)) /\ Len(all) = e /\ old \in Seq(Seq(V)) /\ Len(old) = c
    BY <1>0, <1>2, <1>5, TellsTyped
  <2>2. (\A k \in 1 .. c : all[k] = old[k]) /\ \A k \in 1 .. e - c : all[c + k] = Tells(line[c + k])
    <3>1. (\A k \in 1 .. c : k \in 1 .. e) /\ \A k \in 1 .. e - c : c + k \in 1 .. e
      BY <1>2, <1>5
    <3> QED BY <3>1
  <2> HIDE DEF all, old, events, V
  <2>3. e = c + (e - c)
    BY <1>2, <1>5
  <2>4. Len(all) = Len(old) + Len(events)
    BY <1>9, <2>1, <2>3
  <2>5. (\A k \in 1 .. Len(old) : all[k] = old[k]) /\ \A k \in 1 .. Len(events) : all[Len(old) + k] = events[k]
    BY <1>9, <2>1, <2>2
  <2> QED BY <1>9, <2>1, <2>4, <2>5, FlattenBoth
<1>11. /\ arrived' = upTo /\ consumed' = took.to /\ payloads' = payloads \o FlattenSeq(events)
       /\ line' = line /\ reader' = reader
  BY DEF ReadsBytes, took
<1>12. payloads' = FlattenSeq(all)
  <2>1. payloads = FlattenSeq(old)
    BY <1>1 DEF Framed
  <2> HIDE DEF all, old, events
  <2> QED BY <1>10, <1>11, <2>1
<1>13. Framed(e)'
  <2>1. (\A i : MessageStart(i)' = MessageStart(i)) /\ (\A i : Tells(line[i])' = Tells(line[i]))
    BY <1>11 DEF MessageStart, Tells, Says
  <2>2. \A i : Honest(line[i])' <=> Honest(line[i])
    BY <1>11
  <2>3. Stops(e, 1, arrived)'
    BY <1>6, <1>11, <2>1, <2>2 DEF Stops
  <2>4. [i \in 1 .. e |-> Tells(line[i])]' = all
    BY <1>11, <2>1
  <2>5. (consumed = MessageStart(e + 1))'
    BY <1>7, <1>11, <2>1
  <2>6. (payloads = FlattenSeq([i \in 1 .. e |-> Tells(line[i])]))'
    <3> HIDE DEF all
    <3> QED BY <1>12, <2>4
  <2> QED BY <2>3, <2>5, <2>6 DEF Framed
<1>14. line' \in Wires /\ reader' \in {"inner", "converse"} /\ arrived' \in Nat
  BY <1>0, <1>11
<1> QED BY <1>13, <1>14 DEF FrameInv

LEMMA FrameStep == FrameInv /\ [FrameNext]_frameVars => FrameInv'
<1> SUFFICES ASSUME FrameInv, [FrameNext]_frameVars PROVE FrameInv'
  OBVIOUS
<1>1. ASSUME UNCHANGED <<line, reader, arrived, consumed, payloads>> PROVE FrameInv'
  <2>1. PICK c : Framed(c)
    BY DEF FrameInv
  <2>2. Framed(c)'
    BY <1>1, <2>1 DEF Framed, Stops, MessageStart, Tells, Says, Honest
  <2> QED BY <1>1, <2>2 DEF FrameInv
<1>2. ASSUME NEW n \in 1 .. MaxRead, ReadsBytes(n) PROVE FrameInv'
  BY <1>2, ReadKeeps
<1> QED BY <1>1, <1>2 DEF FrameNext, BodyEnds, frameVars

(* However a stream is cut into reads, the pump is given what its messages *)
(* say: every message that is there in full, each once, whole and in       *)
(* order, and none from behind a prelude no message can have.              *)
THEOREM FramesAreKept == FrameSpec => []FramesKept
<1>1. FrameInv => FramesKept
  <2> SUFFICES ASSUME FrameInv PROVE FramesKept
    OBVIOUS
  <2> DEFINE L == Len(line)
             whole == {i \in DOMAIN line : MessageStart(i + 1) <= arrived /\ \A j \in 1 .. i : Honest(line[j])}
  <2>0. line \in Wires /\ L \in Nat /\ DOMAIN line = 1 .. L /\ arrived \in Nat
    BY WiresAre DEF FrameInv
  <2>1. PICK c : Framed(c)
    BY DEF FrameInv
  <2>2. /\ c \in 0 .. L /\ (\A j \in 1 .. c : Honest(line[j]) /\ MessageStart(j + 1) <= arrived)
        /\ c = L \/ ~ Honest(line[c + 1]) \/ MessageStart(c + 2) > arrived
    <3>1. /\ c \in 1 - 1 .. L /\ (\A j \in 1 .. c : Honest(line[j]) /\ MessageStart(j + 1) <= arrived)
          /\ c = L \/ ~ Honest(line[c + 1]) \/ MessageStart(c + 2) > arrived
      BY <2>1 DEF Framed, Stops
    <3> QED BY <3>1
  <2>a. whole = {i \in 1 .. L : MessageStart(i + 1) <= arrived /\ \A j \in 1 .. i : Honest(line[j])}
    BY <2>0
  <2> HIDE DEF L, whole
  <2>3. ASSUME NEW i \in 1 .. c PROVE i \in whole
    <3>1. i \in 1 .. L /\ \A j \in 1 .. i : j \in 1 .. c
      BY <2>0, <2>2
    <3> QED BY <2>a, <2>2, <3>1
  <2>4. ASSUME NEW i \in whole PROVE i \in 1 .. c
    <3>0. i \in 1 .. L /\ MessageStart(i + 1) <= arrived /\ \A j \in 1 .. i : Honest(line[j])
      BY <2>a
    <3> SUFFICES ASSUME i > c PROVE FALSE
      BY <2>0, <2>2, <3>0
    <3>1. i \in 1 .. L /\ c + 1 \in 1 .. i /\ c # L /\ c + 2 \in 1 .. L + 1 /\ i + 1 \in 1 .. L + 1
      BY <2>0, <2>2, <3>0
    <3>2. MessageStart(c + 2) > arrived
      BY <2>2, <3>0, <3>1
    <3>3. c + 2 = i + 1 \/ c + 2 < i + 1
      BY <2>0, <2>2, <3>1
    <3>4. MessageStart(c + 2) \in Nat /\ MessageStart(i + 1) \in Nat /\ MessageStart(c + 2) <= MessageStart(i + 1)
      BY <2>0, <3>1, <3>3, MessageStarts DEF L
    <3> QED BY <2>0, <3>0, <3>2, <3>4
  <2>5. Cardinality(whole) = c
    <3>1. whole = 1 .. c
      BY <2>3, <2>4
    <3>2. c \in Nat
      BY <2>0, <2>2
    <3>3. Cardinality(1 .. c) = c
      BY <3>2, FS_Interval
    <3> QED BY <3>1, <3>3
  <2>6. payloads = FlattenSeq([i \in 1 .. c |-> Tells(line[i])])
    BY <2>1 DEF Framed
  <2> QED BY <2>5, <2>6 DEF FramesKept, whole
<1> QED BY <1>1, FrameStarts, FrameStep, PTL DEF FrameSpec
=============================================================================
