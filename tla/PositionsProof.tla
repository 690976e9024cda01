---------------------------- MODULE PositionsProof ----------------------------
(* The reconciliation of positions for any symbols, groups, quantities and   *)
(* manual sales: its quantities are integers of the right sign, no exit it   *)
(* cancels is forgotten at TWS unless cancelOrder raises, and what it books  *)
(* is what was missing.                                                      *)
EXTENDS Positions, FiniteSetTheorems, TLAPS

\* The part of the types that the argument needs.
OrderTypes ==
    /\ order \in [Order -> {"unsent", "waiting", "working", "filled", "cancelled"}]
    /\ status \in [Order -> {"Created", "Submitted", "Filled", "Cancelled"}]

\* An order whose row is Created is not at TWS, and no run treats it as sent: a row
\* never becomes Created again.
CreatedIsUnsent ==
    \A o \in Order : status[o] = "Created"
                         => order[o] = "unsent" /\ o \notin rOrders /\ o \notin recalled

\* The inductive invariant: an order that is over stays over, and a request to
\* cancel is withdrawn from `recalled` only when the order is.
Recalled == OrderTypes /\ CancelledIsRecalled /\ CreatedIsUnsent

\* In the beginning no row is cancelled.
LEMMA InitRecalled == Init => Recalled
  BY DEF Init, Recalled, OrderTypes, CancelledIsRecalled, CreatedIsUnsent, Order, Bought,
         Refused

\* Every step keeps it: CancelExit asks TWS, in vain if it raises, before it writes the
\* row, CancelUnsent writes only rows that are still Created, TwsCancels ends the order,
\* Execute fills only working orders.
LEMMA StepRecalled ==
  ASSUME Recalled, [Next]_vars
  PROVE  Recalled'
<1> USE DEF Recalled, OrderTypes, CancelledIsRecalled, CreatedIsUnsent, dbVars, twsVars, taskVars, recVars
<1>1. ASSUME NEW o \in Order, Execute(o) PROVE Recalled'
  BY <1>1 DEF Execute, Order
<1>2. ASSUME NEW o \in Order, TwsCancels(o) PROVE Recalled'
  BY <1>2 DEF TwsCancels
<1>3. ASSUME NEW s \in Symbol, Report(s) \/ Sell(s) PROVE Recalled'
  BY <1>3 DEF Report, Sell
<1>4. ASSUME NEW o \in Order, SaveExecution(o) PROVE Recalled'
  BY <1>4 DEF SaveExecution
<1>5. ASSUME NEW o \in Order, WriteFilled(o) PROVE Recalled'
  BY <1>5 DEF WriteFilled
<1>6. ASSUME NEW g \in Group, Send(g) \/ Settle(g) PROVE Recalled'
  <2>1. CASE Settle(g)
    BY <2>1 DEF Settle
  <2>2. CASE Send(g)
    BY <2>2 DEF Send
  <2> QED
    BY <1>6, <2>1, <2>2
<1>7. CASE RecoverOrders
  BY <1>7 DEF RecoverOrders
<1>8. CASE ReadPositions \/ ReadExecutions \/ SurplusDone \/ DeficitDone
  BY <1>8 DEF ReadPositions, ReadExecutions, SurplusDone, DeficitDone, Return
<1>9. ASSUME NEW s \in Symbol, BookSurplus(s) \/ ReadExits(s) PROVE Recalled'
  BY <1>9 DEF BookSurplus, ReadExits, Return
<1>10. ASSUME NEW o \in Order, CancelExit(o) \/ CancelUnsent(o) PROVE Recalled'
  <2>1. CASE CancelExit(o)
    BY <2>1 DEF CancelExit
  <2>2. CASE CancelUnsent(o)
    BY <2>2 DEF CancelUnsent
  <2> QED
    BY <1>10, <2>1, <2>2
<1>11. CASE ReadEntries \/ SettleClosed \/ SymbolDone
  BY <1>11 DEF ReadEntries, SettleClosed, SymbolDone
<1>12. ASSUME NEW b \in Book, Close(b) PROVE Recalled'
  BY <1>12 DEF Close, Return
<1>13. CASE UNCHANGED vars
  BY <1>13 DEF vars
<1> QED
  BY <1>1, <1>2, <1>3, <1>4, <1>5, <1>6, <1>7, <1>8, <1>9, <1>10, <1>11, <1>12,
     <1>13 DEF Next, Broker, Callbacks, Run

\* A row that was cancelled for a deficit names an order that is over, was never sent,
\* or that TWS has been asked to cancel, but for those whose cancelOrder raised: no other
\* exit stays working unnoticed, even if one is sent in between (recovery.py 800-847).
THEOREM CancelsAtTws == Spec => []CancelledIsRecalled
<1>1. Init => Recalled
  BY InitRecalled
<1>2. Recalled /\ [Next]_vars => Recalled'
  BY StepRecalled
<1>3. Recalled => CancelledIsRecalled
  BY DEF Recalled
<1> QED
  BY <1>1, <1>2, <1>3, PTL DEF Spec

----------------------------------------------------------------------------
(* Sums over finite sets: the recursive function they are made of exists,  *)
(* because a set on which it does not would have a smallest such subset.   *)

\* A family of subsets of a finite set has a smallest member.
LEMMA SmallestSubset ==
    ASSUME NEW S, IsFiniteSet(S), NEW C, C \subseteq SUBSET S, C # {}
    PROVE  \E T \in C : \A U \in C : U \subseteq T => U = T
<1>1. IsWellFoundedOn(StrictSubsetOrdering(S), SUBSET S)
  BY FS_StrictSubsetOrderingWellFounded, FS_FiniteSubsetsOfFinite
<1>2. PICK T \in C : \A U \in C : ~ (<<U, T>> \in StrictSubsetOrdering(S))
  BY <1>1, WFMin
<1>3. \A U \in C : U \subseteq T /\ U # T => <<U, T>> \in StrictSubsetOrdering(S)
  BY DEF StrictSubsetOrdering
<1>4. \A U \in C : U \subseteq T => U = T  BY <1>2, <1>3
<1> QED  BY <1>4, Zenon

Some(U) == CHOOSE x \in U : TRUE

\* g sums f over every subset of T, taking one element after the other.
IsSum(g, f, T) ==
    g = [U \in SUBSET T |-> IF U = {} THEN 0 ELSE f[Some(U)] + g[U \ {Some(U)}]]

LEMMA SumAt ==
    ASSUME NEW f, NEW T, NEW g, IsSum(g, f, T), NEW U \in SUBSET T
    PROVE  g[U] = IF U = {} THEN 0 ELSE f[Some(U)] + g[U \ {Some(U)}]
BY DEF IsSum

LEMMA Fewer ==
    ASSUME NEW U, U # {}
    PROVE  Some(U) \in U /\ U \ {Some(U)} \subseteq U /\ U \ {Some(U)} # U
BY DEF Some

\* Two such functions agree.
LEMMA SumUnique ==
    ASSUME NEW S, IsFiniteSet(S), NEW f, NEW T \in SUBSET S, NEW R \in SUBSET T,
           NEW g, IsSum(g, f, T), NEW h, IsSum(h, f, R)
    PROVE  \A U \in SUBSET R : g[U] = h[U]
<1> DEFINE C == {U \in SUBSET R : g[U] # h[U]}
<1>1. SUFFICES ASSUME C # {} PROVE FALSE  OBVIOUS
<1>2. PICK V \in C : \A U \in C : U \subseteq V => U = V
  <2>1. C \subseteq SUBSET S  OBVIOUS
  <2> HIDE DEF C
  <2> QED  BY <1>1, <2>1, SmallestSubset
<1>3. V \in SUBSET R /\ V \in SUBSET T /\ g[V] # h[V]  OBVIOUS
<1>4. V # {}  BY <1>3, SumAt
<1>5. Some(V) \in V /\ V \ {Some(V)} \subseteq V /\ V \ {Some(V)} # V  BY <1>4, Fewer
<1>6. g[V \ {Some(V)}] = h[V \ {Some(V)}]  BY <1>2, <1>3, <1>5
<1> QED
  <2>1. g[V] = f[Some(V)] + g[V \ {Some(V)}]  BY <1>3, <1>4, SumAt
  <2>2. h[V] = f[Some(V)] + h[V \ {Some(V)}]  BY <1>3, <1>4, SumAt
  <2> QED  BY <1>3, <1>6, <2>1, <2>2

\* There is one: otherwise a smallest set lacks it, but sums over its parts make it up.
LEMMA SumExists ==
    ASSUME NEW S, IsFiniteSet(S), NEW f
    PROVE  \E g : IsSum(g, f, S)
<1> DEFINE C == {T \in SUBSET S : \A g : ~ IsSum(g, f, T)}
<1>1. SUFFICES ASSUME C # {} PROVE FALSE
  OBVIOUS
<1>2. PICK T \in C : \A U \in C : U \subseteq T => U = T
  <2>1. C \subseteq SUBSET S  OBVIOUS
  <2> HIDE DEF C
  <2> QED  BY <1>1, <2>1, SmallestSubset
<1>3. T \in SUBSET S /\ \A g : ~ IsSum(g, f, T)  OBVIOUS
<1> DEFINE part(U) == CHOOSE g : IsSum(g, f, U)
           whole(U) == IF U = {} THEN 0 ELSE f[Some(U)] + part(U \ {Some(U)})[U \ {Some(U)}]
           h == [U \in SUBSET T |-> whole(U)]
<1>4. \A U \in SUBSET T : U # T => IsSum(part(U), f, U)
  <2> SUFFICES ASSUME NEW U \in SUBSET T, U # T PROVE IsSum(part(U), f, U)  OBVIOUS
  <2>1. \E g : IsSum(g, f, U)  BY <1>2, <1>3
  <2> QED  BY <2>1
<1> HIDE DEF part
<1>5. \A U \in SUBSET T : U # T => whole(U) = part(U)[U]
  <2> SUFFICES ASSUME NEW U \in SUBSET T, U # T PROVE whole(U) = part(U)[U]  OBVIOUS
  <2>1. IsSum(part(U), f, U)  BY <1>4
  <2>2. CASE U = {}
    <3>1. part(U)[U] = 0  BY <2>1, <2>2, SumAt
    <3> QED  BY <2>2, <3>1
  <2>3. CASE U # {}
    <3> DEFINE W == U \ {Some(U)}
    <3>1. W \in SUBSET U /\ W # U /\ Some(U) \in U  BY <2>3, Fewer
    <3>2. W \in SUBSET T /\ W # T /\ U \in SUBSET S  BY <1>3, <3>1
    <3>3. IsSum(part(W), f, W)  BY <1>4, <3>2
    <3>4. part(U)[W] = part(W)[W]  BY <2>1, <3>1, <3>2, <3>3, SumUnique
    <3>5. part(U)[U] = f[Some(U)] + part(U)[W]  BY <2>1, <2>3, SumAt
    <3> QED  BY <2>3, <3>4, <3>5
  <2> QED  BY <2>2, <2>3
<1>6. \A U \in SUBSET T : whole(U) = IF U = {} THEN 0 ELSE f[Some(U)] + h[U \ {Some(U)}]
  <2> SUFFICES ASSUME NEW U \in SUBSET T, U # {}
               PROVE  whole(U) = f[Some(U)] + h[U \ {Some(U)}]
    OBVIOUS
  <2> DEFINE W == U \ {Some(U)}
  <2>1. W \in SUBSET T /\ W # T  BY Fewer
  <2>2. h[W] = whole(W)  BY <2>1
  <2>3. whole(W) = part(W)[W]  BY <1>5, <2>1
  <2>4. whole(U) = f[Some(U)] + part(W)[W]  OBVIOUS
  <2> HIDE DEF whole, h, W
  <2>5. whole(U) = f[Some(U)] + h[W]  BY <2>2, <2>3, <2>4
  <2> QED  BY <2>5 DEF W
<1>7. IsSum(h, f, T)
  <2>1. h = [U \in SUBSET T |-> IF U = {} THEN 0 ELSE f[Some(U)] + h[U \ {Some(U)}]]
    BY <1>6
  <2> HIDE DEF h
  <2> QED  BY <2>1 DEF IsSum
<1> QED  BY <1>3, <1>7

\* The operator's value is that of such a function, and integers sum up to integers.
LEMMA SumIs ==
    ASSUME NEW S, IsFiniteSet(S), NEW f, \A x \in S : f[x] \in Int
    PROVE  \E g : /\ IsSum(g, f, S) /\ SumFunctionOnSet(f, S) = g[S]
                 /\ \A U \in SUBSET S : g[U] \in Int
<1> DEFINE iter == CHOOSE g : IsSum(g, f, S)
<1>1. IsSum(iter, f, S)  BY SumExists
<1>2. SumFunctionOnSet(f, S) = iter[S]
  BY Zenon DEF SumFunctionOnSet, FoldFunctionOnSet, MapThenFoldSet, IsSum, Some
<1> HIDE DEF iter
<1> DEFINE C == {U \in SUBSET S : iter[U] \notin Int}
<1>3. ASSUME C # {} PROVE FALSE
  <2>1. C \subseteq SUBSET S  OBVIOUS
  <2>2. PICK V \in C : \A U \in C : U \subseteq V => U = V
    <3> HIDE DEF C
    <3> QED  BY <1>3, <2>1, SmallestSubset
  <2>3. V \in SUBSET S /\ iter[V] \notin Int  OBVIOUS
  <2>4. V # {}
    <3>1. V = {} => iter[V] = 0  BY <1>1, <2>3, SumAt
    <3> QED  BY <2>3, <3>1, SMT
  <2>5. Some(V) \in V /\ V \ {Some(V)} \subseteq V /\ V \ {Some(V)} # V  BY <2>4, Fewer
  <2>6. iter[V \ {Some(V)}] \in Int  BY <2>2, <2>3, <2>5
  <2>7. iter[V] = f[Some(V)] + iter[V \ {Some(V)}]  BY <1>1, <2>3, <2>4, SumAt
  <2> QED  BY <2>3, <2>5, <2>6, <2>7
<1>4. \A U \in SUBSET S : iter[U] \in Int  BY <1>3
<1> QED  BY <1>1, <1>2, <1>4

LEMMA SumTyped ==
    ASSUME NEW S, IsFiniteSet(S), NEW f, \A x \in S : f[x] \in Int
    PROVE  SumFunctionOnSet(f, S) \in Int
BY SumIs

\* A sum changes as the one summand that differs.
LEMMA SumChanges ==
    ASSUME NEW S, IsFiniteSet(S), NEW f, NEW h, NEW b \in S,
           \A x \in S : f[x] \in Int /\ h[x] \in Int,
           \A x \in S \ {b} : h[x] = f[x]
    PROVE  SumFunctionOnSet(h, S) = SumFunctionOnSet(f, S) + (h[b] - f[b])
<1>1. PICK g : /\ IsSum(g, f, S) /\ SumFunctionOnSet(f, S) = g[S]
               /\ \A U \in SUBSET S : g[U] \in Int
  BY SumIs
<1>2. PICK k : /\ IsSum(k, h, S) /\ SumFunctionOnSet(h, S) = k[S]
               /\ \A U \in SUBSET S : k[U] \in Int
  BY SumIs
<1>3. /\ \A U \in SUBSET S : g[U] = IF U = {} THEN 0 ELSE f[Some(U)] + g[U \ {Some(U)}]
      /\ \A U \in SUBSET S : k[U] = IF U = {} THEN 0 ELSE h[Some(U)] + k[U \ {Some(U)}]
  <2>1. IsSum(g, f, S)  BY <1>1
  <2>2. IsSum(k, h, S)  BY <1>2
  <2> QED  BY <2>1, <2>2 DEF IsSum
<1> DEFINE rise(U) == IF b \in U THEN h[b] - f[b] ELSE 0
           C == {U \in SUBSET S : k[U] # g[U] + rise(U)}
<1>4. \A U \in SUBSET S : U = {} => k[U] = g[U] + rise(U)
  <2> SUFFICES ASSUME NEW U \in SUBSET S, U = {} PROVE k[U] = g[U] + rise(U)  OBVIOUS
  <2>1. k[U] = 0  BY <1>3
  <2>2. g[U] = 0  BY <1>3
  <2>3. rise(U) = 0  OBVIOUS
  <2> HIDE DEF rise
  <2> QED  BY <2>1, <2>2, <2>3
<1>5. ASSUME C # {} PROVE FALSE
  <2>1. C \subseteq SUBSET S  OBVIOUS
  <2>2. PICK V \in C : \A U \in C : U \subseteq V => U = V
    <3> HIDE DEF C
    <3> QED  BY <1>5, <2>1, SmallestSubset
  <2>3. V \in SUBSET S /\ k[V] # g[V] + rise(V)  OBVIOUS
  <2>4. V # {}
    <3> HIDE DEF rise
    <3> QED  BY <1>4, <2>3
  <2> DEFINE x == Some(V)
             W == V \ {x}
  <2>5. x \in V /\ W \subseteq V /\ W # V /\ x \notin W  BY <2>4, Fewer
  <2>6. W \in SUBSET S /\ k[W] = g[W] + rise(W)
    <3>1. W \notin C  BY <2>2, <2>5
    <3> QED  BY <2>3, <2>5, <3>1
  <2>7. k[V] = h[x] + k[W]  BY <1>3, <2>3, <2>4
  <2>8. g[V] = f[x] + g[W]  BY <1>3, <2>3, <2>4
  <2>9. x \in S /\ f[x] \in Int /\ h[x] \in Int /\ f[b] \in Int /\ h[b] \in Int
    BY <2>3, <2>5
  <2>10. g[W] \in Int  BY <1>1, <2>6
  <2>11. x # b => h[x] = f[x]  BY <2>9
  <2>12. rise(V) = (h[x] - f[x]) + rise(W) /\ rise(W) \in Int
    <3>1. b \in V => x = b \/ b \in W  OBVIOUS
    <3> HIDE DEF x, W
    <3> QED  BY <2>5, <2>9, <2>11, <3>1
  <2> HIDE DEF x, W, rise, C
  <2> QED  BY <2>3, <2>6, <2>7, <2>8, <2>9, <2>10, <2>12
<1>6. k[S] = g[S] + rise(S)
  <2> HIDE DEF rise
  <2> QED  BY <1>5
<1> QED  BY <1>1, <1>2, <1>6

----------------------------------------------------------------------------
(* The types.                                                              *)

\* A run has a symbol in hand while it cancels, and a book while it settles; the
\* symbols left for the second half have a deficit in what the run has read.
RunInv ==
    /\ rpc = "cancel" => rSymbol \in Symbol
    /\ rpc = "settle" => rSettle \in Book
    /\ rpc \in {"deficit", "cancel", "close", "settle"} => \A s \in rLeft : Deficit(s)

USE PositionsAssumption

LEMMA BooksFinite ==
    \A s \in Symbol : BookOf(s) \subseteq Book /\ IsFiniteSet(BookOf(s))
<1> SUFFICES ASSUME NEW s \in Symbol PROVE BookOf(s) \subseteq Book /\ IsFiniteSet(BookOf(s))
  OBVIOUS
<1> DEFINE own == {g \in Group : SymbolOf[g] = s}
<1>1. IsFiniteSet(own)
  <2>1. own \subseteq Group /\ IsFiniteSet(Group)  BY DEF PositionsAssumption
  <2> HIDE DEF own
  <2> QED  BY <2>1, FS_Subset
<1>2. IsFiniteSet({s} \cup own)  BY <1>1, FS_Singleton, FS_Union
<1>3. BookOf(s) = {s} \cup own  BY DEF BookOf
<1> QED  BY <1>2, <1>3 DEF Book

LEMMA AmountTyped == TypeOK => \A b \in Book : Amount[b] \in Int
<1> SUFFICES ASSUME TypeOK, NEW b \in Book PROVE Amount[b] \in Int  OBVIOUS
<1>1. closed[b] \in Nat  BY DEF TypeOK
<1>2. CASE b \in Symbol
  <2>1. lot[b] \in Nat  BY <1>2 DEF TypeOK
  <2> QED  BY <1>1, <1>2, <2>1 DEF Amount
<1>3. CASE b \notin Symbol
  <2>1. Size[b] \in Nat  BY <1>3 DEF Book, PositionsAssumption
  <2> QED  BY <1>1, <1>3, <2>1 DEF Amount
<1> QED  BY <1>2, <1>3

LEMMA AmountTypedNext == TypeOK' => (\A b \in Book : Amount[b] \in Int)'
BY AmountTyped, PTL

\* What a run counts for a symbol is a number.
LEMMA NetTyped ==
    ASSUME TypeOK, NEW s \in Symbol
    PROVE  Net(s) \in Int
<1>1. \A b \in Book : Amount[b] \in Int  BY AmountTyped
<1>2. IsFiniteSet(BookOf(s) \ settled) /\ BookOf(s) \ settled \subseteq Book
  <2>1. BookOf(s) \subseteq Book /\ IsFiniteSet(BookOf(s))  BY BooksFinite
  <2> QED  BY <2>1, FS_Subset
<1>3. SumFunctionOnSet(Amount, BookOf(s) \ settled) \in Int
  BY <1>1, <1>2, SumTyped
<1> QED  BY <1>3 DEF Net

\* What TWS holds in the beginning is a number.
LEMMA HeldTyped ==
    ASSUME NEW s \in Symbol
    PROVE  SumFunctionOnSet(Size, BookOf(s) \cap Held) \in Int
<1>1. IsFiniteSet(BookOf(s) \cap Held)
  BY BooksFinite, FS_Subset
<1>2. \A g \in BookOf(s) \cap Held : Size[g] \in Int  BY DEF PositionsAssumption
<1> QED  BY <1>1, <1>2, SumTyped

LEMMA InitTypes == Init => TypeOK /\ RunInv
<1> SUFFICES ASSUME Init PROVE TypeOK /\ RunInv  OBVIOUS
<1>1. held \in [Symbol -> Int] /\ seen \in [Symbol -> Int]
  <2> DEFINE first(s) == (IF s \in Steady THEN 1 ELSE 0)
                         + SumFunctionOnSet(Size, BookOf(s) \cap Held)
  <2>1. \A s \in Symbol : first(s) \in Int
    <3> SUFFICES ASSUME NEW s \in Symbol PROVE first(s) \in Int  OBVIOUS
    <3>1. SumFunctionOnSet(Size, BookOf(s) \cap Held) \in Int  BY HeldTyped
    <3> QED  BY <3>1
  <2>2. held = [s \in Symbol |-> first(s)] /\ seen = held  BY DEF Init
  <2> HIDE DEF first
  <2> QED  BY <2>1, <2>2
<1>2. Bought \subseteq Order  BY DEF Bought, Order, PositionsAssumption
<1>3. Nothing \in [Symbol -> Int] /\ Nothing \in [Symbol -> Nat]  BY DEF Nothing
<1>4. sells \in 0..MaxSells  BY DEF Init, PositionsAssumption
<1>5. /\ order \in [Order -> {"unsent", "waiting", "working", "filled", "cancelled"}]
      /\ status \in [Order -> {"Created", "Submitted", "Filled", "Cancelled"}]
      /\ closed \in [Book -> Nat]
  BY DEF Init
<1>6. TypeOK  BY <1>1, <1>2, <1>3, <1>4, <1>5 DEF Init, TypeOK
<1>7. RunInv  BY DEF Init, RunInv
<1> QED  BY <1>6, <1>7

\* A step of TWS or of a callback leaves the run alone.
LEMMA RunKept ==
    ASSUME RunInv, UNCHANGED recVars
    PROVE  RunInv'
BY DEF RunInv, recVars, Deficit

LEMMA BrokerTypes ==
    ASSUME TypeOK, RunInv, Broker
    PROVE  TypeOK' /\ RunInv'
<1>1. UNCHANGED <<dbVars, recVars, due>>
      /\ (UNCHANGED <<arrived, told>> \/ \E o \in Order : Execute(o))
  BY DEF Broker, Report, Sell, Execute, TwsCancels, taskVars
<1>2. RunInv'  BY <1>1, RunKept
<1>3. ASSUME NEW s \in Symbol, NEW n \in Int, Moved(s, n)
      PROVE  held' \in [Symbol -> Int] /\ seen' \in [Symbol -> Int]
  <2>1. held[s] + n \in Int /\ seen[s] + n \in Int  BY DEF TypeOK
  <2> QED  BY <1>3, <2>1 DEF Moved, TypeOK
<1> DEFINE typed ==
        /\ held \in [Symbol -> Int] /\ seen \in [Symbol -> Int]
        /\ order \in [Order -> {"unsent", "waiting", "working", "filled", "cancelled"}]
        /\ recalled \subseteq Order /\ forgotten \subseteq Order /\ sells \in 0..MaxSells
        /\ arrived \subseteq Order /\ told \subseteq Order
<1>4. typed'
  <2>1. ASSUME NEW s \in Symbol, Report(s)  PROVE typed'
    BY <2>1 DEF Report, TypeOK, taskVars
  <2>2. ASSUME NEW s \in Symbol, Sell(s)  PROVE typed'
    <3>1. 0 - 1 \in Int /\ Moved(s, 0 - 1)  BY <2>2 DEF Sell
    <3>2. held' \in [Symbol -> Int] /\ seen' \in [Symbol -> Int]  BY <1>3, <3>1
    <3>3. sells' \in 0..MaxSells  BY <2>2 DEF Sell, TypeOK, PositionsAssumption
    <3> QED  BY <2>2, <3>2, <3>3 DEF Sell, TypeOK, taskVars
  <2>3. ASSUME NEW o \in Order, Execute(o)  PROVE typed'
    <3>1. o[2] \in Group  BY DEF Order
    <3>2. SymbolOf[o[2]] \in Symbol /\ Size[o[2]] \in Nat
      BY <3>1 DEF PositionsAssumption
    <3> DEFINE n == IF o[1] = "ENTRY" THEN Size[o[2]] ELSE 0 - Size[o[2]]
    <3>3. n \in Int  BY <3>2
    <3>4. Moved(SymbolOf[o[2]], n)  BY <2>3 DEF Execute
    <3> HIDE DEF n
    <3>5. held' \in [Symbol -> Int] /\ seen' \in [Symbol -> Int]
      BY <1>3, <3>2, <3>3, <3>4
    <3>6. order' \in [Order -> {"unsent", "waiting", "working", "filled", "cancelled"}]
      BY <2>3 DEF Execute, TypeOK
    <3>7. recalled' = recalled /\ forgotten' = forgotten /\ sells' = sells /\ arrived' = arrived \cup {o}
          /\ told' = told \cup {o}
      BY <2>3 DEF Execute
    <3> QED  BY <3>5, <3>6, <3>7 DEF TypeOK
  <2>4. ASSUME NEW o \in Order, TwsCancels(o)  PROVE typed'
    BY <2>4 DEF TwsCancels, TypeOK, taskVars
  <2> QED  BY <2>1, <2>2, <2>3, <2>4 DEF Broker
<1>5. TypeOK'  BY <1>1, <1>4 DEF TypeOK, dbVars, recVars
<1> QED  BY <1>2, <1>5

LEMMA CallbackTypes ==
    ASSUME TypeOK, RunInv, Callbacks
    PROVE  TypeOK' /\ RunInv'
<1>1. UNCHANGED recVars  BY DEF Callbacks, SaveExecution, WriteFilled, Send, Settle
<1>2. RunInv'  BY <1>1, RunKept
<1>3. ASSUME NEW o \in Order, SaveExecution(o)  PROVE TypeOK'
  BY <1>1, <1>3 DEF SaveExecution, TypeOK, twsVars, recVars
<1>4. ASSUME NEW o \in Order, WriteFilled(o)  PROVE TypeOK'
  <2>1. o[2] \in Group  BY DEF Order
  <2>2. due' \subseteq Group /\ told' \subseteq Order
        /\ status' \in [Order -> {"Created", "Submitted", "Filled", "Cancelled"}]
    BY <1>4, <2>1 DEF WriteFilled, TypeOK
  <2> QED  BY <1>1, <1>4, <2>2 DEF WriteFilled, TypeOK, twsVars, recVars
<1>5. ASSUME NEW g \in Group, Settle(g)  PROVE TypeOK'
  <2>1. due' \subseteq Group /\ settled' \subseteq Book
    BY <1>5 DEF Settle, TypeOK, Book
  <2> QED  BY <1>1, <1>5, <2>1 DEF Settle, TypeOK, twsVars, recVars
<1>6. ASSUME NEW g \in Group, Send(g)  PROVE TypeOK'
  <2>1. /\ order' \in [Order -> {"unsent", "waiting", "working", "filled", "cancelled"}]
        /\ status' \in [Order -> {"Created", "Submitted", "Filled", "Cancelled"}]
    BY <1>6 DEF Send, TypeOK
  <2> QED  BY <1>1, <1>6, <2>1 DEF Send, TypeOK, taskVars, recVars
<1> QED  BY <1>2, <1>3, <1>4, <1>5, <1>6 DEF Callbacks

\* A run that is over, or interrupted.
LEMMA ReturnTypes ==
    ASSUME TypeOK, Return, UNCHANGED <<twsVars, taskVars, dbVars>>
    PROVE  TypeOK' /\ RunInv'
<1>1. Nothing \in [Symbol -> Int]  BY DEF Nothing
<1>2. TypeOK'  BY <1>1 DEF Return, TypeOK, twsVars, taskVars, dbVars
<1>3. RunInv'  BY DEF Return, RunInv
<1> QED  BY <1>2, <1>3

LEMMA RunTypes ==
    ASSUME TypeOK, RunInv, Run
    PROVE  TypeOK' /\ RunInv'
<1> USE DEF TypeOK
<1>1. CASE RecoverOrders
  <2> DEFINE missed == {o \in Order : status[o] = "Submitted" /\ order[o] = "filled"}
  <2>1. /\ rpc' = "start" /\ saved' = saved \cup missed
        /\ status' = [o \in Order |-> IF o \in missed THEN "Filled" ELSE status[o]]
        /\ due' = due \cup {o[2] : o \in missed}
        /\ UNCHANGED <<twsVars, arrived, told, lot, closed, settled, rSeen, rBook, rLeft,
                       rSymbol, rOrders, rUnsent, rBooks, rNeed, rSettle>>
    BY <1>1 DEF RecoverOrders
  <2>2. missed \subseteq Order  OBVIOUS
  <2> HIDE DEF missed
  <2>3. /\ saved' \subseteq Order /\ due' \subseteq Group
        /\ status' \in [Order -> {"Created", "Submitted", "Filled", "Cancelled"}]
    <3>1. {o[2] : o \in missed} \subseteq Group  BY <2>2 DEF Order
    <3> QED  BY <2>1, <2>2, <3>1
  <2>4. TypeOK'  BY <2>1, <2>3 DEF twsVars
  <2>5. RunInv'  BY <2>1 DEF RunInv
  <2> QED  BY <2>4, <2>5
<1>2. CASE ReadPositions
  <2>1. CASE seen = Nothing
    <3>1. Return /\ UNCHANGED <<twsVars, taskVars, dbVars>>  BY <1>2, <2>1 DEF ReadPositions
    <3> QED  BY <3>1, ReturnTypes
  <2>2. CASE seen # Nothing
    <3>1. /\ rSeen' = seen /\ rpc' = "query"
          /\ UNCHANGED <<rBook, rLeft, rSymbol, rOrders, rUnsent, rBooks, rNeed, rSettle>>
          /\ UNCHANGED <<twsVars, taskVars, dbVars>>
      BY <1>2, <2>2 DEF ReadPositions
    <3>2. TypeOK'  BY <3>1 DEF twsVars, taskVars, dbVars
    <3>3. RunInv'  BY <3>1 DEF RunInv
    <3> QED  BY <3>2, <3>3
  <2> QED  BY <2>1, <2>2
<1>3. CASE ReadExecutions
  <2>1. /\ rBook' = [s \in Symbol |-> Net(s)] /\ rLeft' \subseteq Symbol /\ rpc' = "surplus"
        /\ UNCHANGED <<twsVars, taskVars, dbVars, rSeen, rSymbol, rOrders, rUnsent, rBooks, rNeed,
                       rSettle>>
    BY <1>3 DEF ReadExecutions
  <2>2. \A s \in Symbol : Net(s) \in Int  BY NetTyped
  <2>3. rBook' \in [Symbol -> Int]  BY <2>1, <2>2
  <2>4. TypeOK'  BY <2>1, <2>3 DEF twsVars, taskVars, dbVars
  <2>5. RunInv'  BY <2>1 DEF RunInv
  <2> QED  BY <2>4, <2>5
<1>4. ASSUME NEW s \in Symbol, BookSurplus(s)  PROVE TypeOK' /\ RunInv'
  <2>1. CASE Surplus(s) /\ lot[s] > 0
    <3>1. Return /\ UNCHANGED <<twsVars, taskVars, dbVars>>
      BY <1>4, <2>1 DEF BookSurplus, dbVars
    <3> QED  BY <3>1, ReturnTypes
  <2>2. CASE ~ (Surplus(s) /\ lot[s] > 0)
    <3>1. /\ rLeft' = rLeft \ {s} /\ rpc' = "surplus"
          /\ lot' = IF Surplus(s) THEN [lot EXCEPT ![s] = rSeen[s] - rBook[s]] ELSE lot
          /\ UNCHANGED <<rSeen, rBook, rSymbol, rOrders, rUnsent, rBooks, rNeed, rSettle>>
          /\ UNCHANGED <<twsVars, taskVars, status, saved, closed, settled>>
      BY <1>4, <2>2 DEF BookSurplus
    <3>2. Surplus(s) => rSeen[s] - rBook[s] \in Nat  BY DEF Surplus
    <3>3. lot' \in [Symbol -> Nat]  BY <3>1, <3>2
    <3>4. TypeOK'  BY <3>1, <3>3 DEF twsVars, taskVars
    <3>5. RunInv'  BY <3>1 DEF RunInv
    <3> QED  BY <3>4, <3>5
  <2> QED  BY <2>1, <2>2
<1>5. ASSUME NEW s \in Symbol, ReadExits(s)  PROVE TypeOK' /\ RunInv'
  <2>1. /\ rpc = "deficit" /\ s \in rLeft /\ rSymbol' = s /\ rLeft' = rLeft \ {s}
        /\ rNeed' = rBook[s] - rSeen[s] /\ rpc' = "cancel"
        /\ rOrders' \subseteq Order /\ rUnsent' \subseteq Order
        /\ UNCHANGED <<twsVars, taskVars, dbVars, rSeen, rBook, rBooks, rSettle>>
    BY <1>5 DEF ReadExits, ExitsOf
  <2>2. rNeed' \in Nat  BY <2>1 DEF RunInv, Deficit
  <2>3. TypeOK'  BY <2>1, <2>2 DEF twsVars, taskVars, dbVars
  <2>4. RunInv'  BY <2>1 DEF RunInv, Deficit
  <2> QED  BY <2>3, <2>4
<1>6. CASE SurplusDone
  <2>1. /\ rLeft' = {s \in Symbol : Deficit(s)} /\ rpc' = "deficit"
        /\ UNCHANGED <<twsVars, taskVars, dbVars, rSeen, rBook, rSymbol, rOrders, rUnsent, rBooks,
                       rNeed, rSettle>>
    BY <1>6 DEF SurplusDone
  <2>2. TypeOK'  BY <2>1 DEF twsVars, taskVars, dbVars
  <2>3. RunInv'  BY <2>1 DEF RunInv, Deficit
  <2> QED  BY <2>2, <2>3
<1>7. CASE DeficitDone
  BY <1>7, ReturnTypes DEF DeficitDone
<1>8. ASSUME NEW o \in Order, CancelExit(o) \/ CancelUnsent(o)  PROVE TypeOK' /\ RunInv'
  <2>1. /\ rpc' = rpc /\ rpc = "cancel"
        /\ rOrders' \subseteq rOrders /\ rUnsent' \subseteq rUnsent
        /\ UNCHANGED <<held, seen, order, sells, taskVars, saved, lot, closed, settled,
                       rSeen, rBook, rLeft, rSymbol, rBooks, rNeed, rSettle>>
    BY <1>8 DEF CancelExit, CancelUnsent, twsVars
  <2>2. /\ recalled' \subseteq Order /\ forgotten' \subseteq Order
        /\ status' \in [Order -> {"Created", "Submitted", "Filled", "Cancelled"}]
    BY <1>8 DEF CancelExit, CancelUnsent, twsVars
  <2>3. TypeOK'  BY <2>1, <2>2 DEF taskVars
  <2>4. RunInv'  BY <2>1 DEF RunInv, Deficit
  <2> QED  BY <2>3, <2>4
<1>9. CASE ReadEntries
  <2>1. /\ rpc = "cancel" /\ rpc' = "close" /\ rBooks' \subseteq BookOf(rSymbol)
        /\ UNCHANGED <<twsVars, taskVars, dbVars, rSeen, rBook, rLeft, rSymbol, rOrders,
                       rUnsent, rNeed, rSettle>>
    BY <1>9 DEF ReadEntries
  <2>2. rBooks' \subseteq Book  BY <2>1, BooksFinite DEF RunInv
  <2>3. TypeOK'  BY <2>1, <2>2 DEF twsVars, taskVars, dbVars
  <2>4. RunInv'  BY <2>1 DEF RunInv, Deficit
  <2> QED  BY <2>3, <2>4
<1>10. ASSUME NEW b \in Book, Close(b)  PROVE TypeOK' /\ RunInv'
  <2>1. CASE closed[b] > 0
    <3>1. Return /\ UNCHANGED <<twsVars, taskVars, dbVars>>
      BY <1>10, <2>1 DEF Close, dbVars
    <3> QED  BY <3>1, ReturnTypes
  <2>2. CASE ~ (closed[b] > 0)
    <3> DEFINE n == Least(rNeed, Quantity(b))
    <3>1. /\ rpc = "close" /\ rpc' = "settle"
          /\ closed' = [closed EXCEPT ![b] = n] /\ rNeed' = rNeed - n
          /\ rBooks' = rBooks \ {b} /\ rSettle' = b
          /\ UNCHANGED <<rSeen, rBook, rLeft, rSymbol, rOrders, rUnsent>>
          /\ UNCHANGED <<twsVars, taskVars, status, saved, lot, settled>>
      BY <1>10, <2>2 DEF Close
    <3>2. Quantity(b) \in Nat
      <4>1. CASE b \in Symbol  BY <4>1 DEF Quantity
      <4>2. CASE b \notin Symbol  BY <4>2 DEF Quantity, Book, PositionsAssumption
      <4> QED  BY <4>1, <4>2
    <3>3. n \in Nat /\ rNeed - n \in Nat  BY <3>2 DEF Least
    <3> HIDE DEF n
    <3>4. TypeOK'  BY <3>1, <3>3 DEF twsVars, taskVars
    <3>5. RunInv'  BY <3>1 DEF RunInv, Deficit
    <3> QED  BY <3>4, <3>5
  <2> QED  BY <2>1, <2>2
<1>11. CASE SettleClosed
  <2>1. /\ rpc = "settle" /\ rpc' = "close" /\ rSettle' = None
        /\ settled' = settled \/ settled' = settled \cup {rSettle}
        /\ UNCHANGED <<twsVars, taskVars, status, saved, lot, closed, rSeen, rBook, rLeft,
                       rSymbol, rOrders, rUnsent, rBooks, rNeed>>
    BY <1>11 DEF SettleClosed
  <2>2. settled' \subseteq Book  BY <2>1 DEF RunInv
  <2>3. TypeOK'  BY <2>1, <2>2 DEF twsVars, taskVars
  <2>4. RunInv'  BY <2>1 DEF RunInv, Deficit
  <2> QED  BY <2>3, <2>4
<1>12. CASE SymbolDone
  <2>1. /\ rpc = "close" /\ rpc' = "deficit" /\ rBooks' = {} /\ rNeed' = 0 /\ rSymbol' = None
        /\ UNCHANGED <<twsVars, taskVars, dbVars, rSeen, rBook, rLeft, rOrders, rUnsent, rSettle>>
    BY <1>12 DEF SymbolDone
  <2>2. TypeOK'  BY <2>1 DEF twsVars, taskVars, dbVars
  <2>3. RunInv'  BY <2>1 DEF RunInv, Deficit
  <2> QED  BY <2>2, <2>3
<1> QED
  BY <1>1, <1>2, <1>3, <1>4, <1>5, <1>6, <1>7, <1>8, <1>9, <1>10, <1>11, <1>12 DEF Run

LEMMA TypesKept == TypeOK /\ RunInv /\ [Next]_vars => (TypeOK /\ RunInv)'
<1> SUFFICES ASSUME TypeOK, RunInv, [Next]_vars PROVE TypeOK' /\ RunInv'  OBVIOUS
<1>1. CASE UNCHANGED vars
  <2>1. TypeOK'  BY <1>1 DEF vars, TypeOK, twsVars, taskVars, dbVars, recVars
  <2>2. RunInv'  BY <1>1, RunKept DEF vars
  <2> QED  BY <2>1, <2>2
<1>2. CASE Next  BY <1>2, BrokerTypes, CallbackTypes, RunTypes DEF Next
<1> QED  BY <1>1, <1>2

\* Quantities are integers, and those of synthetic executions and what a deficit still
\* needs are never negative, for any positions and executions the run may read.
THEOREM PositionTypes == Spec => []TypeOK
BY InitTypes, TypesKept, PTL DEF Spec

----------------------------------------------------------------------------
(* What is booked.                                                         *)

\* A synthetic exit closes at most the quantity of its entry, and a lot is settled
\* only after one.
LotInv ==
    /\ \A b \in Book : closed[b] <= Quantity(b)
    /\ \A s \in Symbol \cap settled : closed[s] > 0

LEMMA QuantityTyped ==
    ASSUME TypeOK
    PROVE  \A b \in Book : Quantity(b) \in Nat
<1> SUFFICES ASSUME NEW b \in Book PROVE Quantity(b) \in Nat  OBVIOUS
<1>1. CASE b \in Symbol  BY <1>1 DEF Quantity, TypeOK
<1>2. CASE b \notin Symbol  BY <1>2 DEF Quantity, Book, PositionsAssumption
<1> QED  BY <1>1, <1>2

LEMMA LotKept ==
    ASSUME TypeOK, RunInv, LotInv, [Next]_vars
    PROVE  LotInv'
<1>1. ASSUME UNCHANGED <<lot, closed, settled>>  PROVE LotInv'
  BY <1>1 DEF LotInv, Quantity
<1>2. ASSUME NEW g \in Group, Settle(g)  PROVE LotInv'
  <2>1. g \notin Symbol  BY DEF PositionsAssumption
  <2>2. UNCHANGED <<lot, closed>> /\ settled' \subseteq settled \cup {g}
    BY <1>2 DEF Settle
  <2> QED  BY <2>1, <2>2 DEF LotInv, Quantity
<1>3. ASSUME NEW s \in Symbol, BookSurplus(s)  PROVE LotInv'
  <2>1. CASE lot' = lot  BY <1>1, <1>3, <2>1 DEF BookSurplus
  <2>2. CASE lot' # lot
    <3>1. /\ Surplus(s) /\ ~ (lot[s] > 0) /\ UNCHANGED <<closed, settled>>
          /\ lot' = [lot EXCEPT ![s] = rSeen[s] - rBook[s]]
      BY <1>3, <2>2 DEF BookSurplus
    <3>2. s \in Book /\ Quantity(s) = lot[s]  BY DEF Book, Quantity
    <3>3. lot[s] \in Nat /\ closed[s] \in Nat /\ closed[s] <= lot[s]
      BY <3>2 DEF TypeOK, LotInv
    <3>4. closed[s] = 0 /\ rSeen[s] - rBook[s] \in Nat
      <4>1. rSeen[s] \in Int /\ rBook[s] \in Int  BY DEF TypeOK
      <4> QED  BY <3>1, <3>3, <4>1 DEF Surplus
    <3>5. \A b \in Book : Quantity(b)' = IF b = s THEN rSeen[s] - rBook[s] ELSE Quantity(b)
      BY <3>1 DEF Quantity, TypeOK
    <3>6. \A b \in Book : closed'[b] <= Quantity(b)'
      BY <3>1, <3>4, <3>5 DEF LotInv
    <3> QED  BY <3>1, <3>6 DEF LotInv
  <2> QED  BY <2>1, <2>2
<1>4. ASSUME NEW b \in Book, Close(b)  PROVE LotInv'
  <2>1. CASE closed[b] > 0
    BY <1>1, <1>4, <2>1 DEF Close
  <2>2. CASE ~ (closed[b] > 0)
    <3> DEFINE n == Least(rNeed, Quantity(b))
    <3>1. rNeed > 0 /\ closed' = [closed EXCEPT ![b] = n] /\ UNCHANGED <<lot, settled>>
      BY <1>4, <2>2 DEF Close
    <3>2. rNeed \in Nat /\ Quantity(b) \in Nat  BY QuantityTyped DEF TypeOK
    <3>3. n <= Quantity(b)  BY <3>2 DEF Least
    <3>4. ASSUME NEW c \in Book  PROVE closed'[c] <= Quantity(c)' /\ (c # b => closed'[c] = closed[c])
      <4>1. Quantity(c)' = Quantity(c)  BY <3>1 DEF Quantity
      <4> HIDE DEF n
      <4> QED  BY <3>1, <3>3, <4>1 DEF LotInv, TypeOK
    <3>5. ASSUME NEW s \in Symbol \cap settled'  PROVE closed'[s] > 0
      <4>1. s \in Book /\ s \in settled /\ closed[s] > 0  BY <3>1, <3>5 DEF LotInv, Book
      <4> QED  BY <2>2, <3>4, <4>1
    <3> QED  BY <3>4, <3>5 DEF LotInv
  <2> QED  BY <2>1, <2>2
<1>5. CASE SettleClosed
  <2>1. UNCHANGED <<lot, closed>>
        /\ settled' \subseteq IF HasBothSides(rSettle) THEN settled \cup {rSettle} ELSE settled
    BY <1>5 DEF SettleClosed
  <2>2. \A s \in Symbol : HasBothSides(s) => closed[s] > 0
    BY DEF HasBothSides, TypeOK, PositionsAssumption, Order
  <2> QED  BY <2>1, <2>2 DEF LotInv, Quantity
<1> QED
  <2>1. CASE UNCHANGED vars  BY <1>1, <2>1 DEF vars, dbVars
  <2>2. CASE Broker
    BY <1>1, <2>2 DEF Broker, Report, Sell, Execute, TwsCancels, dbVars
  <2>3. CASE Callbacks
    BY <1>1, <1>2, <2>3 DEF Callbacks, SaveExecution, WriteFilled, Send
  <2>4. CASE Run
    BY <1>1, <1>3, <1>4, <1>5, <2>4
    DEF Run, RecoverOrders, ReadPositions, ReadExecutions, ReadExits, SurplusDone,
        DeficitDone, CancelExit, CancelUnsent, ReadEntries, SymbolDone, dbVars
  <2> QED  BY <2>1, <2>2, <2>3, <2>4 DEF Next

LEMMA LotAlways == Spec => [](TypeOK /\ LotInv)
<1>1. Init => LotInv  BY DEF Init, LotInv, Nothing, Quantity, Book, PositionsAssumption
<1>2. TypeOK /\ RunInv /\ LotInv /\ [Next]_vars => (TypeOK /\ RunInv /\ LotInv)'
  BY TypesKept, LotKept
<1> QED  BY <1>1, <1>2, InitTypes, PTL DEF Spec

\* However often runs close deficits, the synthetic exit of an entry never sells more
\* than that entry bought (_close_trade_with_synthetic_exits takes the smaller of the
\* remaining deficit and the entry's quantity, and books it once per group).
ClosedWithinEntry == \A b \in Book : closed[b] <= Quantity(b)

\* No sequence of recovery runs, surplus after deficit or restart, sells more.
THEOREM NeverOverclosed == Spec => []ClosedWithinEntry
<1>1. LotInv => ClosedWithinEntry  BY DEF LotInv, ClosedWithinEntry
<1> QED  BY <1>1, LotAlways, PTL

\* A count changes as the amount of the one book that differs, if that is not settled.
LEMMA NetChanges ==
    ASSUME TypeOK, TypeOK', NEW s \in Symbol, NEW b \in BookOf(s), b \notin settled,
           settled' = settled, \A c \in Book \ {b} : Amount'[c] = Amount[c]
    PROVE  Net(s)' = Net(s) + (Amount'[b] - Amount[b])
<1> DEFINE B == BookOf(s) \ settled
<1>1. BookOf(s) \subseteq Book /\ IsFiniteSet(BookOf(s))  BY BooksFinite
<1>2. IsFiniteSet(B) /\ B \subseteq Book /\ b \in B
  BY <1>1, FS_Subset
<1>3. \A c \in Book : Amount[c] \in Int  BY AmountTyped
<1>4. \A c \in Book : Amount'[c] \in Int  BY AmountTypedNext
<1>5. Net(s) = SumFunctionOnSet(Amount, B)  BY DEF Net
<1>6. Net(s)' = SumFunctionOnSet(Amount', B)  BY DEF Net, BookOf
<1> HIDE DEF B
<1>7. SumFunctionOnSet(Amount', B) = SumFunctionOnSet(Amount, B) + (Amount'[b] - Amount[b])
  BY <1>2, <1>3, <1>4, SumChanges
<1> QED  BY <1>5, <1>6, <1>7

\* The synthetic entry is exactly what was missing: if no callback has booked anything
\* since the run read the executions, they add up to the position it has read.
SurplusIsBooked ==
    \A s \in Symbol : BookSurplus(s) /\ Surplus(s) /\ lot[s] = 0 /\ Net(s) = rBook[s]
                          => Net(s)' = rSeen[s]

\* Each closing takes from the count what it takes from the deficit of the run, so that
\* what a run closes for a symbol is the deficit that it has read and no more.
DeficitIsBooked ==
    \A s \in Symbol : \A b \in BookOf(s) \ settled :
        Close(b) /\ closed[b] = 0 => Net(s)' - Net(s) = rNeed' - rNeed

LEMMA SurplusStep ==
    ASSUME TypeOK, TypeOK', LotInv, NEW s \in Symbol,
           BookSurplus(s), Surplus(s), lot[s] = 0, Net(s) = rBook[s]
    PROVE  Net(s)' = rSeen[s]
<1>1. /\ lot' = [lot EXCEPT ![s] = rSeen[s] - rBook[s]]
      /\ UNCHANGED <<saved, closed, settled>>
  BY DEF BookSurplus
<1>2. s \in BookOf(s) /\ s \in Book  BY DEF BookOf, Book
<1>3. s \notin settled
  <2>1. closed[s] <= 0  BY <1>2 DEF LotInv, Quantity
  <2> QED  BY <1>2, <2>1 DEF LotInv, TypeOK
<1>4. \A c \in Book \ {s} : Amount'[c] = Amount[c]
  BY <1>1 DEF Amount, TypeOK
<1>5. Amount[s] = lot[s] - closed[s] /\ Amount'[s] = lot'[s] - closed'[s]
  BY <1>2 DEF Amount
<1>6. Net(s)' = Net(s) + (Amount'[s] - Amount[s])
  BY <1>1, <1>2, <1>3, <1>4, NetChanges
<1>7. lot'[s] = rSeen[s] - rBook[s] /\ closed'[s] = closed[s]  BY <1>1 DEF TypeOK
<1>8. closed[s] \in Int /\ rSeen[s] \in Int /\ rBook[s] \in Int
  BY <1>2 DEF TypeOK
<1> HIDE DEF Amount
<1> QED  BY <1>5, <1>6, <1>7, <1>8

LEMMA DeficitStep ==
    ASSUME TypeOK, TypeOK', NEW s \in Symbol, NEW b \in BookOf(s), b \notin settled,
           Close(b), closed[b] = 0
    PROVE  Net(s)' - Net(s) = rNeed' - rNeed
<1> DEFINE n == Least(rNeed, Quantity(b))
<1>1. /\ closed' = [closed EXCEPT ![b] = n] /\ rNeed' = rNeed - n
      /\ UNCHANGED <<lot, saved, settled>>
  BY DEF Close
<1>2. b \in Book  BY BooksFinite
<1>3. rNeed \in Nat /\ Quantity(b) \in Nat  BY <1>2, QuantityTyped DEF TypeOK
<1>4. n \in Int  BY <1>3 DEF Least
<1> HIDE DEF n
<1>5. closed[b] = 0 /\ closed'[b] = n
  BY <1>1, <1>2 DEF TypeOK
<1>6. \A c \in Book \ {b} : Amount'[c] = Amount[c]
  BY <1>1 DEF Amount, TypeOK
<1>7. Amount'[b] - Amount[b] = 0 - n
  <2>1. CASE b \in Symbol
    <3>1. Amount[b] = lot[b] - closed[b] /\ Amount'[b] = lot'[b] - closed'[b] /\ lot[b] \in Nat
      BY <1>2, <2>1 DEF Amount, TypeOK
    <3> HIDE DEF Amount
    <3> QED  BY <1>1, <1>4, <1>5, <3>1
  <2>2. CASE b \notin Symbol
    <3> DEFINE orders == (IF <<"ENTRY", b>> \in saved THEN Size[b] ELSE 0)
                         - (IF <<"SL", b>> \in saved THEN Size[b] ELSE 0)
    <3>1. Size[b] \in Nat  BY <1>2, <2>2 DEF Book, PositionsAssumption
    <3>2. orders \in Int  BY <3>1
    <3>3. Amount[b] = orders - closed[b] /\ Amount'[b] = orders - closed'[b]
      BY <1>1, <1>2, <2>2 DEF Amount
    <3> HIDE DEF orders, Amount
    <3> QED  BY <1>4, <1>5, <3>2, <3>3
  <2> QED  BY <2>1, <2>2
<1>8. Net(s)' = Net(s) + (Amount'[b] - Amount[b])
  BY <1>1, <1>6, NetChanges
<1>9. Net(s) \in Int  BY NetTyped
<1> HIDE DEF Amount, Net
<1> QED  BY <1>1, <1>3, <1>4, <1>7, <1>8, <1>9

\* reconcile_broker_positions, first half: the books are brought up to the position.
THEOREM SurplusBooked == Spec => [][SurplusIsBooked]_vars
<1>1. TypeOK /\ TypeOK' /\ LotInv /\ [Next]_vars => [SurplusIsBooked]_vars
  BY SurplusStep DEF SurplusIsBooked
<1> QED  BY <1>1, LotAlways, PTL DEF Spec

\* reconcile_broker_positions, second half: the books go down with the deficit.
THEOREM DeficitBooked == Spec => [][DeficitIsBooked]_vars
<1>1. TypeOK /\ TypeOK' /\ [Next]_vars => [DeficitIsBooked]_vars
  BY DeficitStep DEF DeficitIsBooked
<1> QED  BY <1>1, PositionTypes, PTL DEF Spec
=============================================================================
