----------------------------- MODULE IntakeProof -----------------------------
(* What holds of the import for any files, account, queue and faults. *)
EXTENDS Intake, TLAPS

----------------------------------------------------------------------------
(* Sizing: arithmetic of the operators.                                    *)

LEMMA Division ==
    ASSUME NEW x \in Int, NEW y \in Nat \ {0}
    PROVE  x \div y \in Int /\ (x \div y) * y <= x
BY SMT

LEMMA DivisionIsLargest ==
    ASSUME NEW x \in Nat, NEW y \in Nat \ {0}
    PROVE  x \div y \in Nat /\ x < (x \div y) * y + y
BY SMT

LEMMA Monotone ==
    ASSUME NEW a \in Int, NEW b \in Int, NEW c \in Nat, a <= b
    PROVE  a * c <= b * c
BY SMT

\* A limit m that is bounded by what r leaves, under the factors n and f.
LEMMA Scaled ==
    ASSUME NEW m \in Int, NEW f \in Nat \ {0}, NEW r \in Nat, NEW n \in Nat \ {0},
           NEW b \in Int, NEW g \in Nat,
           m > 0, m <= b, b * f <= r * n, n <= g
    PROVE  r > 0 /\ m * f <= r * g
<1>1. m * f <= b * f  BY Monotone
<1>2. m * f > 0  BY SMT
<1>3. n * r <= g * r  BY Monotone
<1>4. r * n > 0  BY <1>1, <1>2, SMT
<1>5. r > 0  BY <1>4, SMT
<1> QED  BY <1>1, <1>3, <1>5, SMT

\* A cost c within a limit m joins what was spent before.
LEMMA Added ==
    ASSUME NEW spent \in Nat, NEW c \in Nat, NEW m \in Int, NEW a \in Int, NEW max \in Nat,
           NEW f \in Nat, NEW g \in Nat,
           c <= m, m * f <= (a - spent) * g, f <= g, a <= max
    PROVE  (spent + c) * f <= max * g
<1>1. c * f <= m * f  BY Monotone
<1>2. f * spent <= g * spent  BY Monotone
<1>3. a * g <= max * g  BY Monotone
<1>4. (spent + c) * f = spent * f + c * f /\ (a - spent) * g = a * g - spent * g  BY SMT
<1>5. /\ spent * f \in Int /\ c * f \in Int /\ m * f \in Int /\ a * g \in Int
      /\ spent * g \in Int /\ max * g \in Int
      /\ f * spent = spent * f /\ g * spent = spent * g
  BY SMT
<1> QED  BY <1>1, <1>2, <1>3, <1>4, <1>5, SMT

\* A quantity is at least one and costs no more than the limit.
LEMMA DownscaledFits ==
    ASSUME NEW target \in Nat \ {0}, NEW price \in Nat, NEW limit \in Int, limit > 0,
           NEW q, q = Downscaled(target, price, limit), q > 0
    PROVE  q \in Nat \ {0} /\ q * price \in Nat /\ q * price <= limit
<1>1. CASE price = 0
  BY <1>1, SMT DEF Downscaled
<1>2. CASE price # 0 /\ target * price <= limit
  <2>1. q = target  BY <1>2, SMT DEF Downscaled
  <2>2. target * price \in Nat  BY SMT
  <2> QED  BY <1>2, <2>1, <2>2, SMT
<1>3. CASE price # 0 /\ ~(target * price <= limit)
  <2>1. q = limit \div price  BY <1>3, SMT DEF Downscaled
  <2>2. q \in Int /\ q * price <= limit  BY <1>3, <2>1, Division, SMT
  <2>3. q * price \in Nat  BY <2>2, SMT
  <2> QED  BY <2>2, <2>3, SMT
<1> QED  BY <1>1, <1>2, <1>3

\* calculate_downscaled_quantity returns the largest quantity, up to the one asked for,
\* that the allocation can pay: nothing more could have been bought.
THEOREM SizedLargest ==
    ASSUME NEW target \in Nat, NEW price \in Nat, NEW limit \in Nat
    PROVE  LET q == Downscaled(target, price, limit)
           IN  /\ q \in 0..target /\ q * price <= limit
               /\ \A n \in 0..target : n * price <= limit => n <= q
<1> DEFINE q == Downscaled(target, price, limit)
<1>1. SUFFICES /\ q \in 0..target /\ q * price <= limit
               /\ \A n \in 0..target : n * price <= limit => n <= q
  OBVIOUS
<1>2. CASE price = 0 \/ target * price <= limit
  <2>1. q = target  BY <1>2 DEF Downscaled
  <2>2. q * price <= limit
    <3>1. price = 0 => target * price = 0  BY SMT
    <3> QED  BY <1>2, <2>1, <3>1, SMT
  <2> HIDE DEF q
  <2>3. q \in 0..target /\ \A n \in 0..target : n <= q  BY <2>1
  <2> QED  BY <2>2, <2>3
<1>3. CASE price # 0 /\ ~(target * price <= limit)
  <2>1. q = limit \div price  BY <1>3 DEF Downscaled
  <2> HIDE DEF q
  <2>2. q \in Nat /\ q * price <= limit /\ limit < (q + 1) * price
    <3>1. q \in Nat /\ q * price <= limit /\ limit < q * price + price
      BY <1>3, <2>1, Division, DivisionIsLargest
    <3>2. (q + 1) * price = q * price + price  BY <3>1, SMT
    <3> QED  BY <3>1, <3>2
  <2>3. \A n \in Nat : n * price <= limit => n <= q
    <3> SUFFICES ASSUME NEW n \in Nat, n * price <= limit, q + 1 <= n PROVE FALSE
      BY <2>2
    <3>1. (q + 1) * price <= n * price  BY <2>2, Monotone
    <3>2. (q + 1) * price \in Nat /\ n * price \in Nat  BY <2>2, SMT
    <3> QED  BY <2>2, <3>1, <3>2, SMT
  <2>4. q <= target
    <3> SUFFICES ASSUME target <= q PROVE FALSE  BY <2>2
    <3>1. target * price <= q * price  BY <2>2, Monotone
    <3>2. target * price \in Nat /\ q * price \in Nat  BY <2>2, SMT
    <3> QED  BY <1>3, <2>2, <3>1, <3>2, SMT
  <2>5. q \in 0..target /\ \A n \in 0..target : n \in Nat  BY <2>2, <2>4
  <2> QED  BY <2>2, <2>3, <2>5
<1> QED  BY <1>2, <1>3

\* A positive limit is at most what is left of the balance, times the factor.
LEMMA AllocationFits ==
    ASSUME IntakeAssumption, allocated \in Nat, NEW a \in Int, MaximumAllocation(a) > 0
    PROVE  /\ MaximumAllocation(a) \in Int
           /\ a - allocated \in Nat
           /\ MaximumAllocation(a) * FactorDen
                 <= (a - allocated) * Greater(FactorNum, FactorDen)
<1> DEFINE left == EffectiveFunds(a)
<1>1. left \in Nat /\ (left > 0 => left = a - allocated)
  BY SMT DEF EffectiveFunds, Greater
<1>2. /\ FactorNum \in Nat \ {0} /\ FactorDen \in Nat \ {0} /\ LimitPct \in Nat
      /\ NetLiq \in Int
      /\ Greater(FactorNum, FactorDen) \in Nat
      /\ FactorNum <= Greater(FactorNum, FactorDen)
      /\ FactorDen <= Greater(FactorNum, FactorDen)
  BY SMT DEF IntakeAssumption, Greater
<1> HIDE DEF left
<1> DEFINE m == MaximumAllocation(a)
           g == Greater(FactorNum, FactorDen)
<1>3. CASE SizingMode = "total_cash"
  <2>1. m = left  BY <1>3 DEF MaximumAllocation, left
  <2> HIDE DEF m, g
  <2>2. m \in Nat /\ m > 0 /\ left = m /\ left = a - allocated
    BY <1>1, <2>1 DEF m
  <2>3. FactorDen * m <= g * m
    BY <1>2, <2>2, Monotone DEF g
  <2>4. FactorDen * m = m * FactorDen /\ g * m = m * g
    BY <1>2, <2>2, SMT DEF g
  <2>5. a - allocated = m  BY <2>2
  <2> QED  BY <2>2, <2>3, <2>4, <2>5 DEF m, g
<1>4. CASE SizingMode # "total_cash"
  <2> DEFINE byFunds == (left * FactorNum) \div FactorDen
             byCapital == (NetLiq * FactorNum * LimitPct) \div (100 * FactorDen)
  <2>1. m = Lesser(byCapital, byFunds)
    BY <1>4 DEF MaximumAllocation, left
  <2>2. left * FactorNum \in Int /\ NetLiq * FactorNum * LimitPct \in Int
        /\ 100 * FactorDen \in Nat \ {0}
    BY <1>1, <1>2, SMT
  <2>3. byFunds \in Int /\ byFunds * FactorDen <= left * FactorNum
    BY <1>2, <2>2, Division
  <2>4. byCapital \in Int  BY <2>2, Division
  <2> HIDE DEF byFunds, byCapital
  <2>5. m \in Int /\ m <= byFunds
    BY <2>1, <2>3, <2>4, SMT DEF Lesser
  <2> HIDE DEF m, g
  <2>6. left > 0 /\ m * FactorDen <= left * g
    <3>1. m > 0 /\ g \in Nat /\ FactorNum <= g  BY <1>2 DEF m, g
    <3> QED  BY <1>1, <1>2, <2>3, <2>5, <3>1, Scaled
  <2>7. left = a - allocated  BY <1>1, <2>6
  <2> QED  BY <1>1, <2>5, <2>6, <2>7 DEF m, g
<1> QED  BY <1>3, <1>4

\* One more group that is sized by the rules keeps the batch within the account.
LEMMA SizedFits ==
    ASSUME IntakeAssumption, allocated \in Nat, BudgetKept, NEW a \in Funds,
           NEW target \in Nat \ {0}, NEW price \in Nat, MaximumAllocation(a) > 0,
           NEW q, q = Downscaled(target, price, MaximumAllocation(a)), q > 0
    PROVE  /\ q \in Nat \ {0} /\ allocated + q * price \in Nat
           /\ (allocated + q * price) * FactorDen
                 <= MaxFunds * Greater(FactorNum, FactorDen)
<1> DEFINE G == Greater(FactorNum, FactorDen)
           cost == q * price
<1>1. /\ a \in Int /\ a <= MaxFunds /\ MaxFunds \in Nat
      /\ FactorDen \in Nat \ {0} /\ G \in Nat /\ FactorDen <= G
  BY SMT DEF IntakeAssumption, Greater
<1>2. /\ MaximumAllocation(a) \in Int /\ a - allocated \in Nat
      /\ MaximumAllocation(a) * FactorDen <= (a - allocated) * G
  BY <1>1, AllocationFits
<1>3. q \in Nat \ {0} /\ cost \in Nat /\ cost <= MaximumAllocation(a)
  BY <1>2, DownscaledFits
<1> HIDE DEF G, cost
<1>4. (allocated + cost) * FactorDen <= MaxFunds * G
  BY <1>1, <1>2, <1>3, Added
<1>5. allocated + cost \in Nat  BY <1>3
<1> QED  BY <1>3, <1>4, <1>5 DEF cost, G

----------------------------------------------------------------------------
(* The invariant.                                                          *)

\* The importer's place determines which file and group it holds.
PlaceInv ==
    /\ ipc # "scan" => file \in File /\ item \in Nat \ {0}
    /\ ipc \in {"upsert", "put"} => item <= Len(Content[file])

\* The queue counts the groups in it and the one the worker holds.
Counted == unfinished = Len(queue) + (IF wpc = "idle" THEN 0 ELSE 1)

HandInv ==
    /\ wpc # "idle" => hand \in Group
    /\ serving => wpc \in {"work", "done"}

\* A group that is due is on its way to the worker.
DueInv ==
    \A g \in due :
        \/ wpc = "load" /\ hand = g
        \/ \E i \in 1 .. Len(queue) : queue[i] = g

\* Nothing is due when a file is judged.
ArchiveInv == ipc = "archive" => due = {} /\ ~serving

IInv == TypeOK /\ PlaceInv /\ Counted /\ HandInv /\ DueInv /\ ArchiveInv /\ BudgetKept

USE IntakeAssumption

LEMMA CurrentTyped ==
    ASSUME file \in File, item \in Nat \ {0}, item <= Len(Content[file])
    PROVE  Current \in Item
<1>1. Content[file] \in Seq(Item)  BY SMT DEF IntakeAssumption, File
<1> QED  BY <1>1, SMT DEF Current

LEMMA NothingSpent == 0 * FactorDen <= MaxFunds * Greater(FactorNum, FactorDen)
<1> DEFINE g == Greater(FactorNum, FactorDen)
<1>1. MaxFunds \in Nat /\ g \in Nat /\ FactorDen \in Nat
  BY SMT DEF IntakeAssumption, Greater
<1> HIDE DEF g
<1>2. MaxFunds * g \in Nat /\ 0 * FactorDen = 0  BY <1>1, SMT
<1> QED  BY <1>2 DEF g

LEMMA InitIInv == Init => IInv
<1> SUFFICES ASSUME Init PROVE IInv  OBVIOUS
<1>1. TypeOK
  <2> USE DEF Init
  <2>1. DbTypes  BY SMT DEF DbTypes, Row
  <2>2. ImportTypes  BY SMT DEF ImportTypes
  <2>3. QueueTypes  BY SMT DEF QueueTypes
  <2>4. WorkerTypes
    <3>1. NoRows \in [Leg -> [status : Row, qty : Nat]]  BY SMT DEF NoRows, Row
    <3> QED  BY <3>1 DEF WorkerTypes
  <2>5. EnvTypes
    <3>1. connected \in BOOLEAN /\ serving \in BOOLEAN  OBVIOUS
    <3> QED  BY <3>1 DEF EnvTypes
  <2> QED  BY <2>1, <2>2, <2>3, <2>4, <2>5 DEF TypeOK
<1>2. PlaceInv /\ Counted /\ HandInv /\ DueInv /\ ArchiveInv
  BY SMT DEF Init, PlaceInv, Counted, HandInv, DueInv, ArchiveInv
<1>3. BudgetKept  BY NothingSpent DEF Init, BudgetKept
<1> QED  BY <1>1, <1>2, <1>3 DEF IInv

\* A step of the importer that leaves tables, queue and worker alone.
LEMMA ImporterOnly ==
    ASSUME TypeOK, Counted, HandInv, DueInv, KeepDb, ImportTypes'
    PROVE  TypeOK' /\ Counted' /\ HandInv' /\ DueInv' /\ due' = due /\ serving' = serving
<1> USE DEF KeepDb, dbVars, queueVars, workerVars, envVars, histVars
<1>1. DbTypes' /\ QueueTypes' /\ WorkerTypes' /\ EnvTypes'
  BY DEF TypeOK, DbTypes, QueueTypes, WorkerTypes, EnvTypes
<1>2. Counted' /\ HandInv' /\ DueInv'  BY DEF Counted, HandInv, DueInv
<1> QED  BY <1>1, <1>2 DEF TypeOK

\* The importer.  Only SizeEntry spends, only Put makes a group due.
LEMMA ImportStep == IInv /\ Import => IInv'
<1> SUFFICES ASSUME IInv, Import PROVE IInv'  OBVIOUS
<1> USE DEF IInv
<1>1. CASE Begin
  <2> USE <1>1 DEF Begin
  <2>1. TypeOK'
    <3>1. file' \in Nat /\ today' \in Nat /\ futuresCash' \in Nat
      BY SMT DEF TypeOK, DbTypes, File, Greater, IntakeAssumption
    <3>2. DbTypes' /\ ImportTypes'  BY <3>1 DEF TypeOK, DbTypes, ImportTypes
    <3> QED  BY <3>2 DEF TypeOK, QueueTypes, WorkerTypes, EnvTypes, queueVars,
                         workerVars, envVars, histVars
  <2>2. PlaceInv' /\ Counted' /\ HandInv' /\ DueInv' /\ ArchiveInv'
    BY SMT DEF PlaceInv, Counted, HandInv, DueInv, ArchiveInv, queueVars, workerVars, histVars
  <2>3. BudgetKept'  BY NothingSpent DEF BudgetKept
  <2> QED  BY <2>1, <2>2, <2>3
<1>2. CASE LastItem \/ SkipInvalid
  <2> USE <1>2 DEF LastItem, SkipInvalid, Skip
  <2>1. ImportTypes'  BY SMT DEF TypeOK, ImportTypes
  <2>2. TypeOK' /\ Counted' /\ HandInv' /\ DueInv' /\ due' = due /\ serving' = serving
    BY <2>1, ImporterOnly
  <2>3. PlaceInv'  BY SMT DEF PlaceInv, TypeOK, ImportTypes
  <2>4. ArchiveInv'
    <3>1. unfinished = 0 => Len(queue) = 0 /\ wpc = "idle"
      BY SMT DEF Counted, TypeOK, QueueTypes
    <3>2. unfinished = 0 => due = {} /\ ~serving
      BY <3>1, SMT DEF DueInv, HandInv
    <3> QED  BY <2>2, <3>2 DEF ArchiveInv
  <2>5. BudgetKept'  BY DEF BudgetKept
  <2> QED  BY <2>2, <2>3, <2>4, <2>5
<1>3. CASE SizeEntry
  <2>1. PICK a \in Funds :
          LET limit == MaximumAllocation(a)
              q     == Downscaled(Current.qty, Current.price, limit) IN
          IF limit <= 0 \/ q <= 0 THEN Skip /\ UNCHANGED allocated
          ELSE /\ want' = q /\ allocated' = allocated + q * Current.price
               /\ ipc' = "upsert" /\ UNCHANGED item
    BY <1>3 DEF SizeEntry
  <2> DEFINE limit == MaximumAllocation(a)
             q     == Downscaled(Current.qty, Current.price, limit)
             fits  == allocated' * FactorDen <= MaxFunds * Greater(FactorNum, FactorDen)
  <2>a. IF limit <= 0 \/ q <= 0 THEN Skip /\ UNCHANGED allocated
        ELSE /\ want' = q /\ allocated' = allocated + q * Current.price
             /\ ipc' = "upsert" /\ UNCHANGED item
    BY <2>1, Zenon
  <2>2. /\ ipc = "size" /\ item <= Len(Content[file])
        /\ UNCHANGED <<files, file, futuresCash, imported>> /\ KeepDb
    BY <1>3 DEF SizeEntry
  <2>3. /\ item \in Nat \ {0} /\ file \in File /\ Current \in Item
        /\ Current.qty \in Nat \ {0} /\ Current.price \in Nat /\ allocated \in Nat
    <3>1. item \in Nat \ {0} /\ file \in File  BY <2>2 DEF PlaceInv
    <3>2. Current \in Item  BY <2>2, <3>1, CurrentTyped
    <3> QED  BY <3>1, <3>2 DEF Item, TypeOK, ImportTypes
  <2>4. \/ /\ ipc' = "size" /\ item' = item + 1 /\ want' = 0 /\ allocated' = allocated
        \/ /\ ipc' = "upsert" /\ item' = item /\ want' \in Nat /\ allocated' \in Nat
           /\ fits
    <3>1. limit \in Int
      <4>1. a \in Int /\ FactorDen \in Nat \ {0} /\ FactorNum \in Int /\ NetLiq \in Int
            /\ LimitPct \in Int
        BY DEF IntakeAssumption
      <4>2. EffectiveFunds(a) \in Int  BY <2>3, <4>1, SMT DEF EffectiveFunds, Greater
      <4>3. /\ (NetLiq * FactorNum * LimitPct) \div (100 * FactorDen) \in Int
            /\ (EffectiveFunds(a) * FactorNum) \div FactorDen \in Int
        <5>1. 100 * FactorDen \in Nat \ {0} /\ NetLiq * FactorNum * LimitPct \in Int
              /\ EffectiveFunds(a) * FactorNum \in Int
          BY <4>1, <4>2, SMT
        <5> QED  BY <4>1, <5>1, Division
      <4> QED  BY <4>2, <4>3 DEF MaximumAllocation, Lesser
    <3>2. CASE limit > 0 /\ q > 0
      <4>1. /\ q \in Nat \ {0} /\ allocated + q * Current.price \in Nat
            /\ (allocated + q * Current.price) * FactorDen
                  <= MaxFunds * Greater(FactorNum, FactorDen)
        BY <2>3, <3>2, SizedFits
      <4>2. q \in Int /\ ~(limit <= 0 \/ q <= 0)  BY <3>1, <3>2, <4>1
      <4> HIDE DEF limit, q
      <4> QED  BY <2>a, <4>1, <4>2
    <3>3. CASE ~(limit > 0 /\ q > 0)
      <4>1. q \in Int
        <5>1. CASE Current.price = 0  BY <2>3, <5>1 DEF Downscaled
        <5>2. CASE Current.price # 0
          <6>1. limit \div Current.price \in Int  BY <2>3, <3>1, <5>2, Division
          <6> QED  BY <2>3, <6>1 DEF Downscaled
        <5> QED  BY <5>1, <5>2
      <4>2. limit <= 0 \/ q <= 0  BY <3>1, <3>3, <4>1, SMT
      <4> HIDE DEF limit, q
      <4>3. Skip /\ UNCHANGED allocated  BY <2>a, <4>2, Zenon
      <4> QED  BY <2>2, <4>3 DEF Skip
    <3> QED  BY <3>2, <3>3
  <2> HIDE DEF limit, q, fits
  <2>5. ImportTypes'  BY <2>2, <2>3, <2>4 DEF TypeOK, ImportTypes
  <2>6. TypeOK' /\ Counted' /\ HandInv' /\ DueInv' /\ due' = due /\ serving' = serving
    BY <2>2, <2>5, ImporterOnly
  <2>7. PlaceInv'  BY <2>2, <2>3, <2>4, SMT DEF PlaceInv
  <2>8. ArchiveInv'  BY <2>4 DEF ArchiveInv
  <2>9. BudgetKept'  BY <2>4 DEF BudgetKept, fits
  <2> QED  BY <2>6, <2>7, <2>8, <2>9
<1>4. CASE SizeFuture
  <2> USE <1>4 DEF SizeFuture, Skip
  <2>1. ImportTypes'
    <3>1. Margin \in Nat /\ (futuresCash >= Margin => futuresCash - Margin \in Nat)
      BY SMT DEF TypeOK, ImportTypes, IntakeAssumption
    <3> QED  BY <3>1, SMT DEF TypeOK, ImportTypes
  <2>2. TypeOK' /\ Counted' /\ HandInv' /\ DueInv'
    BY <2>1, ImporterOnly
  <2>3. PlaceInv'  BY SMT DEF PlaceInv, TypeOK, ImportTypes
  <2>4. ArchiveInv' /\ BudgetKept'  BY DEF ArchiveInv, BudgetKept
  <2> QED  BY <2>2, <2>3, <2>4
<1>5. CASE CheckExit
  <2> USE <1>5 DEF CheckExit, Skip
  <2>1. Current.group \in Group
    <3>1. Current \in Item  BY CurrentTyped DEF PlaceInv
    <3> QED  BY <3>1 DEF Item
  <2>2. ImportTypes'
    <3>1. qty[Current.group]["ENTRY"] \in Nat
      BY <2>1, SMT DEF TypeOK, DbTypes, Leg
    <3> QED  BY <3>1, SMT DEF TypeOK, ImportTypes
  <2>3. TypeOK' /\ Counted' /\ HandInv' /\ DueInv'
    BY <2>2, ImporterOnly
  <2>4. PlaceInv'  BY SMT DEF PlaceInv, TypeOK, ImportTypes
  <2>5. ArchiveInv' /\ BudgetKept'  BY DEF ArchiveInv, BudgetKept
  <2> QED  BY <2>3, <2>4, <2>5
<1>6. CASE Upsert
  <2> USE <1>6
  <2>1. /\ ipc = "upsert" /\ ipc' \in {"size", "put"}
        /\ UNCHANGED <<files, file, allocated, futuresCash, imported, today>>
        /\ \/ item' = item + 1 /\ ipc' = "size" /\ want' = 0
           \/ item' = item /\ ipc' = "put" /\ want' = want
        /\ UNCHANGED <<transmitted, settled, queueVars, workerVars, envVars, due, serving>>
    BY DEF Upsert, Skip
  <2>2. Current.group \in Group
    <3>1. Current \in Item  BY CurrentTyped DEF Upsert, PlaceInv
    <3> QED  BY <3>1 DEF Item
  <2>3. DbTypes' /\ resized' \subseteq Group
    <3>1. CASE UNCHANGED <<row, qty, resized>>
      BY <2>1, <3>1 DEF TypeOK, DbTypes, EnvTypes
    <3>2. CASE ~UNCHANGED <<row, qty, resized>>
      <4> DEFINE g == Current.group
                 legs == Written(g, Current.legs)
      <4>1. /\ row' = [row EXCEPT ![g] = [l \in Leg |->
                         IF l \in legs THEN "Created" ELSE row[g][l]]]
            /\ qty' = [qty EXCEPT ![g] = [l \in Leg |->
                         IF l \in legs THEN want ELSE qty[g][l]]]
            /\ resized' \in {resized, resized \cup {g}}
        BY <3>2 DEF Upsert
      <4> HIDE DEF legs, g
      <4>2. g \in Group /\ want \in Nat  BY <2>2 DEF g, TypeOK, ImportTypes
      <4>3. [l \in Leg |-> IF l \in legs THEN "Created" ELSE row[g][l]] \in [Leg -> Row]
        BY <4>2, SMT DEF TypeOK, DbTypes, Row
      <4>4. [l \in Leg |-> IF l \in legs THEN want ELSE qty[g][l]] \in [Leg -> Nat]
        BY <4>2, SMT DEF TypeOK, DbTypes
      <4> QED  BY <2>1, <4>1, <4>2, <4>3, <4>4 DEF TypeOK, DbTypes, EnvTypes
    <3> QED  BY <3>1, <3>2
  <2>4. TypeOK'
    <3>1. ImportTypes'  BY <2>1, SMT DEF TypeOK, ImportTypes
    <3> QED  BY <2>1, <2>3, <3>1 DEF TypeOK, QueueTypes, WorkerTypes, EnvTypes, queueVars,
                  workerVars, envVars
  <2>5. PlaceInv'  BY <2>1, SMT DEF PlaceInv, TypeOK, ImportTypes
  <2>6. Counted' /\ HandInv' /\ DueInv' /\ ArchiveInv' /\ BudgetKept'
    BY <2>1 DEF Counted, HandInv, DueInv, ArchiveInv, BudgetKept, queueVars, workerVars
  <2> QED  BY <2>4, <2>5, <2>6
<1>7. CASE Put
  <2> USE <1>7 DEF Put, Skip
  <2>1. Current.group \in Group
    <3>1. Current \in Item  BY CurrentTyped DEF PlaceInv
    <3> QED  BY <3>1 DEF Item
  <2> DEFINE g == Current.group
  <2>2. /\ queue \in Seq(Group) /\ queue' = Append(queue, g) /\ g \in Group
        /\ due' = due \cup {g}
    BY <2>1 DEF TypeOK, QueueTypes
  <2> HIDE DEF g
  <2>3. TypeOK'
    <3>1. ImportTypes' /\ QueueTypes'
      BY <2>1, <2>2, SMT DEF TypeOK, ImportTypes, QueueTypes
    <3>2. DbTypes' /\ WorkerTypes' /\ EnvTypes'
      BY <2>2 DEF TypeOK, DbTypes, WorkerTypes, EnvTypes, dbVars, workerVars, envVars
    <3> QED  BY <3>1, <3>2 DEF TypeOK
  <2>4. PlaceInv' /\ HandInv' /\ ArchiveInv' /\ BudgetKept'
    BY SMT DEF PlaceInv, HandInv, ArchiveInv, BudgetKept, workerVars, TypeOK, ImportTypes
  <2>5. Counted'  BY <2>2, SMT DEF Counted, TypeOK, QueueTypes, workerVars
  <2>6. DueInv'
    <3> SUFFICES ASSUME NEW h \in due'
                 PROVE  \/ wpc' = "load" /\ hand' = h
                        \/ \E i \in 1 .. Len(queue') : queue'[i] = h
      BY DEF DueInv
    <3>1. CASE h = g
      <4>1. queue'[Len(queue) + 1] = g /\ Len(queue) + 1 \in 1 .. Len(queue')
        BY <2>2, SMT
      <4> QED  BY <3>1, <4>1
    <3>2. CASE h \in due
      <4>1. ASSUME NEW i \in 1 .. Len(queue), queue[i] = h
            PROVE  queue'[i] = h /\ i \in 1 .. Len(queue')
        BY <2>2, <4>1, SMT
      <4> QED  BY <3>2, <4>1 DEF DueInv, workerVars
    <3> QED  BY <2>2, <3>1, <3>2
  <2> QED  BY <2>3, <2>4, <2>5, <2>6
<1>8. CASE Archive \/ ImportRaises
  <2> USE <1>8
  <2>1. /\ ipc # "scan" /\ ImportOver
        /\ \E s \in {"bak", "err"} : files' = [files EXCEPT ![file] = s]
        /\ UNCHANGED <<dbVars, queueVars, workerVars, sent, connected, histVars>>
        /\ faults' \in {faults, faults + 1}
    BY DEF Archive, ImportRaises, Disturb, KeepDb, envVars
  <2>2. TypeOK'
    <3>1. ImportTypes'
      <4>1. PICK s \in {"bak", "err"} : files' = [files EXCEPT ![file] = s]  BY <2>1
      <4>2. files' \in [File -> {"inbox", "bak", "err"}]
        <5>1. files \in [File -> {"inbox", "bak", "err"}]  BY DEF TypeOK, ImportTypes
        <5>2. s \in {"inbox", "bak", "err"}  OBVIOUS
        <5>3. file \in File  BY <2>1 DEF PlaceInv
        <5> QED  BY <4>1, <5>1, <5>2, <5>3
      <4>3. ImportOver  BY <2>1
      <4> QED  BY ONLY <4>2, <4>3, SMT DEF ImportTypes, ImportOver
    <3>2. faults' \in Nat  BY <2>1, SMT DEF TypeOK, EnvTypes
    <3>3. DbTypes' /\ QueueTypes' /\ WorkerTypes' /\ EnvTypes'
      BY <2>1, <3>2 DEF TypeOK, DbTypes, QueueTypes, WorkerTypes, EnvTypes, dbVars, queueVars,
                        workerVars, histVars
    <3> QED  BY <3>1, <3>3 DEF TypeOK
  <2>3. PlaceInv' /\ Counted' /\ HandInv' /\ DueInv' /\ ArchiveInv'
    BY <2>1 DEF PlaceInv, Counted, HandInv, DueInv, ArchiveInv, ImportOver, queueVars,
                workerVars, histVars
  <2>4. BudgetKept'  BY <2>1, NothingSpent DEF BudgetKept, ImportOver
  <2> QED  BY <2>2, <2>3, <2>4
<1> QED  BY <1>1, <1>2, <1>3, <1>4, <1>5, <1>6, <1>7, <1>8 DEF Import

\* A step that leaves the importer alone.
LEMMA ImporterKeeps ==
    ASSUME ImportTypes, PlaceInv, BudgetKept, KeepImport
    PROVE  ImportTypes' /\ PlaceInv' /\ BudgetKept' /\ ipc' = ipc
BY DEF KeepImport, importVars, ImportTypes, PlaceInv, BudgetKept

\* A round that is reported to the queue; the last one wakes the importer.
LEMMA RoundEnds ==
    ASSUME IInv, wpc \in {"work", "done"}, RoundOver, TaskDone, faults' \in Nat,
           UNCHANGED <<dbVars, queue, backoff, requeue, sent, connected, due, resized>>
    PROVE  IInv'
<1> USE DEF IInv
<1>1. unfinished = Len(queue) + 1 /\ Len(queue) \in Nat
  BY SMT DEF Counted, TypeOK, QueueTypes
<1>2. TypeOK'
  <2>1. ImportTypes'  BY DEF TypeOK, ImportTypes, TaskDone
  <2>2. QueueTypes'
    <3>1. unfinished' \in Nat  BY <1>1, SMT DEF TaskDone
    <3> QED  BY <3>1 DEF TypeOK, QueueTypes
  <2>3. WorkerTypes'
    <3>1. NoRows \in [Leg -> [status : Row, qty : Nat]]  BY SMT DEF NoRows, Row
    <3> QED  BY <3>1 DEF WorkerTypes, RoundOver
  <2>4. DbTypes' /\ EnvTypes'  BY DEF TypeOK, DbTypes, EnvTypes, dbVars, RoundOver
  <2> QED  BY <2>1, <2>2, <2>3, <2>4 DEF TypeOK
<1>3. PlaceInv' /\ BudgetKept'  BY DEF PlaceInv, BudgetKept, TaskDone
<1>4. Counted' /\ HandInv'  BY <1>1, SMT DEF Counted, HandInv, TaskDone, RoundOver
<1>5. DueInv'  BY DEF DueInv, RoundOver
<1>6. ArchiveInv'
  <2>1. unfinished = 1 => due = {}  BY <1>1, SMT DEF DueInv
  <2> QED  BY <2>1 DEF ArchiveInv, TaskDone, RoundOver
<1> QED  BY <1>2, <1>3, <1>4, <1>5, <1>6

LEMMA AbortedTyped ==
    ASSUME DbTypes, NEW g \in Group, NEW s \in Row
    PROVE  Aborted(g, s) \in [Leg -> Row]
BY DEF DbTypes, Aborted

LEMMA RowsTyped ==
    ASSUME DbTypes, NEW g \in Group
    PROVE  Rows(g) \in [Leg -> [status : Row, qty : Nat]]
BY DEF DbTypes, Rows

\* A step inside a round.
LEMMA RoundGoesOn ==
    ASSUME IInv, KeepImport, wpc = "work", wpc' \in {"work", "done"}, hand' = hand,
           UNCHANGED queueVars, UNCHANGED histVars, DbTypes', WorkerTypes', EnvTypes'
    PROVE  IInv'
<1> USE DEF IInv
<1>1. ImportTypes' /\ PlaceInv' /\ BudgetKept' /\ ipc' = ipc  BY ImporterKeeps DEF TypeOK
<1>2. QueueTypes'  BY DEF TypeOK, QueueTypes, queueVars
<1>3. Counted' /\ HandInv' /\ DueInv' /\ ArchiveInv'
  BY <1>1 DEF Counted, HandInv, DueInv, ArchiveInv, queueVars, histVars
<1> QED  BY <1>1, <1>2, <1>3 DEF TypeOK

\* The order of a leg of the group in hand goes to TWS, or is refused there.
LEMMA TransmitTyped ==
    ASSUME DbTypes, EnvTypes, hand \in Group, NEW l \in Leg, NEW s, NEW q \in Nat,
           Transmit(l, s, q)
    PROVE  transmitted' \in [Group -> [Leg -> Nat]] /\ sent' \in [Group -> [Leg -> Nat]]
<1>1. (IF s = "Submitted" THEN q ELSE 0) \in Nat  OBVIOUS
<1>2. transmitted' = [transmitted EXCEPT ![hand][l] = today] /\ today \in Nat
  BY DEF Transmit, DbTypes
<1>3. sent' = [sent EXCEPT ![hand][l] = IF s = "Submitted" THEN q ELSE 0]  BY DEF Transmit
<1>4. transmitted' \in [Group -> [Leg -> Nat]]  BY <1>2, SMT DEF DbTypes
<1>5. sent' \in [Group -> [Leg -> Nat]]  BY <1>1, <1>3, SMT DEF EnvTypes
<1> QED  BY <1>4, <1>5

LEMMA WorkerStep == IInv /\ Worker => IInv'
<1> SUFFICES ASSUME IInv, Worker PROVE IInv'  OBVIOUS
<1> USE DEF IInv
<1>1. CASE Get
  <2> USE <1>1 DEF Get
  <2>1. /\ queue \in Seq(Group) /\ queue # <<>> /\ queue' = Tail(queue) /\ hand' = Head(queue)
        /\ Len(queue) \in Nat \ {0} /\ Head(queue) \in Group /\ Tail(queue) \in Seq(Group)
        /\ Len(Tail(queue)) = Len(queue) - 1
    BY SMT DEF TypeOK, QueueTypes
  <2>2. ImportTypes' /\ PlaceInv' /\ BudgetKept' /\ ipc' = ipc
    BY ImporterKeeps DEF TypeOK
  <2>3. TypeOK'
    <3>1. QueueTypes' /\ WorkerTypes'  BY <2>1 DEF TypeOK, QueueTypes, WorkerTypes
    <3>2. DbTypes' /\ EnvTypes'  BY DEF TypeOK, DbTypes, EnvTypes, dbVars, envVars, histVars
    <3> QED  BY <2>2, <3>1, <3>2 DEF TypeOK
  <2>4. Counted' /\ HandInv'
    BY <2>1, SMT DEF Counted, HandInv, histVars
  <2>5. DueInv'
    <3> SUFFICES ASSUME NEW h \in due
                 PROVE  hand' = h \/ \E i \in 1 .. Len(queue') : queue'[i] = h
      BY DEF DueInv, histVars
    <3>1. PICK i \in 1 .. Len(queue) : queue[i] = h  BY DEF DueInv
    <3>2. CASE i = 1  BY <2>1, <3>1, <3>2, SMT
    <3>3. CASE i # 1
      <4>1. i - 1 \in 1 .. Len(queue') /\ queue'[i - 1] = h  BY <2>1, <3>1, <3>3, SMT
      <4> QED  BY <4>1
    <3> QED  BY <3>2, <3>3
  <2>6. ArchiveInv'  BY <2>2 DEF ArchiveInv, histVars
  <2> QED  BY <2>2, <2>3, <2>4, <2>5, <2>6
<1>2. CASE Load
  <2> USE <1>2 DEF Load
  <2>1. ImportTypes' /\ PlaceInv' /\ BudgetKept' /\ ipc' = ipc
    BY ImporterKeeps DEF TypeOK
  <2>2. hand \in Group  BY DEF HandInv
  <2>3. TypeOK'
    <3>1. DbTypes'
      <4>1. row[hand]["ENTRY"] \in {"Error", "Cancelled"}
              => Aborted(hand, row[hand]["ENTRY"]) \in [Leg -> Row]
        BY <2>2, AbortedTyped DEF TypeOK, Row
      <4>2. row' \in [Group -> [Leg -> Row]]
        BY <2>2, <4>1 DEF TypeOK, DbTypes
      <4> QED  BY <4>2 DEF TypeOK, DbTypes
    <3>2. WorkerTypes'
      <4>1. Rows(hand) \in [Leg -> [status : Row, qty : Nat]]  BY <2>2, RowsTyped DEF TypeOK
      <4> QED  BY <4>1 DEF TypeOK, WorkerTypes
    <3>3. QueueTypes'  BY DEF TypeOK, QueueTypes, queueVars
    <3>4. EnvTypes'
      <4>1. (hand \in due) \in BOOLEAN /\ due \ {hand} \subseteq Group
        BY DEF TypeOK, EnvTypes
      <4> QED  BY <4>1 DEF TypeOK, EnvTypes, envVars
    <3> QED  BY <2>1, <3>1, <3>2, <3>3, <3>4 DEF TypeOK
  <2>4. wpc' \in {"work", "done"} /\ hand' = hand /\ UNCHANGED queueVars
    OBVIOUS
  <2>5. Counted' /\ HandInv'  BY <2>2, <2>4 DEF Counted, HandInv, queueVars
  <2>6. DueInv'  BY <2>4 DEF DueInv, queueVars
  <2>7. ArchiveInv'  BY <2>1 DEF ArchiveInv
  <2> QED  BY <2>1, <2>3, <2>5, <2>6, <2>7
<1>3. CASE SendEntry
  <2> USE <1>3 DEF SendEntry
  <2>1. hand \in Group /\ "ENTRY" \in Leg  BY DEF HandInv, Leg
  <2>2. snap["ENTRY"].qty \in Nat  BY <2>1 DEF TypeOK, WorkerTypes
  <2>3. transmitted' \in [Group -> [Leg -> Nat]] /\ sent' \in [Group -> [Leg -> Nat]]
    BY <2>1, <2>2, TransmitTyped DEF TypeOK
  <2>4. DbTypes'
    <3>1. row' \in [Group -> [Leg -> Row]]  BY <2>1, SMT DEF TypeOK, DbTypes, Row
    <3> QED  BY <2>3, <3>1 DEF TypeOK, DbTypes
  <2>5. WorkerTypes'
    <3>1. snap' \in [Leg -> [status : Row, qty : Nat]]
      BY <2>1, SMT DEF TypeOK, WorkerTypes, Row
    <3> QED  BY <3>1 DEF TypeOK, WorkerTypes
  <2>6. EnvTypes'  BY <2>3 DEF TypeOK, EnvTypes, histVars
  <2> QED  BY <2>4, <2>5, <2>6, RoundGoesOn
<1>4. CASE RefuseEntry
  <2> USE <1>4 DEF RefuseEntry
  <2>1. hand \in Group /\ "ENTRY" \in Leg /\ 0 \in Nat  BY DEF HandInv, Leg
  <2>2. transmitted' \in [Group -> [Leg -> Nat]] /\ sent' \in [Group -> [Leg -> Nat]]
    <3>1. CASE UNCHANGED <<transmitted, sent>>
      BY <3>1 DEF TypeOK, DbTypes, EnvTypes
    <3>2. CASE Transmit("ENTRY", "Error", 0)
      BY <2>1, <3>2, TransmitTyped DEF TypeOK
    <3> QED  BY <3>1, <3>2
  <2>3. DbTypes'
    <3>1. Aborted(hand, "Error") \in [Leg -> Row]
      BY <2>1, AbortedTyped DEF TypeOK, Row
    <3>2. [Aborted(hand, "Error") EXCEPT !["ENTRY"] = "Error"] \in [Leg -> Row]
      BY <2>1, <3>1 DEF Row
    <3>3. row' \in [Group -> [Leg -> Row]]
      BY <2>1, <3>2 DEF TypeOK, DbTypes
    <3> QED  BY <2>2, <3>3 DEF TypeOK, DbTypes
  <2>4. WorkerTypes'  BY DEF TypeOK, WorkerTypes
  <2>5. EnvTypes'  BY <2>2 DEF TypeOK, EnvTypes, histVars
  <2> QED  BY <2>3, <2>4, <2>5, RoundGoesOn
<1>5. ASSUME NEW l \in Exit, SendExit(l)  PROVE IInv'
  <2> DEFINE q == IF snap["ENTRY"].status = "Filled"
                  THEN Lesser(snap[l].qty, Position(hand)) ELSE snap[l].qty
  <2>1. /\ wpc = "work" /\ wpc' = wpc /\ hand' = hand /\ KeepImport
        /\ UNCHANGED <<settled, today, connected, faults>>
        /\ UNCHANGED queueVars /\ UNCHANGED histVars
        /\ snap' = [snap EXCEPT ![l].status = "none"]
        /\ \/ row' = [row EXCEPT ![hand][l] = "Cancelled"] /\ UNCHANGED <<qty, transmitted, sent>>
           \/ /\ \E s \in {"Submitted", "Error"} :
                    row' = [row EXCEPT ![hand][l] = s] /\ Transmit(l, s, q)
              /\ qty' = IF q < snap[l].qty THEN [qty EXCEPT ![hand][l] = q] ELSE qty
    BY <1>5 DEF SendExit
  <2>2. hand \in Group /\ l \in Leg  BY <2>1 DEF HandInv, Leg
  <2>3. q \in Nat
    <3>1. snap[l].qty \in Nat  BY <2>2 DEF TypeOK, WorkerTypes
    <3>2. Position(hand) \in Nat
      <4>1. sent[hand]["ENTRY"] \in Nat  BY <2>2 DEF TypeOK, EnvTypes, Leg
      <4> QED  BY <4>1 DEF Position
    <3> QED  BY <3>1, <3>2 DEF Lesser
  <2> HIDE DEF q
  <2>4. /\ row' \in [Group -> [Leg -> Row]] /\ qty' \in [Group -> [Leg -> Nat]]
        /\ transmitted' \in [Group -> [Leg -> Nat]] /\ sent' \in [Group -> [Leg -> Nat]]
    <3>1. CASE row' = [row EXCEPT ![hand][l] = "Cancelled"] /\ UNCHANGED <<qty, transmitted, sent>>
      <4>1. "Cancelled" \in Row  BY DEF Row
      <4>2. row' \in [Group -> [Leg -> Row]]  BY <2>2, <3>1, <4>1 DEF TypeOK, DbTypes
      <4> QED  BY <3>1, <4>2 DEF TypeOK, DbTypes, EnvTypes
    <3>2. CASE /\ \E s \in {"Submitted", "Error"} :
                    row' = [row EXCEPT ![hand][l] = s] /\ Transmit(l, s, q)
               /\ qty' = IF q < snap[l].qty THEN [qty EXCEPT ![hand][l] = q] ELSE qty
      <4>1. PICK s \in {"Submitted", "Error"} :
                    row' = [row EXCEPT ![hand][l] = s] /\ Transmit(l, s, q)
        BY <3>2
      <4>2. s \in Row  BY DEF Row
      <4>3. row' \in [Group -> [Leg -> Row]]  BY <2>2, <4>1, <4>2 DEF TypeOK, DbTypes
      <4>4. qty' \in [Group -> [Leg -> Nat]]  BY <2>2, <2>3, <3>2 DEF TypeOK, DbTypes
      <4> QED  BY <2>2, <2>3, <4>1, <4>3, <4>4, TransmitTyped DEF TypeOK
    <3> QED  BY <2>1, <3>1, <3>2
  <2>5. DbTypes' /\ EnvTypes'  BY <2>1, <2>4 DEF TypeOK, DbTypes, EnvTypes, histVars
  <2>6. WorkerTypes'
    <3>1. snap' \in [Leg -> [status : Row, qty : Nat]]
      BY <2>1, <2>2, SMT DEF TypeOK, WorkerTypes, Row
    <3> QED  BY <2>1, <3>1 DEF TypeOK, WorkerTypes
  <2> QED  BY <2>1, <2>5, <2>6, RoundGoesOn
<1>6. CASE Done
  <2>1. wpc \in {"work", "done"} /\ RoundOver /\ TaskDone
        /\ UNCHANGED <<dbVars, queue, backoff, requeue, sent, connected, faults, due, resized>>
    BY <1>6 DEF Done, envVars
  <2>2. faults' \in Nat  BY <2>1 DEF TypeOK, EnvTypes
  <2> QED  BY <2>1, <2>2, RoundEnds
<1>7. CASE Raise
  <2>1. wpc = "work" /\ RoundOver /\ TaskDone
        /\ UNCHANGED <<dbVars, queue, backoff, requeue, sent, connected, due, resized>>
    BY <1>7 DEF Raise
  <2>2. faults' \in Nat
    <3>1. faults' = faults \/ faults' = faults + 1  BY <1>7 DEF Raise, Disturb
    <3> QED  BY <3>1 DEF TypeOK, EnvTypes
  <2> QED  BY <2>1, <2>2, RoundEnds
<1> QED  BY <1>1, <1>2, <1>3, <1>4, <1>5, <1>6, <1>7 DEF Worker

\* Retries and recovery.
LEMMA PutBackStep ==
    ASSUME IInv, NEW g \in Group, PutBack(g), KeepImport, backoff' \in [Group -> Nat],
           requeue' \subseteq Group,
           UNCHANGED dbVars, UNCHANGED workerVars, UNCHANGED envVars, UNCHANGED histVars
    PROVE  IInv'
<1> USE DEF IInv
<1>1. ImportTypes' /\ PlaceInv' /\ BudgetKept' /\ ipc' = ipc  BY ImporterKeeps DEF TypeOK
<1>2. queue \in Seq(Group) /\ queue' = Append(queue, g) /\ unfinished' = unfinished + 1
  BY DEF TypeOK, QueueTypes, PutBack
<1>3. QueueTypes'  BY <1>2, SMT DEF TypeOK, QueueTypes
<1>4. DbTypes' /\ WorkerTypes' /\ EnvTypes'
  BY DEF TypeOK, DbTypes, WorkerTypes, EnvTypes, dbVars, workerVars, envVars, histVars
<1>5. Counted' /\ HandInv' /\ ArchiveInv'
  BY <1>1, <1>2, SMT DEF Counted, HandInv, ArchiveInv, workerVars, histVars, TypeOK, QueueTypes
<1>6. DueInv'
  <2> SUFFICES ASSUME NEW h \in due
               PROVE  \/ wpc = "load" /\ hand = h
                      \/ \E i \in 1 .. Len(queue') : queue'[i] = h
    BY DEF DueInv, workerVars, histVars
  <2>1. ASSUME NEW i \in 1 .. Len(queue), queue[i] = h
        PROVE  queue'[i] = h /\ i \in 1 .. Len(queue')
    BY <1>2, <2>1, SMT
  <2> QED  BY <2>1 DEF DueInv
<1> QED  BY <1>1, <1>3, <1>4, <1>5, <1>6 DEF TypeOK

\* TWS and the session leave the program's queue and coroutines alone.
LEMMA OutsideStep ==
    ASSUME IInv, KeepProgram, DbTypes', sent' \in [Group -> [Leg -> Nat]],
           connected' \in BOOLEAN, faults' \in Nat, backoff' \in [Group -> Nat]
    PROVE  IInv'
<1> USE DEF IInv, KeepProgram
<1>1. ImportTypes' /\ PlaceInv' /\ BudgetKept'
  BY DEF TypeOK, importVars, ImportTypes, PlaceInv, BudgetKept
<1>2. QueueTypes' /\ WorkerTypes' /\ EnvTypes'
  BY DEF TypeOK, QueueTypes, WorkerTypes, EnvTypes, workerVars, histVars
<1>3. Counted' /\ HandInv' /\ DueInv' /\ ArchiveInv'
  BY DEF Counted, HandInv, DueInv, ArchiveInv, importVars, workerVars, histVars
<1> QED  BY <1>1, <1>2, <1>3 DEF TypeOK

LEMMA RetryStep ==
    ASSUME IInv, RecoveryLoad \/ \E g \in Group : Requeue(g) \/ RecoveryPut(g)
    PROVE  IInv'
<1> USE DEF IInv
<1>1. ASSUME NEW g \in Group, Requeue(g)  PROVE IInv'
  <2> USE <1>1 DEF Requeue
  <2>1. backoff' \in [Group -> Nat]
    <3>1. backoff[g] - 1 \in Nat  BY SMT DEF TypeOK, QueueTypes
    <3> QED  BY <3>1 DEF TypeOK, QueueTypes
  <2>2. requeue' \subseteq Group  BY DEF TypeOK, QueueTypes
  <2> QED  BY <2>1, <2>2, PutBackStep
<1>2. ASSUME NEW g \in Group, RecoveryPut(g)  PROVE IInv'
  <2> USE <1>2 DEF RecoveryPut
  <2>1. backoff' \in [Group -> Nat] /\ requeue' \subseteq Group
    BY DEF TypeOK, QueueTypes
  <2> QED  BY <2>1, PutBackStep
<1>3. CASE RecoveryLoad
  <2> USE <1>3 DEF RecoveryLoad
  <2>1. ImportTypes' /\ PlaceInv' /\ BudgetKept' /\ ipc' = ipc
    BY ImporterKeeps DEF TypeOK
  <2>2. QueueTypes'  BY DEF TypeOK, QueueTypes, CreatedGroups
  <2>3. DbTypes' /\ WorkerTypes' /\ EnvTypes'
    BY DEF TypeOK, DbTypes, WorkerTypes, EnvTypes, dbVars, workerVars, envVars, histVars
  <2>4. Counted' /\ HandInv' /\ DueInv' /\ ArchiveInv'
    BY <2>1 DEF Counted, HandInv, DueInv, ArchiveInv, workerVars, histVars
  <2> QED  BY <2>1, <2>2, <2>3, <2>4 DEF TypeOK
<1> QED  BY <1>1, <1>2, <1>3

LEMMA LoseTyped ==
    ASSUME DbTypes, EnvTypes, NEW g \in Group, NEW l \in Leg, NEW s \in Row, Lose(g, l, s)
    PROVE  row' \in [Group -> [Leg -> Row]] /\ sent' \in [Group -> [Leg -> Nat]]
<1> DEFINE over == IF l # "ENTRY" THEN {} ELSE {m \in Exit : row[g][m] = "Submitted"}
<1>1. /\ row' = [row EXCEPT ![g] = [m \in Leg |->
                    IF m = l THEN s ELSE IF m \in over THEN "Cancelled" ELSE row[g][m]]]
      /\ sent' = [sent EXCEPT ![g] = [m \in Leg |->
                    IF m \in over \cup {l} THEN 0 ELSE sent[g][m]]]
  BY DEF Lose
<1> HIDE DEF over
<1>2. [m \in Leg |-> IF m = l THEN s ELSE IF m \in over THEN "Cancelled" ELSE row[g][m]]
        \in [Leg -> Row]
  BY DEF DbTypes, Row
<1>3. [m \in Leg |-> IF m \in over \cup {l} THEN 0 ELSE sent[g][m]] \in [Leg -> Nat]
  BY DEF EnvTypes
<1> QED  BY <1>1, <1>2, <1>3 DEF DbTypes, EnvTypes

LEMMA FillTyped ==
    ASSUME DbTypes, EnvTypes, NEW g \in Group, NEW l \in Leg, Fill(g, l)
    PROVE  row' \in [Group -> [Leg -> Row]] /\ sent' \in [Group -> [Leg -> Nat]]
<1> DEFINE over == IF l = "ENTRY" THEN {} ELSE {m \in Exit \ {l} : row[g][m] = "Submitted"}
<1>1. /\ row' = [row EXCEPT ![g] = [m \in Leg |->
                    IF m = l THEN "Filled" ELSE IF m \in over THEN "Cancelled" ELSE row[g][m]]]
      /\ sent' = [sent EXCEPT ![g] = [m \in Leg |-> IF m \in over THEN 0 ELSE sent[g][m]]]
  BY DEF Fill
<1> HIDE DEF over
<1>2. [m \in Leg |-> IF m = l THEN "Filled" ELSE IF m \in over THEN "Cancelled" ELSE row[g][m]]
        \in [Leg -> Row]
  BY DEF DbTypes, Row
<1>3. [m \in Leg |-> IF m \in over THEN 0 ELSE sent[g][m]] \in [Leg -> Nat]
  BY DEF EnvTypes
<1> QED  BY <1>1, <1>2, <1>3 DEF DbTypes, EnvTypes

LEMMA EnvironmentStep ==
    ASSUME IInv, \/ Connect \/ Disconnect \/ Crash
                 \/ \E g \in Group, l \in Leg : Fill(g, l) \/ OrderOver(g, l)
    PROVE  IInv'
<1> USE DEF IInv
<1>1. CASE Connect \/ Disconnect
  <2>1. KeepProgram /\ UNCHANGED <<dbVars, backoff, sent>> /\ connected' \in BOOLEAN
        /\ faults' \in {faults, faults + 1}
    BY <1>1 DEF Connect, Disconnect, Disturb
  <2>2. DbTypes' /\ sent' \in [Group -> [Leg -> Nat]] /\ faults' \in Nat
        /\ backoff' \in [Group -> Nat]
    BY <2>1 DEF TypeOK, DbTypes, EnvTypes, QueueTypes, dbVars
  <2> QED  BY <2>1, <2>2, OutsideStep
<1>2. ASSUME NEW g \in Group, NEW l \in Leg, Fill(g, l)  PROVE IInv'
  <2>1. row' \in [Group -> [Leg -> Row]] /\ sent' \in [Group -> [Leg -> Nat]]
    BY <1>2, FillTyped DEF TypeOK
  <2>2. /\ settled' \in {settled, settled \cup {g}} /\ KeepProgram
        /\ UNCHANGED <<qty, transmitted, today, backoff, connected, faults>>
    BY <1>2 DEF Fill
  <2>3. DbTypes'  BY <2>1, <2>2 DEF TypeOK, DbTypes
  <2>4. connected' \in BOOLEAN /\ faults' \in Nat /\ backoff' \in [Group -> Nat]
    BY <2>2 DEF TypeOK, EnvTypes, QueueTypes
  <2> QED  BY <2>1, <2>2, <2>3, <2>4, OutsideStep
<1>3. ASSUME NEW g \in Group, NEW l \in Leg, OrderOver(g, l)  PROVE IInv'
  <2>1. PICK s \in Row : Lose(g, l, s)  BY <1>3 DEF OrderOver, Row
  <2>2. row' \in [Group -> [Leg -> Row]] /\ sent' \in [Group -> [Leg -> Nat]]
    BY <2>1, LoseTyped DEF TypeOK
  <2>3. /\ faults' \in {faults, faults + 1} /\ KeepProgram
        /\ UNCHANGED <<qty, transmitted, settled, today, connected>>
        /\ backoff' = backoff \/ backoff' = [backoff EXCEPT ![g] = @ + 1]
    BY <1>3 DEF OrderOver, Disturb
  <2>4. DbTypes'  BY <2>2, <2>3 DEF TypeOK, DbTypes
  <2>5. connected' \in BOOLEAN /\ faults' \in Nat  BY <2>3 DEF TypeOK, EnvTypes
  <2>6. backoff' \in [Group -> Nat]
    <3>1. backoff[g] + 1 \in Nat  BY DEF TypeOK, QueueTypes
    <3> QED  BY <2>3, <3>1 DEF TypeOK, QueueTypes
  <2> QED  BY <2>2, <2>3, <2>4, <2>5, <2>6, OutsideStep
<1>4. CASE Crash
  <2> USE <1>4 DEF Crash, ImportOver, RoundOver
  <2>1. ImportTypes'  BY SMT DEF TypeOK, ImportTypes
  <2>2. QueueTypes'  BY SMT DEF QueueTypes
  <2>3. WorkerTypes'
    <3>1. NoRows \in [Leg -> [status : Row, qty : Nat]]  BY SMT DEF NoRows, Row
    <3> QED  BY <3>1 DEF WorkerTypes
  <2>4. DbTypes'  BY DEF TypeOK, DbTypes, dbVars
  <2>5. EnvTypes'
    <3>1. faults' \in Nat  BY DEF Disturb, TypeOK, EnvTypes
    <3> QED  BY <3>1 DEF TypeOK, EnvTypes
  <2>6. PlaceInv' /\ HandInv' /\ DueInv' /\ ArchiveInv'
    BY DEF PlaceInv, HandInv, DueInv, ArchiveInv
  <2>7. Counted'  BY SMT DEF Counted
  <2>8. BudgetKept'  BY NothingSpent DEF BudgetKept
  <2> QED  BY <2>1, <2>2, <2>3, <2>4, <2>5, <2>6, <2>7, <2>8 DEF TypeOK
<1> QED  BY <1>1, <1>2, <1>3, <1>4

LEMMA StepIInv == IInv /\ [Next]_vars => IInv'
<1> SUFFICES ASSUME IInv, [Next]_vars PROVE IInv'  OBVIOUS
<1>1. CASE UNCHANGED vars
  BY <1>1 DEF vars, dbVars, importVars, queueVars, workerVars, envVars, histVars, IInv, TypeOK,
     DbTypes, ImportTypes, QueueTypes, WorkerTypes, EnvTypes, PlaceInv, Counted, HandInv,
     DueInv, ArchiveInv, BudgetKept
<1>2. CASE Next
  BY <1>2, ImportStep, WorkerStep, RetryStep, EnvironmentStep DEF Next
<1> QED  BY <1>1, <1>2

THEOREM Invariant == Spec => []IInv
BY InitIInv, StepIInv, PTL DEF Spec

----------------------------------------------------------------------------
(* The properties.                                                         *)

\* Whatever the files and the faults, tables and counters keep their types: the
\* queue's count of unfinished groups never runs below zero, so no task_done raises.
THEOREM IntakeTypes == Spec => []TypeOK
<1>1. IInv => TypeOK  BY DEF IInv
<1> QED  BY <1>1, Invariant, PTL

\* For any files, prices, factors and whatever TWS answers for the account, one file's
\* entries cost no more than the greatest balance, times the margin factor if that is
\* above one.
THEOREM BatchWithinAccount == Spec => []BudgetKept
<1>1. IInv => BudgetKept  BY DEF IInv
<1> QED  BY <1>1, Invariant, PTL

\* No file is judged while a group it queued is still to be processed or in hand, for any
\* queue size, any number of retries, recovery runs, crashes and failing rounds.
THEOREM JudgedWhenProcessed == Spec => ArchivedIsProcessed
<1>1. IInv /\ [Next]_vars => [Archive => imported \cap due = {} /\ ~serving]_vars
  BY DEF IInv, ArchiveInv, Archive
<1> QED  BY <1>1, Invariant, PTL DEF Spec, ArchivedIsProcessed
----------------------------------------------------------------------------
(* No exit is at TWS for more than its entry.                              *)

UnderWay == {"Submitted", "Filled"}

\* Only orders that are under way count at TWS.
SentStands == \A g \in Group, l \in Leg : sent[g][l] > 0 => row[g][l] \in UnderWay

\* An exit is under way only behind its entry, and filled only after it.
EntryFirst ==
    \A g \in Group, l \in Exit :
        /\ row[g][l] = "Submitted" => row[g]["ENTRY"] \in UnderWay
        /\ row[g][l] = "Filled" => row[g]["ENTRY"] = "Filled"

\* Nobody takes a leg that the worker has loaded from it.
LoadedStands ==
    wpc = "work" => \A l \in Leg : snap[l].status = "Created" => row[hand][l] = "Created"

\* A standalone exit is written with the quantity its entry has.
WantFits == ipc = "upsert" /\ ~HasEntry => want = qty[Current.group]["ENTRY"]

\* An entry under way is at TWS with the quantity of its row, and no leg that is or
\* may be sent beside it has more, in the table and in what the worker has loaded.
SizedTogether ==
    /\ \A g \in Group \ resized :
        /\ row[g]["ENTRY"] \in UnderWay => sent[g]["ENTRY"] = qty[g]["ENTRY"]
        /\ \A l \in Exit : row[g][l] \in {"Created", "Submitted"}
                            => qty[g][l] <= qty[g]["ENTRY"]
    /\ wpc = "work" /\ hand \notin resized =>
        /\ snap["ENTRY"].status = "Created" => snap["ENTRY"].qty = qty[hand]["ENTRY"]
        /\ \A l \in Exits : snap[l].qty <= qty[hand]["ENTRY"]

CoverInv ==
    SentStands /\ EntryFirst /\ LoadedStands /\ WantFits /\ SizedTogether /\ ExitsCovered

LEMMA InitCover == Init => CoverInv
<1> SUFFICES ASSUME Init PROVE CoverInv  OBVIOUS
<1>1. \A g \in Group, l \in Leg : row[g][l] = "none" /\ sent[g][l] = 0
  BY DEF Init
<1>2. "ENTRY" \in Leg /\ Exit \subseteq Leg  BY DEF Leg
<1> QED  BY <1>1, <1>2 DEF Init, CoverInv, SentStands, EntryFirst, LoadedStands, WantFits,
            SizedTogether, ExitsCovered, UnderWay

\* The importer's quantity for an exit stays that of its entry.
LEMMA WantKept ==
    ASSUME WantFits, UNCHANGED <<file, item, want>>, ipc' = "upsert" => ipc = "upsert",
           qty'[Current.group]["ENTRY"] = qty[Current.group]["ENTRY"]
    PROVE  WantFits'
BY DEF WantFits, HasEntry, Current

\* A step that touches no order, and no round in which orders are being sent.
LEMMA CoverKept ==
    ASSUME CoverInv, UNCHANGED <<row, qty, sent, resized>>, WantFits',
           wpc' = "work" => wpc = "work" /\ hand' = hand /\ snap' = snap
    PROVE  CoverInv'
<1> USE DEF CoverInv
<1>1. SentStands' /\ EntryFirst' /\ ExitsCovered'
  BY DEF SentStands, EntryFirst, ExitsCovered
<1>2. LoadedStands'  BY DEF LoadedStands
<1>3. SizedTogether'  BY DEF SizedTogether, Exits
<1> QED  BY <1>1, <1>2, <1>3

\* A step of importer, queue or session that leaves orders and rounds as they are.
LEMMA CoverAside ==
    ASSUME IInv, CoverInv,
           \/ Import /\ ~Upsert
           \/ Get \/ Done \/ Raise \/ RecoveryLoad \/ Connect \/ Disconnect \/ Crash
           \/ \E g \in Group : Requeue(g) \/ RecoveryPut(g)
    PROVE  CoverInv'
<1>1. CASE Begin \/ LastItem \/ SkipInvalid \/ SizeEntry \/ SizeFuture
  <2>1. UNCHANGED <<row, qty, sent, resized, wpc, hand, snap>>
    BY <1>1 DEF Begin, LastItem, SkipInvalid, SizeEntry, SizeFuture, KeepDb, dbVars, workerVars,
                envVars, histVars
  <2>2. WantFits'
    <3>1. CASE Begin \/ LastItem \/ SkipInvalid
      BY <3>1 DEF Begin, LastItem, SkipInvalid, Skip, WantFits
    <3>2. CASE SizeEntry \/ SizeFuture
      <4>1. HasEntry /\ file' = file /\ (ipc' = "size" \/ item' = item)
        BY <3>2 DEF SizeEntry, SizeFuture, Skip
      <4> QED  BY <4>1 DEF WantFits, HasEntry, Current
    <3> QED  BY <1>1, <3>1, <3>2
  <2> QED  BY <2>1, <2>2, CoverKept
<1>2. CASE CheckExit
  <2>1. UNCHANGED <<row, qty, sent, resized, wpc, hand, snap, file>>
    BY <1>2 DEF CheckExit, KeepDb, dbVars, workerVars, envVars, histVars
  <2>2. \/ ipc' = "size"
        \/ want' = qty[Current.group]["ENTRY"] /\ item' = item
    BY <1>2 DEF CheckExit, Skip
  <2>3. WantFits'
    <3>1. CASE ipc' = "size"  BY <3>1 DEF WantFits
    <3>2. CASE want' = qty[Current.group]["ENTRY"] /\ UNCHANGED item
      <4>1. Current' = Current  BY <2>1, <3>2 DEF Current
      <4> QED  BY <2>1, <3>2, <4>1 DEF WantFits
    <3> QED  BY <2>2, <3>1, <3>2
  <2> QED  BY <2>1, <2>3, CoverKept
<1>3. CASE Put \/ Archive \/ ImportRaises
  <2>1. UNCHANGED <<row, qty, sent, resized, wpc, hand, snap>> /\ ipc' \in {"size", "scan"}
    BY <1>3 DEF Put, Archive, ImportRaises, ImportOver, Skip, KeepDb, dbVars, workerVars,
                envVars, histVars
  <2>2. WantFits'  BY <2>1 DEF WantFits
  <2> QED  BY <2>1, <2>2, CoverKept
<1>4. CASE Get \/ Done \/ Raise
  <2>1. UNCHANGED <<row, qty, sent, resized, file, item, want>> /\ wpc' # "work"
        /\ (ipc' = "upsert" => ipc = "upsert")
    BY <1>4 DEF Get, Done, Raise, RoundOver, TaskDone, KeepImport, importVars, dbVars, envVars,
                histVars
  <2>2. WantFits'  BY <2>1, WantKept DEF CoverInv
  <2> QED  BY <2>1, <2>2, CoverKept
<1>5. CASE RecoveryLoad \/ Connect \/ Disconnect \/ \E g \in Group : Requeue(g) \/ RecoveryPut(g)
  <2>1. UNCHANGED <<row, qty, sent, resized, wpc, hand, snap, file, item, want, ipc>>
    <3>1. CASE RecoveryLoad \/ \E g \in Group : Requeue(g) \/ RecoveryPut(g)
      <4>1. KeepImport /\ UNCHANGED dbVars /\ UNCHANGED workerVars /\ UNCHANGED envVars
            /\ UNCHANGED histVars
        BY <3>1 DEF RecoveryLoad, Requeue, RecoveryPut
      <4> QED  BY <4>1 DEF KeepImport, importVars, dbVars, workerVars, envVars, histVars
    <3>2. CASE Connect \/ Disconnect
      BY <3>2 DEF Connect, Disconnect, KeepProgram, importVars, dbVars, workerVars, histVars
    <3> QED  BY <1>5, <3>1, <3>2
  <2>2. WantFits'  BY <2>1, WantKept DEF CoverInv
  <2> QED  BY <2>1, <2>2, CoverKept
<1>6. CASE Crash
  <2>1. UNCHANGED <<row, qty, sent, resized>> /\ wpc' # "work" /\ ipc' = "scan"
    BY <1>6 DEF Crash, RoundOver, ImportOver, dbVars
  <2>2. WantFits'  BY <2>1 DEF WantFits
  <2> QED  BY <2>1, <2>2, CoverKept
<1> QED  BY <1>1, <1>2, <1>3, <1>4, <1>5, <1>6 DEF Import

\* The rows of an import.  A standalone exit gets the quantity of its entry; an entry is
\* written with its exits before any of them is under way.
LEMMA CoverUpsert == IInv /\ CoverInv /\ Upsert => CoverInv'
<1> SUFFICES ASSUME IInv, CoverInv, Upsert PROVE CoverInv'  OBVIOUS
<1> USE DEF CoverInv
<1> DEFINE g    == Current.group
           legs == Written(g, Current.legs)
<1>1. ipc = "upsert" /\ UNCHANGED <<sent, wpc, hand, snap>>
  BY DEF Upsert, workerVars, envVars
<1>2. g \in Group /\ Current.legs \subseteq Leg
  <2>1. Current \in Item  BY <1>1, CurrentTyped DEF IInv, PlaceInv
  <2> QED  BY <2>1 DEF Item
<1>3. CASE ~HasEntry /\ row[g]["ENTRY"] \in {"none"} \cup Unsent
  <2>1. UNCHANGED <<row, qty, resized>> /\ ipc' = "size"  BY <1>3 DEF Upsert, Skip
  <2>2. WantFits'  BY <2>1 DEF WantFits
  <2> QED  BY <1>1, <2>1, <2>2, CoverKept
<1>4. CASE ~(~HasEntry /\ row[g]["ENTRY"] \in {"none"} \cup Unsent)
  <2>1. /\ row' = [row EXCEPT ![g] = [l \in Leg |-> IF l \in legs THEN "Created" ELSE @[l]]]
        /\ qty' = [qty EXCEPT ![g] = [l \in Leg |-> IF l \in legs THEN want ELSE @[l]]]
        /\ resized' = IF /\ HasEntry
                         /\ \/ row[g]["ENTRY"] \notin {"none"} \cup Unsent
                            \/ hand = g /\ wpc = "work"
                            \/ \E l \in Exit \ Current.legs : row[g][l] = "Created"
                      THEN resized \cup {g} ELSE resized
        /\ ipc' = "put"
    BY <1>4 DEF Upsert
  <2>2. \A h \in Group : h # g => row'[h] = row[h] /\ qty'[h] = qty[h]
    BY <1>2, <2>1 DEF IInv, TypeOK, DbTypes
  <2>3. \A l \in Leg : /\ row'[g][l] = IF l \in legs THEN "Created" ELSE row[g][l]
                       /\ qty'[g][l] = IF l \in legs THEN want ELSE qty[g][l]
    BY <1>2, <2>1 DEF IInv, TypeOK, DbTypes
  <2>4. \A l \in legs : l \in Current.legs /\ row[g][l] \in {"none", "Created", "Error", "Cancelled"}
    BY DEF Written, Unsent
  <2>5. \A l \in Current.legs : row[g][l] \in {"none", "Created", "Error", "Cancelled"} => l \in legs
    BY DEF Written, Unsent
  <2>6. resized \subseteq resized'  BY <2>1
  <2>7. \A h \in Group, l \in Leg : row[h][l] \in UnderWay => row'[h][l] = row[h][l]
    BY <2>2, <2>3, <2>4 DEF UnderWay
  <2>8. \A h \in Group, l \in Leg : row'[h][l] \in UnderWay => row'[h][l] = row[h][l]
    BY <2>2, <2>3 DEF UnderWay
  <2>9. \A h \in Group, l \in Leg : row[h][l] = "Created" => row'[h][l] = "Created"
    BY <2>2, <2>3
  <2> HIDE DEF g, legs
  <2>10. "ENTRY" \in Leg /\ Exit \subseteq Leg /\ "ENTRY" \notin Exit  BY DEF Leg, Exit
  <2>11. SentStands'  BY <1>1, <2>7 DEF SentStands, UnderWay
  <2>12. EntryFirst'
    <3> SUFFICES ASSUME NEW h \in Group, NEW l \in Exit, row'[h][l] \in UnderWay
                 PROVE  /\ row'[h][l] = "Submitted" => row'[h]["ENTRY"] \in UnderWay
                        /\ row'[h][l] = "Filled" => row'[h]["ENTRY"] = "Filled"
      BY DEF EntryFirst, UnderWay
    <3>1. row'[h][l] = row[h][l] /\ row[h][l] \in UnderWay  BY <2>8, <2>10
    <3>2. row[h]["ENTRY"] \in UnderWay /\ (row[h][l] = "Filled" => row[h]["ENTRY"] = "Filled")
      BY <3>1 DEF EntryFirst, UnderWay
    <3> QED  BY <2>7, <2>10, <3>1, <3>2
  <2>13. LoadedStands'
    <3>1. wpc = "work" => hand \in Group  BY DEF IInv, HandInv
    <3> QED  BY <1>1, <2>9, <3>1 DEF LoadedStands
  <2>14. WantFits'  BY <2>1 DEF WantFits
  <2>15. ExitsCovered'  BY <1>1, <2>6 DEF ExitsCovered
  <2>16. want \in Nat /\ \A h \in Group, l \in Leg : qty[h][l] \in Nat
    BY DEF IInv, TypeOK, DbTypes, ImportTypes
  <2>17. CASE g \in resized'
    <3>1. \A h \in Group \ resized' : h # g /\ h \notin resized  BY <2>6, <2>17
    <3>2. wpc = "work" /\ hand \notin resized' => hand \in Group \ resized'
      BY DEF IInv, HandInv
    <3>3. SizedTogether'  BY <1>1, <2>2, <3>1, <3>2 DEF SizedTogether, Exits
    <3> QED  BY <2>11, <2>12, <2>13, <2>14, <2>15, <3>3
  <2>18. CASE g \notin resized' /\ HasEntry
    <3>1. /\ g \notin resized /\ row[g]["ENTRY"] \in {"none"} \cup Unsent
          /\ ~(hand = g /\ wpc = "work")
          /\ \A l \in Exit \ Current.legs : row[g][l] # "Created"
      BY <2>1, <2>18 DEF g
    <3>2. row'[g]["ENTRY"] = "Created" /\ qty'[g]["ENTRY"] = want
      BY <2>3, <2>5, <2>10, <2>18, <3>1 DEF HasEntry, Unsent
    <3>3. \A l \in Exit : row[g][l] \notin UnderWay
      BY <1>2, <3>1 DEF EntryFirst, UnderWay, Unsent
    <3>4. \A l \in Exit : row'[g][l] \in {"Created", "Submitted"} => qty'[g][l] = want
      <4> SUFFICES ASSUME NEW l \in Exit, row'[g][l] \in {"Created", "Submitted"}, l \notin legs
                   PROVE  FALSE
        BY <2>3, <2>10
      <4>1. row[g][l] = "Created"  BY <2>3, <2>10, <3>3 DEF UnderWay
      <4>2. l \in Current.legs  BY <3>1, <4>1
      <4> QED  BY <2>5, <4>1, <4>2
    <3>5. \A h \in Group \ resized' :
            /\ row'[h]["ENTRY"] \in UnderWay => sent'[h]["ENTRY"] = qty'[h]["ENTRY"]
            /\ \A l \in Exit : row'[h][l] \in {"Created", "Submitted"}
                                => qty'[h][l] <= qty'[h]["ENTRY"]
      <4> SUFFICES ASSUME NEW h \in Group \ resized'
                   PROVE  /\ row'[h]["ENTRY"] \in UnderWay => sent[h]["ENTRY"] = qty'[h]["ENTRY"]
                          /\ \A l \in Exit : row'[h][l] \in {"Created", "Submitted"}
                                              => qty'[h][l] <= qty'[h]["ENTRY"]
        BY <1>1
      <4>1. CASE h = g  BY <2>16, <3>2, <3>4, <4>1 DEF UnderWay
      <4>2. CASE h # g  BY <2>2, <2>6, <4>2 DEF SizedTogether
      <4> QED  BY <4>1, <4>2
    <3>6. wpc = "work" => hand \in Group /\ hand # g  BY <3>1 DEF IInv, HandInv
    <3>7. SizedTogether'
      BY <1>1, <2>2, <2>6, <3>5, <3>6 DEF SizedTogether, Exits
    <3> QED  BY <2>11, <2>12, <2>13, <2>14, <2>15, <3>7
  <2>19. CASE g \notin resized' /\ ~HasEntry
    <3>1. "ENTRY" \notin legs  BY <2>4, <2>19 DEF HasEntry
    <3>2. row'[g]["ENTRY"] = row[g]["ENTRY"] /\ qty'[g]["ENTRY"] = qty[g]["ENTRY"]
      BY <2>3, <2>10, <3>1
    <3>3. \A h \in Group : row'[h]["ENTRY"] = row[h]["ENTRY"] /\ qty'[h]["ENTRY"] = qty[h]["ENTRY"]
      BY <2>2, <3>2
    <3>4. want = qty[g]["ENTRY"]  BY <1>1, <2>19 DEF WantFits, g
    <3>5. \A h \in Group \ resized' :
            /\ row'[h]["ENTRY"] \in UnderWay => sent'[h]["ENTRY"] = qty'[h]["ENTRY"]
            /\ \A l \in Exit : row'[h][l] \in {"Created", "Submitted"}
                                => qty'[h][l] <= qty'[h]["ENTRY"]
      <4> SUFFICES ASSUME NEW h \in Group \ resized'
                   PROVE  /\ row'[h]["ENTRY"] \in UnderWay => sent[h]["ENTRY"] = qty'[h]["ENTRY"]
                          /\ \A l \in Exit : row'[h][l] \in {"Created", "Submitted"}
                                              => qty'[h][l] <= qty'[h]["ENTRY"]
        BY <1>1
      <4>1. row'[h]["ENTRY"] \in UnderWay => sent[h]["ENTRY"] = qty'[h]["ENTRY"]
        BY <2>6, <3>3 DEF SizedTogether
      <4>2. ASSUME NEW l \in Exit, row'[h][l] \in {"Created", "Submitted"}
            PROVE  qty'[h][l] <= qty'[h]["ENTRY"]
        <5>1. CASE h = g /\ l \in legs
          BY <2>3, <2>10, <2>16, <3>2, <3>4, <5>1
        <5>2. CASE ~(h = g /\ l \in legs)
          <6>1. row'[h][l] = row[h][l] /\ qty'[h][l] = qty[h][l]
            BY <2>2, <2>3, <2>10, <5>2
          <6> QED  BY <2>6, <3>3, <4>2, <6>1 DEF SizedTogether
        <5> QED  BY <5>1, <5>2
      <4> QED  BY <4>1, <4>2
    <3>6. wpc = "work" => hand \in Group  BY DEF IInv, HandInv
    <3>7. SizedTogether'
      BY <1>1, <2>6, <3>3, <3>5, <3>6 DEF SizedTogether, Exits
    <3> QED  BY <2>11, <2>12, <2>13, <2>14, <2>15, <3>7
  <2> QED  BY <2>17, <2>18, <2>19
<1> QED  BY <1>3, <1>4

\* Unsent legs are given up; nothing else changes, and the round sends no more.
LEMMA CoverAborted ==
    ASSUME CoverInv, UNCHANGED <<qty, resized>>, WantFits', wpc' # "work",
           \A h \in Group, l \in Leg :
               /\ sent'[h][l] = sent[h][l]
               /\ \/ row'[h][l] = row[h][l]
                  \/ row[h][l] = "Created" /\ row'[h][l] \in {"Error", "Cancelled"}
    PROVE  CoverInv'
<1> USE DEF CoverInv
<1>1. "ENTRY" \in Leg /\ Exit \subseteq Leg  BY DEF Leg
<1>2. \A h \in Group, l \in Leg :
          /\ row[h][l] \in UnderWay => row'[h][l] = row[h][l]
          /\ row'[h][l] \in UnderWay \cup {"Created"} => row'[h][l] = row[h][l]
  BY DEF UnderWay
<1>3. SentStands'  BY <1>2 DEF SentStands
<1>4. EntryFirst'
  <2> SUFFICES ASSUME NEW h \in Group, NEW l \in Exit, row'[h][l] \in UnderWay
               PROVE  /\ row'[h][l] = "Submitted" => row'[h]["ENTRY"] \in UnderWay
                      /\ row'[h][l] = "Filled" => row'[h]["ENTRY"] = "Filled"
    BY DEF EntryFirst, UnderWay
  <2>1. row'[h][l] = row[h][l] /\ row[h][l] \in UnderWay  BY <1>1, <1>2
  <2>2. row[h]["ENTRY"] \in UnderWay /\ (row[h][l] = "Filled" => row[h]["ENTRY"] = "Filled")
    BY <2>1 DEF EntryFirst, UnderWay
  <2> QED  BY <1>1, <1>2, <2>1, <2>2
<1>5. LoadedStands'  BY DEF LoadedStands
<1>6. SizedTogether'
  <2> SUFFICES ASSUME NEW h \in Group \ resized
               PROVE  /\ row'[h]["ENTRY"] \in UnderWay => sent'[h]["ENTRY"] = qty[h]["ENTRY"]
                      /\ \A l \in Exit : row'[h][l] \in {"Created", "Submitted"}
                                          => qty[h][l] <= qty[h]["ENTRY"]
    BY DEF SizedTogether
  <2>1. row'[h]["ENTRY"] \in UnderWay => sent'[h]["ENTRY"] = qty[h]["ENTRY"]
    BY <1>1, <1>2 DEF SizedTogether
  <2>2. ASSUME NEW l \in Exit, row'[h][l] \in {"Created", "Submitted"}
        PROVE  qty[h][l] <= qty[h]["ENTRY"]
    BY <1>1, <1>2, <2>2 DEF SizedTogether, UnderWay
  <2> QED  BY <2>1, <2>2
<1>7. ExitsCovered'  BY <1>1 DEF ExitsCovered
<1> QED  BY <1>3, <1>4, <1>5, <1>6, <1>7

\* The worker loads a group, or gives it up because of its entry.
LEMMA CoverLoad == IInv /\ CoverInv /\ Load => CoverInv'
<1> SUFFICES ASSUME IInv, CoverInv, Load PROVE CoverInv'  OBVIOUS
<1> USE DEF CoverInv
<1>1. /\ UNCHANGED <<qty, sent, resized, hand, file, item, want, ipc>>
      /\ wpc = "load" /\ snap' = Rows(hand)
  BY DEF Load, KeepImport, importVars, envVars
<1>2. hand \in Group  BY <1>1 DEF IInv, HandInv
<1>3. WantFits'  BY <1>1, WantKept
<1>4. CASE row[hand]["ENTRY"] \in {"Error", "Cancelled"}
  <2>1. wpc' = "done" /\ row' = [row EXCEPT ![hand] = Aborted(hand, row[hand]["ENTRY"])]
    BY <1>4 DEF Load
  <2>2. \A h \in Group, l \in Leg :
            row'[h][l] = IF h = hand /\ row[h][l] = "Created" THEN row[hand]["ENTRY"]
                         ELSE row[h][l]
    BY <1>2, <2>1 DEF IInv, TypeOK, DbTypes, Aborted
  <2> QED  BY <1>1, <1>3, <1>4, <2>1, <2>2, CoverAborted
<1>5. CASE row[hand]["ENTRY"] \notin {"Error", "Cancelled"}
  <2>1. row' = row  BY <1>5 DEF Load
  <2>2. \A l \in Leg : snap'[l].status = row[hand][l] /\ snap'[l].qty = qty[hand][l]
    BY <1>1 DEF Rows
  <2>3. "ENTRY" \in Leg /\ Exit \subseteq Leg  BY DEF Leg
  <2>4. LoadedStands'  BY <1>1, <2>1, <2>2 DEF LoadedStands
  <2>5. SizedTogether'
    <3>1. Exits' = {l \in Exit : row[hand][l] = "Created"}  BY <2>2, <2>3 DEF Exits
    <3> QED  BY <1>1, <1>2, <2>1, <2>2, <2>3, <3>1 DEF SizedTogether
  <2>6. SentStands' /\ EntryFirst' /\ ExitsCovered'
    BY <1>1, <2>1 DEF SentStands, EntryFirst, ExitsCovered
  <2> QED  BY <1>3, <2>4, <2>5, <2>6
<1> QED  BY <1>4, <1>5

\* The entry is refused, and the rest of the group given up.
LEMMA CoverRefuse == IInv /\ CoverInv /\ RefuseEntry => CoverInv'
<1> SUFFICES ASSUME IInv, CoverInv, RefuseEntry PROVE CoverInv'  OBVIOUS
<1> USE DEF CoverInv
<1>1. /\ UNCHANGED <<qty, resized, file, item, want, ipc>> /\ wpc = "work" /\ wpc' = "done"
      /\ snap["ENTRY"].status = "Created"
      /\ row' = [row EXCEPT ![hand] = [Aborted(hand, "Error") EXCEPT !["ENTRY"] = "Error"]]
      /\ sent' = sent \/ sent' = [sent EXCEPT ![hand]["ENTRY"] = 0]
  BY DEF RefuseEntry, Transmit, KeepImport, importVars, histVars
<1>2. hand \in Group /\ "ENTRY" \in Leg  BY <1>1 DEF IInv, HandInv, Leg
<1>3. row[hand]["ENTRY"] = "Created"  BY <1>1, <1>2 DEF LoadedStands
<1>4. sent[hand]["ENTRY"] = 0
  <2>1. sent[hand]["ENTRY"] \in Nat  BY <1>2 DEF IInv, TypeOK, EnvTypes
  <2> QED  BY <1>2, <1>3, <2>1 DEF SentStands, UnderWay
<1>5. \A h \in Group, l \in Leg : sent'[h][l] = sent[h][l]
  BY <1>1, <1>2, <1>4 DEF IInv, TypeOK, EnvTypes
<1>6. \A h \in Group, l \in Leg :
          row'[h][l] = IF h = hand /\ row[h][l] = "Created" THEN "Error" ELSE row[h][l]
  BY <1>1, <1>2, <1>3 DEF IInv, TypeOK, DbTypes, Aborted
<1>7. WantFits'  BY <1>1, WantKept
<1> QED  BY <1>1, <1>5, <1>6, <1>7, CoverAborted

\* The entry goes to TWS with the quantity of its row; none of its exits is there.
LEMMA CoverSendEntry == IInv /\ CoverInv /\ SendEntry => CoverInv'
<1> SUFFICES ASSUME IInv, CoverInv, SendEntry PROVE CoverInv'  OBVIOUS
<1> USE DEF CoverInv
<1>1. /\ UNCHANGED <<qty, resized, wpc, hand, file, item, want, ipc>> /\ wpc = "work"
      /\ snap["ENTRY"].status = "Created"
      /\ row' = [row EXCEPT ![hand]["ENTRY"] = "Submitted"]
      /\ sent' = [sent EXCEPT ![hand]["ENTRY"] = snap["ENTRY"].qty]
      /\ snap' = [snap EXCEPT !["ENTRY"].status = "Submitted"]
  BY DEF SendEntry, Transmit, KeepImport, importVars, histVars
<1>2. hand \in Group /\ "ENTRY" \in Leg /\ Exit \subseteq Leg /\ "ENTRY" \notin Exit
  BY <1>1 DEF IInv, HandInv, Leg, Exit
<1>3. /\ row'[hand]["ENTRY"] = "Submitted" /\ sent'[hand]["ENTRY"] = snap["ENTRY"].qty
      /\ \A h \in Group, l \in Leg :
            h # hand \/ l # "ENTRY" => row'[h][l] = row[h][l] /\ sent'[h][l] = sent[h][l]
  BY <1>1, <1>2 DEF IInv, TypeOK, DbTypes, EnvTypes
<1>4. /\ snap'["ENTRY"].status = "Submitted"
      /\ \A l \in Exit : snap'[l] = snap[l]
  BY <1>1, <1>2, SMT DEF IInv, TypeOK, WorkerTypes
<1>5. row[hand]["ENTRY"] = "Created"  BY <1>1, <1>2 DEF LoadedStands
<1>6. \A l \in Exit : row[hand][l] \notin UnderWay /\ sent[hand][l] = 0
  <2> SUFFICES ASSUME NEW l \in Exit PROVE row[hand][l] \notin UnderWay /\ sent[hand][l] = 0
    OBVIOUS
  <2>1. row[hand][l] \notin UnderWay  BY <1>2, <1>5 DEF EntryFirst, UnderWay
  <2>2. sent[hand][l] \in Nat  BY <1>2 DEF IInv, TypeOK, EnvTypes
  <2> QED  BY <1>2, <2>1, <2>2 DEF SentStands
<1>7. snap["ENTRY"].qty \in Nat  BY <1>2 DEF IInv, TypeOK, WorkerTypes
<1> HIDE DEF SendEntry
<1>8. SentStands'  BY <1>2, <1>3 DEF SentStands, UnderWay
<1>9. EntryFirst'  BY <1>2, <1>3, <1>5 DEF EntryFirst, UnderWay
<1>10. LoadedStands'
  <2> SUFFICES ASSUME NEW l \in Leg, snap'[l].status = "Created" PROVE row'[hand][l] = "Created"
    BY <1>1 DEF LoadedStands
  <2>1. l \in Exit  BY <1>4 DEF Leg
  <2> QED  BY <1>1, <1>2, <1>3, <1>4, <2>1 DEF LoadedStands
<1>11. WantFits'  BY <1>1, WantKept
<1>12. ExitsCovered'
  <2> SUFFICES ASSUME NEW h \in Group \ resized, NEW l \in Exit
               PROVE  sent'[h][l] <= sent'[h]["ENTRY"]
    BY <1>1 DEF ExitsCovered
  <2>1. CASE h = hand  BY <1>2, <1>3, <1>6, <1>7, <2>1
  <2>2. CASE h # hand  BY <1>2, <1>3, <2>2 DEF ExitsCovered
  <2> QED  BY <2>1, <2>2
<1>13. SizedTogether'
  <2>1. Exits' = Exits  BY <1>4 DEF Exits
  <2>2. ASSUME NEW h \in Group \ resized
        PROVE  /\ row'[h]["ENTRY"] \in UnderWay => sent'[h]["ENTRY"] = qty[h]["ENTRY"]
               /\ \A l \in Exit : row'[h][l] \in {"Created", "Submitted"}
                                   => qty[h][l] <= qty[h]["ENTRY"]
    <3>1. CASE h = hand  BY <1>1, <1>2, <1>3, <3>1 DEF SizedTogether
    <3>2. CASE h # hand  BY <1>2, <1>3, <3>2 DEF SizedTogether
    <3> QED  BY <3>1, <3>2
  <2>3. hand \notin resized => \A l \in Exits : snap'[l].qty <= qty[hand]["ENTRY"]
    BY <1>1, <1>4 DEF SizedTogether, Exits
  <2> QED  BY <1>1, <1>4, <2>1, <2>2, <2>3 DEF SizedTogether
<1> QED  BY <1>8, <1>9, <1>10, <1>11, <1>12, <1>13

\* An exit goes to TWS behind a live entry, with no more than was loaded; or it is given up.
LEMMA CoverSendExit == \A l \in Exit : IInv /\ CoverInv /\ SendExit(l) => CoverInv'
<1> SUFFICES ASSUME IInv, CoverInv, NEW l \in Exit, SendExit(l) PROVE CoverInv'  OBVIOUS
<1> USE DEF CoverInv
<1> DEFINE q == IF snap["ENTRY"].status = "Filled"
                THEN Lesser(snap[l].qty, Position(hand)) ELSE snap[l].qty
<1>1. /\ UNCHANGED <<resized, wpc, hand, file, item, want, ipc>> /\ wpc = "work"
      /\ snap["ENTRY"].status # "Created" /\ l \in Exits
      /\ snap' = [snap EXCEPT ![l].status = "none"]
      /\ \/ /\ row' = [row EXCEPT ![hand][l] = "Cancelled"]
            /\ UNCHANGED <<qty, transmitted, sent>>
         \/ /\ \E s \in {"Submitted", "Error"} :
                  /\ s = "Submitted" => sent[hand]["ENTRY"] > 0
                  /\ row' = [row EXCEPT ![hand][l] = s] /\ Transmit(l, s, q)
            /\ qty' = IF q < snap[l].qty THEN [qty EXCEPT ![hand][l] = q] ELSE qty
  BY DEF SendExit, KeepImport, importVars, histVars
<1>2. hand \in Group /\ l \in Leg /\ "ENTRY" \in Leg /\ Exit \subseteq Leg /\ l # "ENTRY"
  BY <1>1 DEF IInv, HandInv, Leg, Exit
<1>3. row[hand][l] = "Created" /\ snap[l].status = "Created"
  BY <1>1, <1>2 DEF Exits, LoadedStands
<1>4. q \in Nat /\ q <= snap[l].qty
  <2>1. snap[l].qty \in Nat /\ sent[hand]["ENTRY"] \in Nat
    BY <1>2 DEF IInv, TypeOK, WorkerTypes, EnvTypes
  <2>2. Position(hand) \in Nat  BY <2>1 DEF Position
  <2> QED  BY <2>1, <2>2 DEF Lesser
<1> HIDE DEF q
<1>5. sent[hand][l] = 0
  <2>1. sent[hand][l] \in Nat  BY <1>2 DEF IInv, TypeOK, EnvTypes
  <2> QED  BY <1>2, <1>3, <2>1 DEF SentStands, UnderWay
<1> DEFINE others == \A h \in Group, m \in Leg :
                        h # hand \/ m # l => /\ row'[h][m] = row[h][m] /\ sent'[h][m] = sent[h][m]
                                           /\ qty'[h][m] = qty[h][m]
           gone == row'[hand][l] \in {"Cancelled", "Error"} /\ sent'[hand][l] = 0
           goes == /\ row'[hand][l] = "Submitted" /\ sent'[hand][l] = q
                   /\ sent[hand]["ENTRY"] > 0
                   /\ qty'[hand][l] = IF q < snap[l].qty THEN q ELSE qty[hand][l]
<1>6. others /\ (gone \/ goes)
  <2>1. CASE row' = [row EXCEPT ![hand][l] = "Cancelled"] /\ UNCHANGED <<qty, transmitted, sent>>
    BY <1>2, <1>5, <2>1 DEF IInv, TypeOK, DbTypes, EnvTypes
  <2>2. ASSUME NEW s \in {"Submitted", "Error"},
               s = "Submitted" => sent[hand]["ENTRY"] > 0,
               row' = [row EXCEPT ![hand][l] = s], Transmit(l, s, q),
               qty' = IF q < snap[l].qty THEN [qty EXCEPT ![hand][l] = q] ELSE qty
        PROVE  others /\ (gone \/ goes)
    <3>1. row'[hand][l] = s /\ \A h \in Group, m \in Leg :
            h # hand \/ m # l => row'[h][m] = row[h][m]
      BY <1>2, <2>2 DEF IInv, TypeOK, DbTypes
    <3>2. sent'[hand][l] = (IF s = "Submitted" THEN q ELSE 0) /\ \A h \in Group, m \in Leg :
            h # hand \/ m # l => sent'[h][m] = sent[h][m]
      BY <1>2, <2>2 DEF IInv, TypeOK, EnvTypes, Transmit
    <3>3. qty'[hand][l] = (IF q < snap[l].qty THEN q ELSE qty[hand][l])
          /\ \A h \in Group, m \in Leg : h # hand \/ m # l => qty'[h][m] = qty[h][m]
      BY <1>2, <2>2 DEF IInv, TypeOK, DbTypes
    <3> QED  BY <2>2, <3>1, <3>2, <3>3
  <2> QED  BY <1>1, <2>1, <2>2
<1>7. \A m \in Leg : m # l => snap'[m] = snap[m]
  BY <1>1, <1>2 DEF IInv, TypeOK, WorkerTypes
<1>8. snap'[l].status = "none"  BY <1>1, <1>2 DEF IInv, TypeOK, WorkerTypes
<1>9. row'[hand][l] = "Submitted" => row[hand]["ENTRY"] \in UnderWay
  BY <1>2, <1>6 DEF SentStands
<1>10. SentStands'
  <2> SUFFICES ASSUME NEW h \in Group, NEW m \in Leg, sent'[h][m] > 0 PROVE row'[h][m] \in UnderWay
    BY DEF SentStands
  <2>1. CASE h = hand /\ m = l  BY <1>6, <2>1 DEF UnderWay
  <2>2. CASE ~(h = hand /\ m = l)  BY <1>6, <2>2 DEF SentStands
  <2> QED  BY <2>1, <2>2
<1>11. EntryFirst'
  <2> SUFFICES ASSUME NEW h \in Group, NEW m \in Exit
               PROVE  /\ row'[h][m] = "Submitted" => row'[h]["ENTRY"] \in UnderWay
                      /\ row'[h][m] = "Filled" => row'[h]["ENTRY"] = "Filled"
    BY DEF EntryFirst
  <2>1. row'[h]["ENTRY"] = row[h]["ENTRY"]  BY <1>2, <1>6
  <2>2. CASE h = hand /\ m = l  BY <1>6, <1>9, <2>1, <2>2
  <2>3. CASE ~(h = hand /\ m = l)  BY <1>2, <1>6, <2>1, <2>3 DEF EntryFirst
  <2> QED  BY <2>2, <2>3
<1>12. LoadedStands'
  <2> SUFFICES ASSUME NEW m \in Leg, snap'[m].status = "Created" PROVE row'[hand][m] = "Created"
    BY <1>1 DEF LoadedStands
  <2>1. m # l  BY <1>8
  <2> QED  BY <1>1, <1>2, <1>6, <1>7, <2>1 DEF LoadedStands
<1>13. WantFits'
  <2>1. CASE ipc = "upsert"
    <3>1. Current.group \in Group
      <4>1. Current \in Item  BY <2>1, CurrentTyped DEF IInv, PlaceInv
      <4> QED  BY <4>1 DEF Item
    <3> QED  BY <1>1, <1>2, <1>6, <3>1, WantKept
  <2>2. CASE ipc # "upsert"  BY <1>1, <2>2 DEF WantFits
  <2> QED  BY <2>1, <2>2
<1>14. hand \notin resized => snap[l].qty <= qty[hand]["ENTRY"]
  BY <1>1 DEF SizedTogether
<1>15. /\ qty[hand]["ENTRY"] \in Nat /\ qty[hand][l] \in Nat /\ sent[hand]["ENTRY"] \in Nat
       /\ snap[l].qty \in Nat
  BY <1>2 DEF IInv, TypeOK, DbTypes, EnvTypes, WorkerTypes
<1>16. ExitsCovered'
  <2> SUFFICES ASSUME NEW h \in Group \ resized, NEW m \in Exit
               PROVE  sent'[h][m] <= sent'[h]["ENTRY"]
    BY <1>1 DEF ExitsCovered
  <2>1. sent'[h]["ENTRY"] = sent[h]["ENTRY"]  BY <1>2, <1>6
  <2>2. CASE h = hand /\ m = l
    <3>1. CASE row'[hand][l] = "Submitted"
      <4>1. sent[hand]["ENTRY"] = qty[hand]["ENTRY"]
        BY <1>2, <1>9, <2>2, <3>1 DEF SizedTogether
      <4> QED  BY <1>4, <1>6, <1>14, <1>15, <2>1, <2>2, <3>1, <4>1
    <3>2. CASE row'[hand][l] # "Submitted"  BY <1>6, <1>15, <2>1, <2>2, <3>2
    <3> QED  BY <3>1, <3>2
  <2>3. CASE ~(h = hand /\ m = l)  BY <1>2, <1>6, <2>1, <2>3 DEF ExitsCovered
  <2> QED  BY <2>2, <2>3
<1>17. SizedTogether'
  <2>1. \A h \in Group : /\ row'[h]["ENTRY"] = row[h]["ENTRY"]
                        /\ sent'[h]["ENTRY"] = sent[h]["ENTRY"]
                        /\ qty'[h]["ENTRY"] = qty[h]["ENTRY"]
    BY <1>2, <1>6
  <2>2. ASSUME NEW h \in Group \ resized, NEW m \in Exit, row'[h][m] \in {"Created", "Submitted"}
        PROVE  qty'[h][m] <= qty[h]["ENTRY"]
    <3>1. CASE h = hand /\ m = l
      <4>1. row'[hand][l] = "Submitted"  BY <1>6, <2>2, <3>1
      <4>2. qty[hand][l] <= qty[hand]["ENTRY"]  BY <1>3, <3>1 DEF SizedTogether
      <4> QED  BY <1>4, <1>6, <1>14, <1>15, <3>1, <4>1, <4>2
    <3>2. CASE ~(h = hand /\ m = l)
      <4>1. row'[h][m] = row[h][m] /\ qty'[h][m] = qty[h][m]  BY <1>2, <1>6, <3>2
      <4> QED  BY <2>2, <4>1 DEF SizedTogether
    <3> QED  BY <3>1, <3>2
  <2>3. \A m \in Exits' : m \in Exits /\ snap'[m] = snap[m]
    BY <1>2, <1>7, <1>8 DEF Exits
  <2>4. hand \notin resized => \A m \in Exits' : snap'[m].qty <= qty[hand]["ENTRY"]
    BY <1>1, <2>3 DEF SizedTogether
  <2>5. snap'["ENTRY"].status # "Created"  BY <1>1, <1>2, <1>7
  <2> QED  BY <1>1, <1>2, <2>1, <2>2, <2>4, <2>5 DEF SizedTogether
<1> QED  BY <1>10, <1>11, <1>12, <1>13, <1>16, <1>17

\* Orders under way are filled or over; with an entry that is over its exits are.
LEMMA CoverEnded ==
    ASSUME IInv, CoverInv, UNCHANGED <<qty, resized, workerVars, file, item, want, ipc>>,
           \A h \in Group, m \in Leg :
               \/ row'[h][m] = row[h][m] /\ sent'[h][m] = sent[h][m]
               \/ /\ row[h][m] = "Submitted" /\ row'[h][m] = "Filled"
                  /\ sent'[h][m] = sent[h][m] /\ (m \in Exit => row[h]["ENTRY"] = "Filled")
               \/ /\ row[h][m] = "Submitted" /\ row'[h][m] \in {"Cancelled", "Error", "Created"}
                  /\ sent'[h][m] = 0,
           \A h \in Group : row'[h]["ENTRY"] # row[h]["ENTRY"] /\ row'[h]["ENTRY"] # "Filled"
                            => \A m \in Exit : row'[h][m] # "Submitted"
    PROVE  CoverInv'
<1> USE DEF CoverInv
<1>1. "ENTRY" \in Leg /\ Exit \subseteq Leg /\ "ENTRY" \notin Exit  BY DEF Leg, Exit
<1>2. \A h \in Group, m \in Leg : sent[h][m] \in Nat /\ qty[h][m] \in Nat
  BY DEF IInv, TypeOK, EnvTypes, DbTypes
<1>3. SentStands'  BY <1>2 DEF SentStands, UnderWay
<1>4. EntryFirst'
  <2> SUFFICES ASSUME NEW h \in Group, NEW m \in Exit
               PROVE  /\ row'[h][m] = "Submitted" => row'[h]["ENTRY"] \in UnderWay
                      /\ row'[h][m] = "Filled" => row'[h]["ENTRY"] = "Filled"
    BY DEF EntryFirst
  <2>1. ASSUME row'[h][m] = "Submitted"  PROVE row'[h]["ENTRY"] \in UnderWay
    <3>1. row[h]["ENTRY"] \in UnderWay  BY <1>1, <2>1 DEF EntryFirst
    <3> QED  BY <1>1, <2>1, <3>1 DEF UnderWay
  <2>2. ASSUME row'[h][m] = "Filled"  PROVE row'[h]["ENTRY"] = "Filled"
    <3>1. row[h]["ENTRY"] = "Filled"  BY <1>1, <2>2 DEF EntryFirst
    <3> QED  BY <1>1, <3>1
  <2> QED  BY <2>1, <2>2
<1>5. LoadedStands'
  <2> SUFFICES ASSUME wpc = "work", NEW m \in Leg, snap[m].status = "Created"
               PROVE  row'[hand][m] = "Created"
    BY DEF LoadedStands, workerVars
  <2>1. hand \in Group /\ row[hand][m] = "Created"  BY DEF IInv, HandInv, LoadedStands
  <2> QED  BY <2>1
<1>6. WantFits'  BY WantKept
<1>7. ExitsCovered'
  <2> SUFFICES ASSUME NEW h \in Group \ resized, NEW m \in Exit
               PROVE  sent'[h][m] <= sent'[h]["ENTRY"]
    BY DEF ExitsCovered
  <2>1. CASE row'[h]["ENTRY"] # row[h]["ENTRY"] /\ row'[h]["ENTRY"] # "Filled"
    <3>1. row[h]["ENTRY"] = "Submitted" /\ sent'[h]["ENTRY"] = 0  BY <1>1, <2>1
    <3>2. row'[h][m] # "Submitted"  BY <2>1
    <3>3. row'[h][m] # "Filled"  BY <1>1, <3>1 DEF EntryFirst
    <3>4. sent'[h][m] = 0  BY <1>1, <1>2, <3>2, <3>3 DEF SentStands, UnderWay
    <3> QED  BY <3>1, <3>4
  <2>2. CASE ~(row'[h]["ENTRY"] # row[h]["ENTRY"] /\ row'[h]["ENTRY"] # "Filled")
    <3>1. sent'[h]["ENTRY"] = sent[h]["ENTRY"]  BY <1>1, <2>2
    <3>2. sent'[h][m] = sent[h][m] \/ sent'[h][m] = 0  BY <1>1
    <3>3. sent[h][m] <= sent[h]["ENTRY"]  BY DEF ExitsCovered
    <3> QED  BY <1>1, <1>2, <3>1, <3>2, <3>3
  <2> QED  BY <2>1, <2>2
<1>8. SizedTogether'
  <2>1. ASSUME NEW h \in Group \ resized, row'[h]["ENTRY"] \in UnderWay
        PROVE  sent'[h]["ENTRY"] = qty[h]["ENTRY"]
    <3>1. row[h]["ENTRY"] \in UnderWay /\ sent'[h]["ENTRY"] = sent[h]["ENTRY"]
      BY <1>1, <2>1 DEF UnderWay
    <3> QED  BY <3>1 DEF SizedTogether
  <2>2. ASSUME NEW h \in Group \ resized, NEW m \in Exit, row'[h][m] \in {"Created", "Submitted"}
        PROVE  qty[h][m] <= qty[h]["ENTRY"]
    <3>1. row[h][m] \in {"Created", "Submitted"}  BY <1>1, <2>2
    <3> QED  BY <3>1 DEF SizedTogether
  <2> QED  BY <2>1, <2>2 DEF SizedTogether, Exits, workerVars
<1> QED  BY <1>3, <1>4, <1>5, <1>6, <1>7, <1>8

LEMMA CoverFill == \A g \in Group, l \in Leg : IInv /\ CoverInv /\ Fill(g, l) => CoverInv'
<1> SUFFICES ASSUME IInv, CoverInv, NEW g \in Group, NEW l \in Leg, Fill(g, l) PROVE CoverInv'
  OBVIOUS
<1> DEFINE over == IF l = "ENTRY" THEN {} ELSE {m \in Exit \ {l} : row[g][m] = "Submitted"}
<1>1. /\ UNCHANGED <<qty, resized, workerVars, file, item, want, ipc>>
      /\ row[g][l] = "Submitted" /\ (l \in Exit => row[g]["ENTRY"] = "Filled")
      /\ row' = [row EXCEPT ![g] = [m \in Leg |->
                    IF m = l THEN "Filled" ELSE IF m \in over THEN "Cancelled" ELSE @[m]]]
      /\ sent' = [sent EXCEPT ![g] = [m \in Leg |-> IF m \in over THEN 0 ELSE @[m]]]
  BY DEF Fill, KeepProgram, importVars, histVars
<1>2. \A m \in over : m # l /\ m \in Exit /\ row[g][m] = "Submitted"  OBVIOUS
<1> HIDE DEF over
<1>3. \A h \in Group, m \in Leg :
          /\ row'[h][m] = IF h # g THEN row[h][m] ELSE
                           IF m = l THEN "Filled" ELSE IF m \in over THEN "Cancelled" ELSE row[h][m]
          /\ sent'[h][m] = IF h = g /\ m \in over THEN 0 ELSE sent[h][m]
  BY <1>1 DEF IInv, TypeOK, DbTypes, EnvTypes
<1>4. "ENTRY" \in Leg /\ "ENTRY" \notin Exit  BY DEF Leg, Exit
<1>5. \A h \in Group : row'[h]["ENTRY"] = row[h]["ENTRY"] \/ row'[h]["ENTRY"] = "Filled"
  BY <1>2, <1>3, <1>4
<1>6. \A h \in Group, m \in Leg :
          \/ row'[h][m] = row[h][m] /\ sent'[h][m] = sent[h][m]
          \/ /\ row[h][m] = "Submitted" /\ row'[h][m] = "Filled"
             /\ sent'[h][m] = sent[h][m] /\ (m \in Exit => row[h]["ENTRY"] = "Filled")
          \/ /\ row[h][m] = "Submitted" /\ row'[h][m] \in {"Cancelled", "Error", "Created"}
             /\ sent'[h][m] = 0
  BY <1>1, <1>2, <1>3
<1> QED  BY <1>1, <1>5, <1>6, CoverEnded

LEMMA CoverOver == \A g \in Group, l \in Leg : IInv /\ CoverInv /\ OrderOver(g, l) => CoverInv'
<1> SUFFICES ASSUME IInv, CoverInv, NEW g \in Group, NEW l \in Leg, OrderOver(g, l)
             PROVE  CoverInv'
  OBVIOUS
<1>1. UNCHANGED <<qty, resized, workerVars, file, item, want, ipc>>
  BY DEF OrderOver, KeepProgram, importVars, histVars
<1>2. PICK s \in {"Cancelled", "Error", "Created"} : Lose(g, l, s)  BY DEF OrderOver
<1> DEFINE over == IF l # "ENTRY" THEN {} ELSE {m \in Exit : row[g][m] = "Submitted"}
<1>3. /\ row[g][l] = "Submitted"
      /\ row' = [row EXCEPT ![g] = [m \in Leg |->
                   IF m = l THEN s ELSE IF m \in over THEN "Cancelled" ELSE @[m]]]
      /\ sent' = [sent EXCEPT ![g] = [m \in Leg |-> IF m \in over \cup {l} THEN 0 ELSE @[m]]]
  BY <1>2 DEF Lose
<1>4. /\ \A m \in over : m \in Exit /\ row[g][m] = "Submitted"
      /\ l = "ENTRY" => \A m \in Exit \ over : row[g][m] # "Submitted"
  OBVIOUS
<1> HIDE DEF over
<1>5. \A h \in Group, m \in Leg :
          /\ row'[h][m] = IF h # g THEN row[h][m] ELSE
                           IF m = l THEN s ELSE IF m \in over THEN "Cancelled" ELSE row[h][m]
          /\ sent'[h][m] = IF h = g /\ m \in over \cup {l} THEN 0 ELSE sent[h][m]
  BY <1>3 DEF IInv, TypeOK, DbTypes, EnvTypes
<1>6. "ENTRY" \in Leg /\ Exit \subseteq Leg /\ "ENTRY" \notin Exit  BY DEF Leg, Exit
<1>7. \A h \in Group : row'[h]["ENTRY"] # row[h]["ENTRY"] /\ row'[h]["ENTRY"] # "Filled"
                       => \A m \in Exit : row'[h][m] # "Submitted"
  <2> SUFFICES ASSUME NEW h \in Group, row'[h]["ENTRY"] # row[h]["ENTRY"], NEW m \in Exit
               PROVE  row'[h][m] # "Submitted"
    OBVIOUS
  <2>1. h = g /\ l = "ENTRY"  BY <1>4, <1>5, <1>6
  <2> QED  BY <1>4, <1>5, <1>6, <2>1
<1>8. \A h \in Group, m \in Leg :
          \/ row'[h][m] = row[h][m] /\ sent'[h][m] = sent[h][m]
          \/ /\ row[h][m] = "Submitted" /\ row'[h][m] = "Filled"
             /\ sent'[h][m] = sent[h][m] /\ (m \in Exit => row[h]["ENTRY"] = "Filled")
          \/ /\ row[h][m] = "Submitted" /\ row'[h][m] \in {"Cancelled", "Error", "Created"}
             /\ sent'[h][m] = 0
  BY <1>3, <1>4, <1>5
<1> QED  BY <1>1, <1>7, <1>8, CoverEnded

LEMMA StepCover == IInv /\ CoverInv /\ [Next]_vars => CoverInv'
<1> SUFFICES ASSUME IInv, CoverInv, [Next]_vars PROVE CoverInv'  OBVIOUS
<1>1. CASE UNCHANGED vars
  <2>1. UNCHANGED <<row, qty, sent, resized, wpc, hand, snap, file, item, want, ipc>>
    BY <1>1 DEF vars, dbVars, importVars, workerVars, envVars, histVars
  <2> QED  BY <2>1, WantKept, CoverKept DEF CoverInv
<1>2. CASE Next
  BY <1>2, CoverAside, CoverUpsert, CoverLoad, CoverSendEntry, CoverRefuse, CoverSendExit,
     CoverFill, CoverOver DEF Next, Worker
<1> QED  BY <1>1, <1>2

\* Whatever is imported, in whatever files and however often, through crashes, retries and
\* lost sessions: no exit is at TWS for more than its entry, unless its group was sized
\* again while its entry was under way, or beside an exit sized before.
THEOREM ExitsWithinEntry == Spec => []ExitsCovered
<1>1. Init => IInv /\ CoverInv  BY InitIInv, InitCover
<1>2. IInv /\ CoverInv /\ [Next]_vars => (IInv /\ CoverInv)'  BY StepIInv, StepCover
<1>3. IInv /\ CoverInv => ExitsCovered  BY DEF CoverInv
<1> QED  BY <1>1, <1>2, <1>3, PTL DEF Spec
=============================================================================
